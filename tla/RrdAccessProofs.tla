--------------------------- MODULE RrdAccessProofs ---------------------------
(***************************************************************************)
(* Processes that share an RRD file: last_up never goes back, archives are *)
(* right whenever no update is under way, and a reader without a lock gets *)
(* rows that are off by a known distance, for any number of processes,     *)
(* archives and rows, whatever processes are killed.                       *)
(***************************************************************************)
EXTENDS RrdAccess, TLAPS

-----------------------------------------------------------------------------
(* The inductive invariant                                                 *)

Rows == 0 .. RowCnt - 1
Working == {"row", "write", "stamp"}
Holding == {"ready", "last_up", "prep", "cur"} \cup Working
Places == {"idle", "opened", "close"} \cup Holding

Preps == [time : Nat, sound : BOOLEAN]
Heads == [last_up : Nat, prep : Preps, cur : [Archives -> Rows]]
Files == [last_up : Nat, prep : Preps, cur : [Archives -> Rows],
          rows : [Archives -> [Rows -> Nat]]]
UpdaterStates == [pc : Places, head : Heads, fresh : BOOLEAN, n : Nat, t : Nat,
                  arch : Nat, left : Nat, steps : Nat, sound : BOOLEAN,
                  wrote : [Archives -> Nat]]
Readers == [pc : {"head", "cur", "done", "lastupdate"}, a : Archives, want : Int,
            last_up : Nat, cur : Rows, newest : Nat, got : Nat, quiet : BOOLEAN]
Traces == [broken : BOOLEAN, tainted : BOOLEAN, since : Nat,
           lost : [Archives -> Nat], newest : [Archives -> Nat]]

TypeOK ==
    /\ build \in Builds /\ file \in Files /\ trace \in Traces
    /\ lock \in Procs \cup {"none"} /\ proc \in [Procs -> UpdaterStates]
    /\ reader = [pc |-> "idle"] \/ reader \in Readers

\* A process works on the file only while it holds the lock.
Exclusive ==
    \A p \in Procs : /\ proc[p].pc \in Holding => lock = p
                     /\ lock = p => proc[p].pc \in Holding \cup {"close"}

\* Rows of archive a that the argument in work has written, whether the row
\* pointer is one ahead of them, and by how much it has moved.
Written(q, a) == IF a < q.arch THEN q.steps ELSE IF a = q.arch THEN q.steps - q.left ELSE 0
Pending(q, a) == IF q.pc = "write" /\ a = q.arch THEN 1 ELSE 0
Moved(q, a) == Written(q, a) + Pending(q, a)

\* What a process has read with rrd_open is still in the file.
OpenedSound(p) ==
    proc[p].pc = "opened" =>
        /\ proc[p].n = 0 /\ proc[p].wrote = NoneWritten
        /\ proc[p].fresh /\ build # "mmap" =>
             /\ proc[p].head.last_up = file.last_up
             /\ proc[p].head.prep = file.prep /\ proc[p].head.cur = file.cur

\* Where an update is in its argument.
WorkSound(p) ==
    LET q == proc[p]
        h == HeadOf(p)
    IN  /\ q.pc \in Working => /\ q.t > h.last_up /\ Slot(q.t) = Slot(h.last_up) + q.steps
                               /\ h.prep.time = q.t /\ q.n > 0
        /\ q.pc \in {"row", "write"} => q.arch \in Archives /\ q.left \in 1 .. q.steps
        /\ q.pc = "stamp" => \A a \in Archives : Written(q, a) = q.steps
        /\ q.pc \notin Working => q.steps = 0 /\ q.left = 0 /\ q.arch = 1
        /\ q.pc \in Holding \ Working /\ q.n > 0 => h.prep.time = h.last_up

\* The header of the process that holds the lock against that in the file.
HeadSound(p) ==
    LET q == proc[p]
    IN  q.pc \in Holding =>
          /\ build # "copy" => HeadOf(p).last_up = file.last_up /\ q.wrote = NoneWritten
          /\ build = "copy" =>
               /\ q.head.last_up >= file.last_up
               /\ q.pc \in {"ready", "last_up"} /\ q.n > 0 => q.head.last_up > file.last_up
               /\ q.pc \in {"prep", "cur"} => q.head.last_up = file.last_up
               /\ q.pc = "cur" => q.head.prep = file.prep
               /\ \A a \in Archives : q.head.cur[a] =
                     (file.cur[a] + q.wrote[a] + Pending(q, a)) % RowCnt
          /\ q.pc \in {"last_up", "prep", "cur"} => build = "copy" /\ q.n > 0

\* Last readings never lag behind last_up in a mapped file.
PrepAhead == build # "copy" => file.prep.time >= file.last_up /\ \A a \in Archives : trace.lost[a] = 0

AccessInv ==
    /\ TypeOK /\ Exclusive /\ (build = "mmap" => ~trace.tainted)
    /\ ~trace.tainted => /\ PrepAhead
                         /\ \A p \in Procs : OpenedSound(p) /\ WorkSound(p) /\ HeadSound(p)

\* What is kept of the step in which last_up falls is right, unless it is one
\* that a killed or refused update has spoiled.
PrepSound(last, prep, since) == prep.sound \/ since > Slot(last)

\* The rows r of an archive show the steps after from and since up to last, if
\* row c is that of step top.
Shown(r, c, top, from, since, last) ==
    \A s \in Int : from < s /\ since < s /\ s <= last /\ top - s < RowCnt =>
                      r[(c - (top - s)) % RowCnt] = s

\* Header and rows of archive a agree in the file, but for the oldest k rows.
FileRows(k, a) ==
    LET top == Slot(file.last_up)
        gone == IF k > trace.lost[a] THEN k ELSE trace.lost[a]
    IN  Shown(file.rows[a], file.cur[a], top, top - RowCnt + gone, trace.since, top)

FileSound(k) == /\ PrepSound(file.last_up, file.prep, trace.since)
                /\ \A a \in Archives : FileRows(k[a], a)

\* Header and rows agree as the process that holds the lock sees them.
ViewRows(p, a) ==
    LET q == proc[p]
        h == HeadOf(p)
        top == Slot(h.last_up) + Written(q, a)
    IN  Shown(file.rows[a], h.cur[a], top + Pending(q, a),
              top - RowCnt + trace.lost[a] - q.wrote[a], trace.since, top)

ViewPrep(p) ==
    LET q == proc[p]
        h == HeadOf(p)
        top == Slot(h.last_up)
    IN  /\ q.pc \notin Working => PrepSound(h.last_up, h.prep, trace.since)
        /\ q.pc \in Working => /\ q.sound \/ trace.since > top
                               /\ h.prep.sound \/ trace.since > top + q.steps

ViewSound(p) == ViewPrep(p) /\ \A a \in Archives : ViewRows(p, a)

Free == \A p \in Procs : proc[p].pc \notin Holding

RowsInv ==
    ~trace.tainted /\ ~trace.broken =>
        /\ Free => FileSound(NoneWritten)
        /\ \A p \in Procs : proc[p].pc \in Holding =>
             /\ ViewSound(p)
             /\ build = "copy" /\ proc[p].pc \notin {"prep", "cur"} => FileSound(proc[p].wrote)

\* No killed update has spoiled anything so far.
Unspoiled == ~trace.tainted /\ ~trace.broken /\ trace.since = 0

\* Then the row of step s is row s % RowCnt, ...
PlacedRows(a) == \A i \in Rows : file.rows[a][i] # 0 => file.rows[a][i] % RowCnt = i

\* ... and the row pointer, in the file and as a process sees it, is at the
\* last row it was moved to.
PlacedFile(a) == file.cur[a] = Slot(file.last_up) % RowCnt
PlacedView(p, a) ==
    HeadOf(p).cur[a] = (Slot(HeadOf(p).last_up) + Moved(proc[p], a)) % RowCnt

PlaceInv ==
    Unspoiled => \A a \in Archives :
        /\ PlacedRows(a) /\ file.cur[a] = trace.newest[a] % RowCnt
        /\ Free => PlacedFile(a)
        /\ \A p \in Procs : proc[p].pc \in Holding =>
             /\ PlacedView(p, a)
             /\ build = "copy" /\ proc[p].pc \notin {"prep", "cur"} => PlacedFile(a)

\* What a reader has seen of the header and of the row.
SeenSound(r) ==
    /\ r.last_up <= file.last_up /\ Offset(r) \in 0 .. RowCnt - 1 /\ r.want > 0
    /\ r.pc \in {"cur", "done"} /\ Unspoiled => r.cur = r.newest % RowCnt
    /\ r.pc = "done" /\ Unspoiled /\ r.got # 0 =>
         r.got % RowCnt = (r.cur - Offset(r)) % RowCnt
    /\ r.pc = "lastupdate" /\ build # "copy" => r.got >= r.last_up

\* While it is not disturbed, it is what is in the file.
QuietSound(r) ==
    /\ \A p \in Procs : proc[p].pc \notin {"prep", "cur"}
    /\ r.last_up = file.last_up
    /\ r.pc = "cur" => r.cur = file.cur[r.a]
    /\ trace.since = 0 /\ trace.lost[r.a] = 0 =>
         /\ r.pc \in {"head", "cur"} =>
              file.rows[r.a][(file.cur[r.a] - Offset(r)) % RowCnt] = r.want
         /\ r.pc = "done" => r.got = r.want

ReadInv ==
    ~trace.tainted /\ reader.pc # "idle" =>
        SeenSound(reader) /\ (reader.quiet => QuietSound(reader))

-----------------------------------------------------------------------------
(* Remainders                                                              *)

(* Quotient and remainder.                                                 *)
LEMMA DivMod ==
    ASSUME NEW R \in Nat \ {0}, NEW x \in Int
    PROVE  /\ x % R \in 0 .. R - 1
           /\ x \div R \in Int
           /\ x = R * (x \div R) + (x % R)
OBVIOUS

(* Quotient and remainder are unique.                                      *)
LEMMA ModUnique ==
    ASSUME NEW R \in Nat \ {0}, NEW q \in Int, NEW y \in 0 .. R - 1
    PROVE  (R * q + y) % R = y
<1> DEFINE x == R * q + y
           d == x \div R
           m == x % R
<1>0. x \in Int
  OBVIOUS
<1>1. d \in Int /\ m \in 0 .. R - 1 /\ x = R * d + m
  BY <1>0, DivMod
<1>2. R * (q - d) = m - y
  <2> HIDE DEF d, m
  <2> QED BY <1>1
<1>3. ~ (q - d >= 1)
  <2> DEFINE e == q - d
  <2>1. e \in Int
    BY <1>1
  <2> HIDE DEF e, d, m
  <2>2. e >= 1 => R * e >= R
    BY <2>1
  <2> QED BY <1>1, <1>2, <2>2 DEF e
<1>4. ~ (q - d <= -1)
  <2> DEFINE e == q - d
  <2>1. e \in Int
    BY <1>1
  <2> HIDE DEF e, d, m
  <2>2. e <= -1 => R * e <= -R
    BY <2>1
  <2> QED BY <1>1, <1>2, <2>2 DEF e
<1>5. q = d
  <2> HIDE DEF d
  <2> QED BY <1>1, <1>3, <1>4
<1> HIDE DEF d, m
<1>6. m = y
  BY <1>1, <1>2, <1>5
<1> QED BY <1>6 DEF m

(* A sum may be reduced before or after an addition (cur_row, which        *)
(* write_to_rras reduces after every row).                                 *)
LEMMA ModAdd ==
    ASSUME NEW R \in Nat \ {0}, NEW x \in Int, NEW w \in Int
    PROVE  ((x % R) + w) % R = (x + w) % R
<1> DEFINE d == x \div R
           m == x % R
           y == m + w
           k == y % R
           e == y \div R
<1>1. d \in Int /\ m \in 0 .. R - 1 /\ x = R * d + m
  BY DivMod
<1>2. y \in Int
  BY <1>1
<1> HIDE DEF d, m
<1>3. e \in Int /\ k \in 0 .. R - 1 /\ y = R * e + k
  BY <1>2, DivMod
<1> HIDE DEF e, k
<1>4. x + w = R * (d + e) + k
  BY <1>1, <1>3
<1>5. (R * (d + e) + k) % R = k
  <2> DEFINE g == d + e
  <2>1. g \in Int
    BY <1>1, <1>3
  <2> HIDE DEF g
  <2>2. (R * g + k) % R = k
    BY <1>3, <2>1, ModUnique
  <2> QED BY <2>2 DEF g
<1>6. (x + w) % R = k
  BY <1>4, <1>5
<1> QED BY <1>6 DEF k, m

(* The same for one more.                                                  *)
LEMMA ModSucc ==
    ASSUME NEW R \in Nat \ {0}, NEW x \in Nat
    PROVE  ((x % R) + 1) % R = (x + 1) % R
<1> DEFINE w == 1
<1>1. w \in Int /\ x \in Int
  OBVIOUS
<1> HIDE DEF w
<1>2. ((x % R) + w) % R = (x + w) % R
  BY <1>1, ModAdd
<1> QED BY <1>2 DEF w

(* The remainder of a number one round away.                               *)
LEMMA ModNear ==
    ASSUME NEW R \in Nat \ {0}, NEW x \in Int
    PROVE  /\ x \in 0 .. R - 1 => x % R = x
           /\ x \in -R .. -1 => x % R = x + R
           /\ x \in R .. R + R - 1 => x % R = x - R
<1>1. ASSUME x \in 0 .. R - 1 PROVE x % R = x
  <2>1. (R * 0 + x) % R = x
    BY <1>1, ModUnique
  <2>2. R * 0 + x = x
    OBVIOUS
  <2> QED BY <2>1, <2>2
<1>2. ASSUME x \in -R .. -1 PROVE x % R = x + R
  <2> DEFINE y == x + R
  <2>1. y \in 0 .. R - 1 /\ R * (-1) + y = x
    BY <1>2
  <2> HIDE DEF y
  <2>2. (R * (-1) + y) % R = y
    BY <2>1, ModUnique
  <2> QED BY <2>1, <2>2 DEF y
<1>3. ASSUME x \in R .. R + R - 1 PROVE x % R = x - R
  <2> DEFINE y == x - R
  <2>1. y \in 0 .. R - 1 /\ R * 1 + y = x
    BY <1>3
  <2> HIDE DEF y
  <2>2. (R * 1 + y) % R = y
    BY <2>1, ModUnique
  <2> QED BY <2>1, <2>2 DEF y
<1> QED BY <1>1, <1>2, <1>3

(* Numbers with the same remainder differ by whole rounds.                 *)
LEMMA ModEqual ==
    ASSUME NEW R \in Nat \ {0}, NEW x \in Int, NEW y \in Int, x % R = y % R
    PROVE  (x - y) % R = 0
<1>1. ((x % R) + (-y)) % R = (x + (-y)) % R
  <2> DEFINE z == -y
  <2>1. z \in Int
    OBVIOUS
  <2> HIDE DEF z
  <2>2. ((x % R) + z) % R = (x + z) % R
    BY <2>1, ModAdd
  <2> QED BY <2>2 DEF z
<1>2. ((y % R) + (-y)) % R = (y + (-y)) % R
  <2> DEFINE z == -y
  <2>1. z \in Int
    OBVIOUS
  <2> HIDE DEF z
  <2>2. ((y % R) + z) % R = (y + z) % R
    BY <2>1, ModAdd
  <2> QED BY <2>2 DEF z
<1>3. (y + (-y)) % R = 0
  <2>1. y + (-y) = 0
    OBVIOUS
  <2>2. 0 % R = 0
    BY ModNear
  <2> QED BY <2>1, <2>2
<1>4. x + (-y) = x - y
  OBVIOUS
<1> QED BY <1>1, <1>2, <1>3, <1>4
-----------------------------------------------------------------------------
(* Rows of one archive                                                     *)

(* Where the row of a step k before that of row c is.                      *)
LEMMA BackFrom ==
    ASSUME NEW c \in Rows, NEW k \in Rows
    PROVE  (c - k) % RowCnt = IF k <= c THEN c - k ELSE c - k + RowCnt
<1>1. RowCnt \in Nat \ {0}
  BY AccessAssumption
<1> DEFINE x == c - k
<1>2. x \in Int /\ (k <= c => x \in 0 .. RowCnt - 1) /\ (~(k <= c) => x \in -RowCnt .. -1)
  BY <1>1 DEF Rows
<1> HIDE DEF x
<1>3. /\ x \in 0 .. RowCnt - 1 => x % RowCnt = x
      /\ x \in -RowCnt .. -1 => x % RowCnt = x + RowCnt
  BY <1>1, <1>2, ModNear
<1>4. x % RowCnt = IF k <= c THEN x ELSE x + RowCnt
  BY <1>2, <1>3
<1> QED BY <1>4 DEF x

(* The next row.                                                           *)
LEMMA NextRow ==
    ASSUME NEW c \in Rows
    PROVE  (c + 1) % RowCnt = IF c + 1 = RowCnt THEN 0 ELSE c + 1
<1>1. RowCnt \in Nat \ {0}
  BY AccessAssumption
<1> DEFINE x == c + 1
<1>2. x \in Int /\ (x # RowCnt => x \in 0 .. RowCnt - 1)
                /\ (x = RowCnt => x \in RowCnt .. RowCnt + RowCnt - 1)
  BY <1>1 DEF Rows
<1> HIDE DEF x
<1>3. /\ x \in 0 .. RowCnt - 1 => x % RowCnt = x
      /\ x \in RowCnt .. RowCnt + RowCnt - 1 => x % RowCnt = x - RowCnt
  BY <1>1, <1>2, ModNear
<1>4. x % RowCnt = IF x = RowCnt THEN 0 ELSE x
  BY <1>1, <1>2, <1>3
<1> QED BY <1>4 DEF x

(* Less is claimed.                                                        *)
LEMMA ShownLess ==
    ASSUME NEW r, NEW c, NEW top \in Int, NEW from \in Int, NEW since \in Int, NEW last \in Int,
           NEW from2 \in Int, NEW since2 \in Int, NEW last2 \in Int,
           Shown(r, c, top, from, since, last),
           from <= from2, since <= since2, last2 <= last
    PROVE  Shown(r, c, top, from2, since2, last2)
BY DEF Shown

(* The row pointer moves to the row of the next step, before it is written *)
(* (write_to_rras).                                                        *)
LEMMA ShownAdvance ==
    ASSUME NEW r, NEW c \in Rows, NEW top \in Int, NEW from \in Int, NEW since \in Int,
           Shown(r, c, top, from, since, top)
    PROVE  Shown(r, (c + 1) % RowCnt, top + 1, from, since, top)
<1>1. RowCnt \in Nat \ {0}
  BY AccessAssumption
<1> DEFINE d == (c + 1) % RowCnt
<1>2. d = IF c + 1 = RowCnt THEN 0 ELSE c + 1
  BY NextRow
<1> HIDE DEF d
<1>3. d \in Rows
  BY <1>1, <1>2 DEF Rows
<1>4. ASSUME NEW s \in Int, from < s, since < s, s <= top, (top + 1) - s < RowCnt
      PROVE  r[(d - ((top + 1) - s)) % RowCnt] = s
  <2> DEFINE k == top - s
             j == (top + 1) - s
  <2>1. k \in Rows /\ j \in Rows /\ j = k + 1
    BY <1>1, <1>4 DEF Rows
  <2>2. r[(c - k) % RowCnt] = s
    BY <1>1, <1>4 DEF Shown
  <2> HIDE DEF k, j
  <2>3. (c - k) % RowCnt = IF k <= c THEN c - k ELSE c - k + RowCnt
    BY <2>1, BackFrom
  <2>4. (d - j) % RowCnt = IF j <= d THEN d - j ELSE d - j + RowCnt
    BY <1>3, <2>1, BackFrom
  <2>5. (IF j <= d THEN d - j ELSE d - j + RowCnt) = IF k <= c THEN c - k ELSE c - k + RowCnt
    BY <1>1, <1>2, <2>1 DEF Rows
  <2>6. (d - j) % RowCnt = (c - k) % RowCnt
    BY <2>3, <2>4, <2>5
  <2>7. r[(d - j) % RowCnt] = s
    BY <2>2, <2>6
  <2> QED BY <2>7 DEF j
<1>5. Shown(r, d, top + 1, from, since, top)
  BY <1>4 DEF Shown
<1> QED BY <1>5 DEF d

(* The row of step top is written (write_RRA_row); it need not be right if *)
(* nothing is claimed of its step.                                         *)
LEMMA ShownWrite ==
    ASSUME NEW r \in [Rows -> Nat], NEW c \in Rows, NEW top \in Int, NEW from \in Int,
           NEW since \in Int, NEW v, v = top \/ top <= since,
           Shown(r, c, top, from, since, top - 1)
    PROVE  Shown([r EXCEPT ![c] = v], c, top, from, since, top)
<1>1. RowCnt \in Nat \ {0}
  BY AccessAssumption
<1> SUFFICES ASSUME NEW s \in Int, from < s, since < s, s <= top, top - s < RowCnt
             PROVE  [r EXCEPT ![c] = v][(c - (top - s)) % RowCnt] = s
  BY DEF Shown
<1> DEFINE k == top - s
           x == (c - k) % RowCnt
<1>2. k \in Rows
  BY <1>1 DEF Rows
<1>3. x = IF k <= c THEN c - k ELSE c - k + RowCnt
  <2> HIDE DEF k
  <2> QED BY <1>2, BackFrom
<1>4. CASE s = top
  <2> HIDE DEF x
  <2>1. x = c
    BY <1>1, <1>3, <1>4 DEF Rows
  <2>2. [r EXCEPT ![c] = v][x] = s
    BY <1>4, <2>1
  <2> QED BY <2>2 DEF x
<1>5. CASE s # top
  <2>1. r[x] = s
    BY <1>1, <1>5 DEF Shown
  <2> HIDE DEF x
  <2>2. x # c /\ x \in Rows
    BY <1>1, <1>2, <1>3, <1>5 DEF Rows
  <2>3. [r EXCEPT ![c] = v][x] = s
    BY <2>1, <2>2
  <2> QED BY <2>3 DEF x
<1> QED BY <1>4, <1>5

(* The (w + 1)st row after c is written: seen from c it was the row of one *)
(* of the oldest steps.                                                    *)
LEMMA ShownOver ==
    ASSUME NEW r \in [Rows -> Nat], NEW c \in Rows, NEW top \in Int, NEW from \in Int,
           NEW since \in Int, NEW v, NEW w \in Nat, from >= top - RowCnt + w + 1,
           NEW z, z = (c + w + 1) % RowCnt, Shown(r, c, top, from, since, top)
    PROVE  Shown([r EXCEPT ![z] = v], c, top, from, since, top)
<1>1. RowCnt \in Nat \ {0}
  BY AccessAssumption
<1> DEFINE y == c + w + 1
<1> SUFFICES ASSUME NEW s \in Int, from < s, since < s, s <= top, top - s < RowCnt
             PROVE  [r EXCEPT ![z] = v][(c - (top - s)) % RowCnt] = s
  BY DEF Shown
<1> DEFINE k == top - s
           x == (c - k) % RowCnt
<1>2. k \in Rows /\ k + w + 1 < RowCnt
  BY <1>1 DEF Rows
<1>3. x = IF k <= c THEN c - k ELSE c - k + RowCnt
  <2> HIDE DEF k
  <2> QED BY <1>2, BackFrom
<1>4. y \in Int /\ (y < RowCnt => y \in 0 .. RowCnt - 1)
                /\ (y >= RowCnt => y \in RowCnt .. RowCnt + RowCnt - 1)
  <2> HIDE DEF k
  <2> QED BY <1>1, <1>2 DEF Rows
<1>5. z = IF y < RowCnt THEN y ELSE y - RowCnt
  <2>0. z = y % RowCnt
    OBVIOUS
  <2> HIDE DEF y
  <2>1. /\ y \in 0 .. RowCnt - 1 => y % RowCnt = y
        /\ y \in RowCnt .. RowCnt + RowCnt - 1 => y % RowCnt = y - RowCnt
    BY <1>1, <1>4, ModNear
  <2> QED BY <1>1, <1>4, <2>0, <2>1
<1>6. r[x] = s
  BY DEF Shown
<1> HIDE DEF x, k
<1>7. x # z /\ x \in Rows
  BY <1>1, <1>2, <1>3, <1>5 DEF Rows
<1>8. [r EXCEPT ![z] = v][x] = s
  BY <1>6, <1>7
<1> QED BY <1>8 DEF x, k

-----------------------------------------------------------------------------
(* What a step of a process changes                                        *)

\* The part of a step that is the same for all actions of a process.
StepOf(p) ==
    /\ build' = build /\ file' \in Files /\ proc' \in [Procs -> UpdaterStates]
    /\ \A r \in Procs \ {p} :
         /\ proc'[r].pc = proc[r].pc /\ proc'[r].head = proc[r].head /\ proc'[r].n = proc[r].n
         /\ proc'[r].t = proc[r].t /\ proc'[r].arch = proc[r].arch
         /\ proc'[r].left = proc[r].left /\ proc'[r].steps = proc[r].steps
         /\ proc'[r].sound = proc[r].sound /\ proc'[r].wrote = proc[r].wrote
         /\ proc'[r].fresh /\ proc[r].pc = "opened" => proc[r].fresh /\ file' = file
    /\ reader' = IF file' = file \/ reader.pc = "idle" THEN reader
                 ELSE [reader EXCEPT !.quiet = FALSE]
    /\ reader' = [pc |-> "idle"] \/ reader' \in Readers

(* Step does that.                                                         *)
LEMMA StepIs ==
    ASSUME TypeOK, NEW p \in Procs, NEW q \in UpdaterStates, NEW f \in Files, Step(p, q, f)
    PROVE  StepOf(p) /\ proc'[p] = q /\ file' = f
<1>1. build' = build /\ file' = f /\ file' \in Files
  BY DEF Step
<1>2. proc' = [r \in Procs |-> IF r = p THEN q
                 ELSE [proc[r] EXCEPT !.fresh = @ /\ (proc[r].pc = "opened" => f = file)]]
  BY DEF Step
<1>3. ASSUME NEW r \in Procs
      PROVE  [proc[r] EXCEPT !.fresh = @ /\ (proc[r].pc = "opened" => f = file)] \in UpdaterStates
  <2>1. proc[r] \in UpdaterStates
    BY DEF TypeOK
  <2>2. (proc[r].fresh /\ (proc[r].pc = "opened" => f = file)) \in BOOLEAN
    OBVIOUS
  <2> QED BY <2>1, <2>2 DEF UpdaterStates
<1>4. proc' \in [Procs -> UpdaterStates] /\ proc'[p] = q
  BY <1>2, <1>3
<1>5. ASSUME NEW r \in Procs \ {p}
      PROVE  /\ proc'[r].pc = proc[r].pc /\ proc'[r].head = proc[r].head
             /\ proc'[r].n = proc[r].n
             /\ proc'[r].t = proc[r].t /\ proc'[r].arch = proc[r].arch
             /\ proc'[r].left = proc[r].left /\ proc'[r].steps = proc[r].steps
             /\ proc'[r].sound = proc[r].sound /\ proc'[r].wrote = proc[r].wrote
             /\ proc'[r].fresh /\ proc[r].pc = "opened" => proc[r].fresh /\ file' = file
  <2>1. proc[r] \in UpdaterStates
    BY DEF TypeOK
  <2>2. proc'[r] = [proc[r] EXCEPT !.fresh = @ /\ (proc[r].pc = "opened" => f = file)]
    BY <1>2
  <2>3. /\ proc'[r].pc = proc[r].pc /\ proc'[r].head = proc[r].head
        /\ proc'[r].n = proc[r].n
        /\ proc'[r].t = proc[r].t /\ proc'[r].arch = proc[r].arch
        /\ proc'[r].left = proc[r].left /\ proc'[r].steps = proc[r].steps
        /\ proc'[r].sound = proc[r].sound /\ proc'[r].wrote = proc[r].wrote
    BY <2>1, <2>2 DEF UpdaterStates
  <2>4. proc'[r].fresh = (proc[r].fresh /\ (proc[r].pc = "opened" => f = file))
    BY <2>1, <2>2 DEF UpdaterStates
  <2> QED BY <1>1, <2>3, <2>4
<1>6. reader' = IF file' = file \/ reader.pc = "idle" THEN reader
                ELSE [reader EXCEPT !.quiet = FALSE]
  BY <1>1 DEF Step
<1>7. reader' = [pc |-> "idle"] \/ reader' \in Readers
  <2>1. CASE reader' = reader
    BY <2>1 DEF TypeOK
  <2>2. CASE reader' = [reader EXCEPT !.quiet = FALSE] /\ reader.pc # "idle"
    <3>1. reader \in Readers
      BY <2>2 DEF TypeOK
    <3> QED BY <2>2, <3>1 DEF Readers
  <2> QED BY <1>6, <2>1, <2>2
<1> QED BY <1>1, <1>4, <1>5, <1>6, <1>7 DEF StepOf

(* What the other processes rely on stays true if the file does not change *)
(* or none of them works on it.                                            *)
LEMMA OthersSound ==
    ASSUME TypeOK, NEW p \in Procs, StepOf(p), NEW r \in Procs \ {p},
           file' = file \/ proc[r].pc \notin Holding,
           OpenedSound(r), WorkSound(r), HeadSound(r)
    PROVE  OpenedSound(r)' /\ WorkSound(r)' /\ HeadSound(r)'
<1>1. /\ proc'[r].pc = proc[r].pc /\ proc'[r].head = proc[r].head /\ proc'[r].n = proc[r].n
      /\ proc'[r].t = proc[r].t /\ proc'[r].arch = proc[r].arch
      /\ proc'[r].left = proc[r].left /\ proc'[r].steps = proc[r].steps
      /\ proc'[r].wrote = proc[r].wrote /\ build' = build
  BY DEF StepOf
<1>2. OpenedSound(r)'
  BY <1>1 DEF StepOf, OpenedSound, NoneWritten
<1>3. CASE proc[r].pc \notin Holding
  <2>1. WorkSound(r)'
    BY <1>1, <1>3 DEF WorkSound, Holding, Working
  <2>2. HeadSound(r)'
    BY <1>1, <1>3 DEF HeadSound
  <2> QED BY <1>2, <2>1, <2>2
<1>4. CASE file' = file
  <2>1. HeadOf(r)' = HeadOf(r)
    BY <1>1, <1>4 DEF HeadOf
  <2>2. \A a \in Archives : Written(proc[r], a)' = Written(proc[r], a)
    BY <1>1 DEF Written
  <2>3. \A a \in Archives : Pending(proc[r], a)' = Pending(proc[r], a)
    BY <1>1 DEF Pending
  <2>4. WorkSound(r)'
    BY <1>1, <2>1, <2>2 DEF WorkSound
  <2>5. HeadSound(r)'
    BY <1>1, <1>4, <2>1, <2>2, <2>3 DEF HeadSound, NoneWritten
  <2> QED BY <1>2, <2>4, <2>5
<1> QED BY <1>3, <1>4


(* The states an updater starts from.                                      *)
LEMMA IdleTyped ==
    /\ NoneWritten \in [Archives -> Nat] /\ NoHead \in Heads /\ Idle \in UpdaterStates
    /\ [Idle EXCEPT !.pc = "close"] \in UpdaterStates
    /\ \A a \in Archives : NoneWritten[a] = 0
<1>1. RowCnt \in Nat \ {0}
  BY AccessAssumption
<1>2. NoneWritten \in [Archives -> Nat] /\ NoneWritten \in [Archives -> Rows]
  BY <1>1 DEF NoneWritten, Rows
<1>3. NoHead \in Heads
  BY <1>2 DEF NoHead, Heads, Preps
<1>4. Idle \in UpdaterStates
  BY <1>2, <1>3 DEF Idle, UpdaterStates, Places
<1>5. [Idle EXCEPT !.pc = "close"] \in UpdaterStates
  BY <1>4 DEF UpdaterStates, Places
<1> QED BY <1>2, <1>3, <1>4, <1>5 DEF NoneWritten

\* All fields of an updater but its place and its header are the initial ones.
Blank(q) == /\ q.n = 0 /\ q.wrote = NoneWritten /\ q.steps = 0 /\ q.left = 0 /\ q.arch = 1

\* The fields that a change of the header leaves alone.
SameWork(q1, q2) ==
    /\ q1.n = q2.n /\ q1.t = q2.t /\ q1.arch = q2.arch /\ q1.left = q2.left
    /\ q1.steps = q2.steps /\ q1.sound = q2.sound /\ q1.wrote = q2.wrote /\ q1.pc = q2.pc
    /\ q1.head.last_up = q2.head.last_up

(* SetHead changes pdp_prep as p sees it, and nothing else.                *)
LEMMA SetPrepIs ==
    ASSUME TypeOK, NEW p \in Procs, NEW q \in UpdaterStates, q.head = proc[p].head,
           NEW v \in Preps, SetHead(p, q, "prep", v)
    PROVE  /\ StepOf(p) /\ SameWork(proc'[p], q)
           /\ HeadOf(p)'.last_up = HeadOf(p).last_up /\ HeadOf(p)'.cur = HeadOf(p).cur
           /\ HeadOf(p)'.prep = v
           /\ file'.last_up = file.last_up /\ file'.cur = file.cur /\ file'.rows = file.rows
           /\ build = "copy" => file' = file /\ proc'[p].head.cur = proc[p].head.cur
           /\ build # "copy" => file'.prep = v
<1>1. CASE build = "copy"
  <2> DEFINE q2 == [q EXCEPT !.head["prep"] = v]
  <2>1. q2 \in UpdaterStates /\ SameWork(q2, q) /\ q2.head.cur = q.head.cur
                             /\ q2.head.prep = v
    BY DEF UpdaterStates, Heads, SameWork
  <2>2. Step(p, q2, file) /\ file \in Files
    BY <1>1 DEF SetHead, TypeOK
  <2> HIDE DEF q2
  <2>3. StepOf(p) /\ proc'[p] = q2 /\ file' = file
    BY <2>1, <2>2, StepIs
  <2> QED BY <1>1, <2>1, <2>3 DEF StepOf, HeadOf, SameWork
<1>2. CASE build # "copy"
  <2> DEFINE f2 == [file EXCEPT !["prep"] = v]
  <2>1. /\ f2 \in Files /\ f2.last_up = file.last_up /\ f2.cur = file.cur
        /\ f2.rows = file.rows /\ f2.prep = v
    BY DEF TypeOK, Files
  <2>2. Step(p, q, f2)
    BY <1>2 DEF SetHead
  <2> HIDE DEF f2
  <2>3. StepOf(p) /\ proc'[p] = q /\ file' = f2
    BY <2>1, <2>2, StepIs
  <2> QED BY <1>2, <2>1, <2>3 DEF StepOf, HeadOf, SameWork
<1> QED BY <1>1, <1>2

(* SetHead changes the row pointers as p sees them, and nothing else.      *)
LEMMA SetCurIs ==
    ASSUME TypeOK, NEW p \in Procs, NEW q \in UpdaterStates, q.head = proc[p].head,
           NEW v \in [Archives -> Rows], SetHead(p, q, "cur", v)
    PROVE  /\ StepOf(p) /\ SameWork(proc'[p], q)
           /\ HeadOf(p)'.last_up = HeadOf(p).last_up /\ HeadOf(p)'.prep = HeadOf(p).prep
           /\ HeadOf(p)'.cur = v
           /\ file'.last_up = file.last_up /\ file'.prep = file.prep /\ file'.rows = file.rows
           /\ build = "copy" => file' = file /\ proc'[p].head.cur = v
           /\ build # "copy" => file'.cur = v
<1>1. CASE build = "copy"
  <2> DEFINE q2 == [q EXCEPT !.head["cur"] = v]
  <2>1. q2 \in UpdaterStates /\ SameWork(q2, q) /\ q2.head.cur = v
                             /\ q2.head.prep = q.head.prep
    BY DEF UpdaterStates, Heads, SameWork
  <2>2. Step(p, q2, file) /\ file \in Files
    BY <1>1 DEF SetHead, TypeOK
  <2> HIDE DEF q2
  <2>3. StepOf(p) /\ proc'[p] = q2 /\ file' = file
    BY <2>1, <2>2, StepIs
  <2> QED BY <1>1, <2>1, <2>3 DEF StepOf, HeadOf, SameWork
<1>2. CASE build # "copy"
  <2> DEFINE f2 == [file EXCEPT !["cur"] = v]
  <2>1. /\ f2 \in Files /\ f2.last_up = file.last_up /\ f2.prep = file.prep
        /\ f2.rows = file.rows /\ f2.cur = v
    BY DEF TypeOK, Files
  <2>2. Step(p, q, f2)
    BY <1>2 DEF SetHead
  <2> HIDE DEF f2
  <2>3. StepOf(p) /\ proc'[p] = q /\ file' = f2
    BY <2>1, <2>2, StepIs
  <2> QED BY <1>2, <2>1, <2>3 DEF StepOf, HeadOf, SameWork
<1> QED BY <1>1, <1>2

(* Open reads the header, or only maps it.                                 *)
LEMMA OpenIs ==
    ASSUME TypeOK, NEW p \in Procs, Open(p)
    PROVE  /\ StepOf(p) /\ file' = file /\ lock' = lock /\ trace' = trace
           /\ proc[p].pc = "idle" /\ proc'[p].pc = "opened" /\ Blank(proc'[p])
           /\ build # "mmap" => /\ proc'[p].head.last_up = file.last_up
                                /\ proc'[p].head.prep = file.prep
                                /\ proc'[p].head.cur = file.cur
<1> DEFINE h == IF build = "mmap" THEN NoHead
                ELSE [last_up |-> file.last_up, prep |-> file.prep, cur |-> file.cur]
           q == [Idle EXCEPT !.pc = "opened", !.head = h]
<1>1. h \in Heads /\ (build # "mmap" => h.last_up = file.last_up /\ h.prep = file.prep
                                        /\ h.cur = file.cur)
  BY IdleTyped DEF TypeOK, Files, Heads
<1>2. Step(p, q, file) /\ file \in Files
  BY DEF Open, TypeOK
<1> HIDE DEF h
<1>3. q \in UpdaterStates /\ q.pc = "opened" /\ q.head = h /\ Blank(q)
  <2>1. Blank(Idle)
    BY DEF Blank, Idle
  <2> QED BY <1>1, <2>1, IdleTyped DEF UpdaterStates, Places, Blank
<1> HIDE DEF q
<1>4. StepOf(p) /\ proc'[p] = q /\ file' = file
  BY <1>2, <1>3, StepIs
<1>5. lock' = lock /\ trace' = trace /\ proc[p].pc = "idle"
  BY DEF Open
<1> QED BY <1>1, <1>3, <1>4, <1>5


(* Lock gives up, or the process goes on with what it has read.            *)
LEMMA LockIs ==
    ASSUME TypeOK, NEW p \in Procs, Lock(p)
    PROVE  /\ StepOf(p) /\ file' = file /\ proc[p].pc = "opened"
           /\ \/ /\ lock # "none" /\ lock' = lock /\ trace' = trace
                 /\ proc'[p].pc = "close" /\ Blank(proc'[p])
              \/ /\ lock = "none" /\ lock' = p
                 /\ proc'[p] = [proc[p] EXCEPT !.pc = "ready", !.fresh = TRUE]
                 /\ trace' = [trace EXCEPT !.tainted = @ \/ (build # "mmap" /\ ~proc[p].fresh)]
<1>0. proc[p].pc = "opened" /\ file \in Files /\ proc[p] \in UpdaterStates
  BY DEF Lock, TypeOK
<1>1. CASE Busy
  <2> DEFINE q == [Idle EXCEPT !.pc = "close"]
  <2>1. Step(p, q, file) /\ lock' = lock /\ trace' = trace
    BY <1>1 DEF Lock
  <2>2. q \in UpdaterStates /\ q.pc = "close" /\ Blank(q)
    BY IdleTyped DEF Idle, Blank
  <2> HIDE DEF q
  <2>3. StepOf(p) /\ proc'[p] = q /\ file' = file
    BY <1>0, <2>1, <2>2, StepIs
  <2> QED BY <1>0, <1>1, <2>1, <2>2, <2>3 DEF Busy
<1>2. CASE ~Busy
  <2> DEFINE q == [proc[p] EXCEPT !.pc = "ready", !.fresh = TRUE]
  <2>1. Step(p, q, file) /\ lock' = p
        /\ trace' = [trace EXCEPT !.tainted = @ \/ (build # "mmap" /\ ~proc[p].fresh)]
    BY <1>2 DEF Lock
  <2>2. q \in UpdaterStates
    BY <1>0 DEF UpdaterStates, Places, Holding
  <2>3. StepOf(p) /\ proc'[p] = q /\ file' = file
    <3> HIDE DEF q
    <3> QED BY <1>0, <2>1, <2>2, StepIs
  <2> QED BY <1>0, <1>2, <2>1, <2>3 DEF Busy
<1> QED BY <1>1, <1>2

(* The steps that end an update: a bad argument, the end of the arguments  *)
(* with a mapped file, rrd_close and the end of the process.               *)
LEMMA BadArgIs ==
    ASSUME TypeOK, NEW p \in Procs, BadArg(p)
    PROVE  /\ StepOf(p) /\ lock' = lock
           /\ file'.last_up = file.last_up /\ file'.cur = file.cur /\ file'.rows = file.rows
           /\ file'.prep.sound = file.prep.sound
           /\ file' = file \/ (build # "copy" /\ file'.prep.time > HeadOf(p).last_up)
           /\ proc[p].pc = "ready" /\ proc'[p].pc = "close" /\ Blank(proc'[p])
           /\ trace' = [trace EXCEPT !.lost = [a \in Archives |->
                          IF build = "copy" /\ proc[p].wrote[a] > @[a] THEN proc[p].wrote[a] ELSE @[a]]]
<1> DEFINE q == [Idle EXCEPT !.pc = "close"]
<1>0. PICK prep \in Refused(p) : Step(p, q, [file EXCEPT !.prep = prep])
  BY DEF BadArg
<1> DEFINE f == [file EXCEPT !.prep = prep]
<1>1. Step(p, q, f) /\ lock' = lock /\ proc[p].pc = "ready" /\ file \in Files
  BY <1>0 DEF BadArg, TypeOK
<1>2. q \in UpdaterStates /\ q.pc = "close" /\ Blank(q)
  BY IdleTyped DEF Idle, Blank
<1>3. trace' = [trace EXCEPT !.lost = [a \in Archives |->
                  IF build = "copy" /\ proc[p].wrote[a] > @[a] THEN proc[p].wrote[a] ELSE @[a]]]
  BY DEF BadArg
<1>4. /\ prep \in Preps /\ prep.sound = file.prep.sound
      /\ prep = file.prep \/ (build # "copy" /\ prep.time > HeadOf(p).last_up)
  <2>1. file.prep \in Preps
    BY <1>1 DEF Files
  <2>2. CASE prep = file.prep
    BY <2>1, <2>2
  <2>3. CASE prep # file.prep
    <3>1. PICK t \in {u \in 1 .. MaxTime : build # "copy" /\ Accepts(p, u)
                                            /\ u <= file.last_up + MaxJump} :
                  prep = [file.prep EXCEPT !.time = t]
      BY <1>0, <2>3 DEF Refused
    <3>2. t \in Nat
      BY AccessAssumption
    <3> QED BY <2>1, <3>1, <3>2 DEF Accepts, Preps
  <2> QED BY <2>2, <2>3
<1>5. /\ f \in Files /\ f.last_up = file.last_up /\ f.cur = file.cur /\ f.rows = file.rows
      /\ f.prep = prep /\ (prep = file.prep => f = file)
  BY <1>1, <1>4 DEF Files
<1> HIDE DEF q, f
<1>6. StepOf(p) /\ proc'[p] = q /\ file' = f
  BY <1>1, <1>2, <1>5, StepIs
<1> QED BY <1>1, <1>2, <1>3, <1>4, <1>5, <1>6

(* The end of the arguments.                                               *)
LEMMA EndIs ==
    ASSUME TypeOK, NEW p \in Procs, End(p)
    PROVE  /\ StepOf(p) /\ file' = file /\ lock' = lock /\ trace' = trace
           /\ proc[p].pc = "ready" /\ proc[p].n > 0
           /\ build = "copy" => proc'[p] = [proc[p] EXCEPT !.pc = "last_up"]
           /\ build # "copy" => proc'[p].pc = "close" /\ Blank(proc'[p])
<1>0. /\ proc[p].pc = "ready" /\ proc[p].n > 0 /\ lock' = lock /\ trace' = trace
      /\ file \in Files /\ proc[p] \in UpdaterStates
  BY DEF End, TypeOK
<1>1. CASE build = "copy"
  <2> DEFINE q == [proc[p] EXCEPT !.pc = "last_up"]
  <2>1. Step(p, q, file)
    BY <1>1 DEF End
  <2>2. q \in UpdaterStates
    BY <1>0 DEF UpdaterStates, Places, Holding
  <2>3. StepOf(p) /\ proc'[p] = q /\ file' = file
    <3> HIDE DEF q
    <3> QED BY <1>0, <2>1, <2>2, StepIs
  <2> QED BY <1>0, <1>1, <2>3
<1>2. CASE build # "copy"
  <2> DEFINE q == [Idle EXCEPT !.pc = "close"]
  <2>1. Step(p, q, file)
    BY <1>2 DEF End
  <2>2. q \in UpdaterStates /\ q.pc = "close" /\ Blank(q)
    BY IdleTyped DEF Idle, Blank
  <2> HIDE DEF q
  <2>3. StepOf(p) /\ proc'[p] = q /\ file' = file
    BY <1>0, <2>1, <2>2, StepIs
  <2> QED BY <1>0, <1>2, <2>2, <2>3
<1> QED BY <1>1, <1>2

(* rrd_close.                                                              *)
LEMMA CloseIs ==
    ASSUME TypeOK, NEW p \in Procs, Close(p)
    PROVE  /\ StepOf(p) /\ file' = file /\ trace' = trace
           /\ lock' = (IF lock = p THEN "none" ELSE lock)
           /\ proc[p].pc = "close" /\ proc'[p].pc = "idle" /\ Blank(proc'[p])
<1>1. Step(p, Idle, file) /\ file \in Files
  BY DEF Close, TypeOK
<1>2. Idle \in UpdaterStates /\ Idle.pc = "idle" /\ Blank(Idle)
  BY IdleTyped DEF Idle, Blank
<1>3. StepOf(p) /\ proc'[p] = Idle /\ file' = file
  BY <1>1, <1>2, StepIs
<1>4. trace' = trace /\ lock' = (IF lock = p THEN "none" ELSE lock) /\ proc[p].pc = "close"
  BY DEF Close, Unlock
<1> QED BY <1>2, <1>3, <1>4

\* What a killed process had written without a header.
Unheaded(p, a) == IF build = "copy" /\ proc[p].pc # "close" THEN proc[p].wrote[a] ELSE 0

(* A process is killed.                                                    *)
LEMMA KillIs ==
    ASSUME TypeOK, NEW p \in Procs, Kill(p)
    PROVE  /\ StepOf(p) /\ file' = file
           /\ lock' = (IF lock = p THEN "none" ELSE lock)
           /\ proc[p].pc # "idle" /\ proc'[p].pc = "idle" /\ Blank(proc'[p])
           /\ trace' = [trace EXCEPT
                  !.broken = @ \/ proc[p].pc \in (IF build = "copy" THEN {"prep", "cur"} ELSE Working),
                  !.lost = [a \in Archives |->
                              IF Unheaded(p, a) > @[a] THEN Unheaded(p, a) ELSE @[a]]]
<1>1. Step(p, Idle, file) /\ file \in Files
  BY DEF Kill, TypeOK
<1>2. Idle \in UpdaterStates /\ Idle.pc = "idle" /\ Blank(Idle)
  BY IdleTyped DEF Idle, Blank
<1>3. StepOf(p) /\ proc'[p] = Idle /\ file' = file
  BY <1>1, <1>2, StepIs
<1>4. lock' = (IF lock = p THEN "none" ELSE lock) /\ proc[p].pc # "idle"
  BY DEF Kill, Unlock
<1>5. trace' = [trace EXCEPT
         !.broken = @ \/ proc[p].pc \in (IF build = "copy" THEN {"prep", "cur"} ELSE Working),
         !.lost = [a \in Archives |-> IF Unheaded(p, a) > @[a] THEN Unheaded(p, a) ELSE @[a]]]
  BY DEF Kill, Unheaded, Working
<1> QED BY <1>2, <1>3, <1>4, <1>5


(* The slot of a time.                                                     *)
LEMMA SlotNat ==
    ASSUME NEW t \in Nat
    PROVE  Slot(t) \in Nat /\ (\A u \in Nat : u <= t => Slot(u) <= Slot(t))
BY DEF Slot

(* The header as a process sees it has its type.                           *)
LEMMA HeadTyped ==
    ASSUME TypeOK, NEW p \in Procs
    PROVE  /\ HeadOf(p).last_up \in Nat /\ HeadOf(p).prep \in Preps
           /\ HeadOf(p).cur \in [Archives -> Rows] /\ proc[p] \in UpdaterStates
<1>1. /\ file.last_up \in Nat /\ file.prep \in Preps /\ file.cur \in [Archives -> Rows]
  BY DEF TypeOK, Files
<1>2. proc[p] \in UpdaterStates
  BY DEF TypeOK
<1>3. /\ proc[p].head.last_up \in Nat /\ proc[p].head.prep \in Preps
      /\ proc[p].head.cur \in [Archives -> Rows]
  BY <1>2 DEF UpdaterStates, Heads
<1> QED BY <1>1, <1>2, <1>3 DEF HeadOf

\* The readings of an argument fit those before it.
Fits(p) == HeadOf(p).prep.time = HeadOf(p).last_up

\* If they do not, the steps up to the time of the argument are spoiled.
ArgTrace(p, t) ==
    /\ trace' \in Traces /\ trace'.tainted = trace.tainted /\ trace'.broken = trace.broken
    /\ trace'.lost = trace.lost /\ trace'.newest = trace.newest
    /\ trace'.since >= trace.since /\ (Fits(p) \/ trace'.since > Slot(t))

(* process_arg up to the rows.                                             *)
LEMMA ArgIs ==
    ASSUME TypeOK, NEW p \in Procs, NEW t \in 1 .. MaxTime, Arg(p, t)
    PROVE  LET h == HeadOf(p)
               e == Slot(t) - Slot(h.last_up)
               q == proc'[p]
           IN  /\ StepOf(p) /\ lock' = lock /\ ArgTrace(p, t) /\ proc[p].pc = "ready"
               /\ t > h.last_up /\ e \in Nat
               /\ q.pc = (IF e = 0 THEN "stamp" ELSE "row") /\ q.n = proc[p].n + 1 /\ q.t = t
               /\ q.arch = 1 /\ q.left = e /\ q.steps = e /\ q.wrote = proc[p].wrote
               /\ q.sound = (Fits(p) /\ h.prep.sound)
               /\ q.head.last_up = proc[p].head.last_up
               /\ HeadOf(p)'.last_up = h.last_up /\ HeadOf(p)'.cur = h.cur
               /\ HeadOf(p)'.prep = [time |-> t, sound |-> Fits(p) /\ (e = 0 => h.prep.sound)]
               /\ file'.last_up = file.last_up /\ file'.cur = file.cur /\ file'.rows = file.rows
               /\ build = "copy" => file' = file /\ q.head.cur = proc[p].head.cur
               /\ build # "copy" => file'.prep = HeadOf(p)'.prep
<1> DEFINE h == HeadOf(p)
           e == Slot(t) - Slot(h.last_up)
           v == [time |-> t, sound |-> Fits(p) /\ (e = 0 => h.prep.sound)]
           w == Fits(p) /\ h.prep.sound
           pc == IF e = 0 THEN "stamp" ELSE "row"
           n == proc[p].n + 1
           q == [proc[p] EXCEPT !.pc = pc, !.n = n, !.t = t, !.arch = 1, !.left = e,
                                !.steps = e, !.sound = w]
<1>0. t \in Nat
  BY AccessAssumption
<1>1. h.last_up \in Nat /\ h.prep \in Preps /\ proc[p] \in UpdaterStates
  BY HeadTyped
<1>2. /\ proc[p].pc = "ready" /\ t > h.last_up /\ lock' = lock
      /\ trace' = [trace EXCEPT !.since = Spoiled(@, Fits(p), t)]
      /\ SetHead(p, q, "prep", v)
  BY DEF Arg, Accepts, Fits
<1>3. e \in Nat
  <2> HIDE DEF h
  <2>1. Slot(t) \in Nat /\ Slot(h.last_up) <= Slot(t) /\ Slot(h.last_up) \in Nat
    BY <1>0, <1>1, <1>2, SlotNat
  <2> QED BY <2>1
<1>4. v \in Preps
  <2>1. (Fits(p) /\ (e = 0 => h.prep.sound)) \in BOOLEAN
    OBVIOUS
  <2> QED BY <1>0, <2>1 DEF Preps
<1>5. w \in BOOLEAN
  OBVIOUS
<1>10. ArgTrace(p, t)
  <2>1. trace \in Traces /\ trace.since \in Nat /\ Slot(t) \in Nat
    BY <1>0, SlotNat DEF TypeOK, Traces
  <2> DEFINE since == Spoiled(trace.since, Fits(p), t)
  <2>2. since \in Nat /\ since >= trace.since /\ (Fits(p) \/ since > Slot(t))
    BY <2>1 DEF Spoiled
  <2>3. trace' = [trace EXCEPT !.since = since]
    BY <1>2
  <2> HIDE DEF since
  <2> QED BY <2>1, <2>2, <2>3 DEF ArgTrace, Traces
<1>9. pc \in Places /\ n \in Nat
  BY <1>1 DEF UpdaterStates, Places, Holding, Working
<1> HIDE DEF h, e, v, w, pc, n
<1>6. /\ q \in UpdaterStates /\ q.head = proc[p].head /\ q.wrote = proc[p].wrote
      /\ q.pc = pc /\ q.n = n /\ q.t = t
      /\ q.arch = 1 /\ q.left = e /\ q.steps = e /\ q.sound = w
  BY <1>0, <1>1, <1>3, <1>5, <1>9 DEF UpdaterStates
<1> HIDE DEF q
<1>7. /\ StepOf(p) /\ SameWork(proc'[p], q)
      /\ HeadOf(p)'.last_up = HeadOf(p).last_up /\ HeadOf(p)'.cur = HeadOf(p).cur
      /\ HeadOf(p)'.prep = v
      /\ file'.last_up = file.last_up /\ file'.cur = file.cur /\ file'.rows = file.rows
      /\ build = "copy" => file' = file /\ proc'[p].head.cur = proc[p].head.cur
      /\ build # "copy" => file'.prep = v
  BY <1>2, <1>4, <1>6, SetPrepIs
<1>8. /\ StepOf(p) /\ lock' = lock /\ ArgTrace(p, t) /\ proc[p].pc = "ready"
      /\ t > h.last_up /\ e \in Nat
      /\ proc'[p].pc = (IF e = 0 THEN "stamp" ELSE "row") /\ proc'[p].n = proc[p].n + 1
      /\ proc'[p].t = t /\ proc'[p].arch = 1 /\ proc'[p].left = e /\ proc'[p].steps = e
      /\ proc'[p].wrote = proc[p].wrote /\ proc'[p].sound = w
      /\ proc'[p].head.last_up = proc[p].head.last_up
  BY <1>2, <1>3, <1>6, <1>7, <1>10 DEF SameWork, pc, n
<1> QED BY <1>7, <1>8 DEF h, e, v, w

(* The row pointer moves.                                                  *)
LEMMA AdvanceIs ==
    ASSUME TypeOK, NEW p \in Procs, Advance(p), proc[p].arch \in Archives
    PROVE  LET h == HeadOf(p)
               a == proc[p].arch
               q == proc'[p]
           IN  /\ StepOf(p) /\ lock' = lock /\ proc[p].pc = "row" /\ q.pc = "write"
               /\ q.n = proc[p].n /\ q.t = proc[p].t /\ q.arch = a /\ q.left = proc[p].left
               /\ q.steps = proc[p].steps /\ q.wrote = proc[p].wrote
               /\ q.sound = proc[p].sound /\ q.head.last_up = proc[p].head.last_up
               /\ HeadOf(p)'.last_up = h.last_up /\ HeadOf(p)'.prep = h.prep
               /\ HeadOf(p)'.cur = [h.cur EXCEPT ![a] = (@ + 1) % RowCnt]
               /\ file'.last_up = file.last_up /\ file'.prep = file.prep /\ file'.rows = file.rows
               /\ build = "copy" => file' = file /\ q.head.cur = HeadOf(p)'.cur
               /\ build # "copy" => file'.cur = HeadOf(p)'.cur
               /\ trace' = [trace EXCEPT !.newest[a] = IF build = "copy" THEN @ ELSE @ + 1]
<1> DEFINE h == HeadOf(p)
           a == proc[p].arch
           v == [h.cur EXCEPT ![a] = (@ + 1) % RowCnt]
           q == [proc[p] EXCEPT !.pc = "write"]
<1>1. h.cur \in [Archives -> Rows] /\ proc[p] \in UpdaterStates
  BY HeadTyped
<1>2. /\ proc[p].pc = "row" /\ lock' = lock /\ SetHead(p, q, "cur", v)
      /\ trace' = [trace EXCEPT !.newest[a] = IF build = "copy" THEN @ ELSE @ + 1]
  BY DEF Advance
<1>3. v \in [Archives -> Rows]
  <2> HIDE DEF h
  <2>1. RowCnt \in Nat \ {0} /\ h.cur[a] \in Rows
    BY <1>1, AccessAssumption
  <2>2. (h.cur[a] + 1) % RowCnt \in Rows
    BY <2>1, NextRow DEF Rows
  <2> QED BY <1>1, <2>2
<1> HIDE DEF v
<1>4. /\ q \in UpdaterStates /\ q.head = proc[p].head /\ q.wrote = proc[p].wrote
      /\ q.pc = "write" /\ q.n = proc[p].n /\ q.t = proc[p].t
      /\ q.arch = a /\ q.left = proc[p].left /\ q.steps = proc[p].steps
      /\ q.sound = proc[p].sound
  BY <1>1 DEF UpdaterStates, Places, Holding, Working
<1> HIDE DEF q
<1>5. /\ StepOf(p) /\ SameWork(proc'[p], q)
      /\ HeadOf(p)'.last_up = HeadOf(p).last_up /\ HeadOf(p)'.prep = HeadOf(p).prep
      /\ HeadOf(p)'.cur = v
      /\ file'.last_up = file.last_up /\ file'.prep = file.prep /\ file'.rows = file.rows
      /\ build = "copy" => file' = file /\ proc'[p].head.cur = v
      /\ build # "copy" => file'.cur = v
  BY <1>2, <1>3, <1>4, SetCurIs
<1> QED BY <1>2, <1>4, <1>5 DEF SameWork, v

\* The value of the row that is written.
RowValue(p) ==
    LET k == proc[p].steps - proc[p].left + 1
    IN  IF IF k = 1 THEN proc[p].sound ELSE HeadOf(p).prep.sound
        THEN Slot(HeadOf(p).last_up) + k ELSE 0

(* A row is written.                                                       *)
LEMMA WriteRowIs ==
    ASSUME TypeOK, NEW p \in Procs, WriteRow(p), proc[p].arch \in Archives,
           proc[p].left \in 1 .. proc[p].steps
    PROVE  LET h == HeadOf(p)
               a == proc[p].arch
               last == proc[p].left = 1
               q == proc'[p]
           IN  /\ StepOf(p) /\ lock' = lock /\ trace' = trace /\ proc[p].pc = "write"
               /\ q.pc = (IF last /\ a = Cardinality(Archives) THEN "stamp" ELSE "row")
               /\ q.n = proc[p].n /\ q.t = proc[p].t /\ q.steps = proc[p].steps
               /\ q.arch = (IF last THEN a + 1 ELSE a)
               /\ q.left = (IF last THEN proc[p].steps ELSE proc[p].left - 1)
               /\ q.wrote = [proc[p].wrote EXCEPT ![a] = IF build = "copy" THEN @ + 1 ELSE @]
               /\ q.sound = proc[p].sound /\ q.head = proc[p].head
               /\ HeadOf(p)' = h /\ RowValue(p) \in Nat
               /\ file'.last_up = file.last_up /\ file'.prep = file.prep /\ file'.cur = file.cur
               /\ file'.rows = [file.rows EXCEPT ![a] = [@ EXCEPT ![h.cur[a]] = RowValue(p)]]
<1> DEFINE h == HeadOf(p)
           a == proc[p].arch
           last == proc[p].left = 1
           w == [proc[p].wrote EXCEPT ![a] = IF build = "copy" THEN @ + 1 ELSE @]
           v == RowValue(p)
           left == IF last THEN proc[p].steps ELSE proc[p].left - 1
           arch == IF last THEN a + 1 ELSE a
           pc == IF last /\ a = Cardinality(Archives) THEN "stamp" ELSE "row"
           q == [proc[p] EXCEPT !.left = left, !.arch = arch, !.wrote = w, !.pc = pc]
           f == [file EXCEPT !.rows[a][h.cur[a]] = v]
<1>1. h.last_up \in Nat /\ h.cur \in [Archives -> Rows] /\ proc[p] \in UpdaterStates
  BY HeadTyped
<1>2. /\ proc[p].pc = "write" /\ lock' = lock /\ trace' = trace /\ Step(p, q, f)
  <2>1. q = [proc[p] EXCEPT !.left = IF last THEN proc[p].steps ELSE @ - 1,
                            !.arch = IF last THEN a + 1 ELSE a,
                            !.wrote[a] = IF build = "copy" THEN @ + 1 ELSE @,
                            !.pc = IF last /\ a = Cardinality(Archives)
                                   THEN "stamp" ELSE "row"]
    BY <1>1 DEF UpdaterStates
  <2> HIDE DEF q
  <2> QED BY <2>1 DEF WriteRow, RowValue
<1>3. v \in Nat
  <2> DEFINE s == Slot(h.last_up)
  <2>1. s \in Nat
    BY <1>1, SlotNat
  <2> HIDE DEF s
  <2> QED BY <1>1, <2>1 DEF RowValue, s, UpdaterStates
<1> HIDE DEF h, v
<1>4. f \in Files /\ f.last_up = file.last_up /\ f.prep = file.prep /\ f.cur = file.cur
      /\ f.rows = [file.rows EXCEPT ![a] = [@ EXCEPT ![h.cur[a]] = v]]
  BY <1>1, <1>3 DEF TypeOK, Files
<1>5. /\ q \in UpdaterStates /\ q.head = proc[p].head /\ q.wrote = w
      /\ q.pc = (IF last /\ a = Cardinality(Archives) THEN "stamp" ELSE "row")
      /\ q.n = proc[p].n /\ q.t = proc[p].t /\ q.steps = proc[p].steps
      /\ q.arch = (IF last THEN a + 1 ELSE a) /\ q.sound = proc[p].sound
      /\ q.left = (IF last THEN proc[p].steps ELSE proc[p].left - 1)
  <2>1. left \in Nat /\ arch \in Nat /\ pc \in Places /\ w \in [Archives -> Nat]
    BY <1>1 DEF UpdaterStates, Places, Holding, Working
  <2> HIDE DEF left, arch, pc, w
  <2>2. /\ q \in UpdaterStates /\ q.head = proc[p].head /\ q.wrote = w /\ q.pc = pc
        /\ q.n = proc[p].n /\ q.t = proc[p].t /\ q.steps = proc[p].steps
        /\ q.arch = arch /\ q.sound = proc[p].sound /\ q.left = left
    BY <1>1, <2>1 DEF UpdaterStates
  <2> QED BY <2>2 DEF left, arch, pc
<1> HIDE DEF q, f
<1>6. StepOf(p) /\ proc'[p] = q /\ file' = f
  BY <1>2, <1>4, <1>5, StepIs
<1>7. HeadOf(p)' = HeadOf(p)
  BY <1>4, <1>5, <1>6 DEF HeadOf, StepOf
<1> QED BY <1>2, <1>3, <1>4, <1>5, <1>6, <1>7 DEF h, v


(* The trace after an update that is over.                                 *)
LEMMA SettledIs ==
    ASSUME NEW tr \in Traces, NEW f \in Files, NEW w \in [Archives -> Nat]
    PROVE  LET tr2 == Settled(tr, f, w)
           IN  /\ tr2 \in Traces /\ ~tr2.broken /\ tr2.tainted = tr.tainted
               /\ tr2.since = (IF tr.broken THEN Slot(f.last_up) + 1 ELSE tr.since)
               /\ \A a \in Archives : tr2.lost[a] = IF tr.lost[a] > w[a] THEN tr.lost[a] - w[a] ELSE 0
               /\ tr2.newest = tr.newest
<1> DEFINE since == IF tr.broken THEN Slot(f.last_up) + 1 ELSE tr.since
           lost == [a \in Archives |-> IF tr.lost[a] > w[a] THEN tr.lost[a] - w[a] ELSE 0]
           tr2 == [tr EXCEPT !.broken = FALSE, !.since = since, !.lost = lost]
<1>1. since \in Nat
  <2>1. f.last_up \in Nat
    BY DEF Files
  <2>2. Slot(f.last_up) \in Nat
    BY <2>1, SlotNat
  <2> QED BY <2>2 DEF Traces
<1>2. lost \in [Archives -> Nat]
  BY DEF Traces
<1>3. \A a \in Archives : lost[a] = IF tr.lost[a] > w[a] THEN tr.lost[a] - w[a] ELSE 0
  OBVIOUS
<1>4. Settled(tr, f, w) = tr2
  BY DEF Settled, Traces
<1> HIDE DEF since, lost
<1>5. /\ tr2 \in Traces /\ ~tr2.broken /\ tr2.tainted = tr.tainted /\ tr2.since = since
      /\ tr2.lost = lost /\ tr2.newest = tr.newest
  BY <1>1, <1>2 DEF Traces
<1> HIDE DEF tr2
<1> QED BY <1>3, <1>4, <1>5 DEF since

(* last_up is set.                                                         *)
LEMMA StampIs ==
    ASSUME TypeOK, NEW p \in Procs, Stamp(p)
    PROVE  LET q == proc'[p]
           IN  /\ StepOf(p) /\ lock' = lock /\ proc[p].pc = "stamp" /\ q.pc = "ready"
               /\ q.n = proc[p].n /\ q.wrote = proc[p].wrote
               /\ q.steps = 0 /\ q.left = 0 /\ q.arch = 1
               /\ HeadOf(p)'.last_up = proc[p].t /\ HeadOf(p)'.prep = HeadOf(p).prep
               /\ HeadOf(p)'.cur = HeadOf(p).cur
               /\ file'.prep = file.prep /\ file'.cur = file.cur /\ file'.rows = file.rows
               /\ build = "copy" => /\ file' = file /\ trace' = trace
                                    /\ q.head.last_up = proc[p].t /\ q.head.cur = proc[p].head.cur
               /\ build # "copy" => /\ file'.last_up = proc[p].t
                                    /\ trace' = Settled(trace, file', NoneWritten)
<1> DEFINE u == IF build = "mmap" THEN proc[p].head.last_up ELSE proc[p].t
           q == [proc[p] EXCEPT !.pc = "ready", !.t = 0, !.steps = 0, !.left = 0, !.arch = 1,
                                !.head.last_up = u]
           f == [file EXCEPT !.last_up = proc[p].t]
<1>1. proc[p] \in UpdaterStates /\ file \in Files
  BY DEF TypeOK
<1>2. /\ lock' = lock /\ proc[p].pc = "stamp"
      /\ build = "copy" => Step(p, q, file) /\ trace' = trace
      /\ build # "copy" => Step(p, q, f) /\ trace' = Settled(trace, f, NoneWritten)
  <2>1. q = [proc[p] EXCEPT !.pc = "ready", !.t = 0, !.steps = 0, !.left = 0, !.arch = 1,
                            !.head.last_up = IF build = "mmap" THEN @ ELSE proc[p].t]
    BY <1>1 DEF UpdaterStates, Heads
  <2> HIDE DEF q
  <2> QED BY <2>1 DEF Stamp, Stampable, NoneWritten
<1>3. u \in Nat
  BY <1>1 DEF UpdaterStates, Heads
<1> HIDE DEF u
<1>4. /\ q \in UpdaterStates /\ q.pc = "ready" /\ q.n = proc[p].n /\ q.wrote = proc[p].wrote
      /\ q.steps = 0 /\ q.left = 0 /\ q.arch = 1 /\ q.head.last_up = u
      /\ q.head.prep = proc[p].head.prep /\ q.head.cur = proc[p].head.cur
  BY <1>1, <1>3 DEF UpdaterStates, Heads, Places, Holding
<1>5. /\ f \in Files /\ f.last_up = proc[p].t /\ f.prep = file.prep /\ f.cur = file.cur
      /\ f.rows = file.rows
  BY <1>1 DEF Files, UpdaterStates
<1> HIDE DEF q, f
<1>6. CASE build = "copy"
  <2>1. StepOf(p) /\ proc'[p] = q /\ file' = file
    BY <1>1, <1>2, <1>4, <1>6, StepIs
  <2> QED BY <1>2, <1>4, <1>6, <2>1 DEF HeadOf, StepOf, u
<1>7. CASE build # "copy"
  <2>1. StepOf(p) /\ proc'[p] = q /\ file' = f
    BY <1>2, <1>4, <1>5, <1>7, StepIs
  <2> QED BY <1>2, <1>4, <1>5, <1>7, <2>1 DEF HeadOf, StepOf, u
<1> QED BY <1>6, <1>7

(* One field of the header is written.                                     *)
LEMMA WriteHeaderIs ==
    ASSUME TypeOK, NEW p \in Procs, WriteHeader(p)
    PROVE  LET h == proc[p].head
               q == proc'[p]
           IN  /\ StepOf(p) /\ lock' = lock /\ file'.rows = file.rows
               /\ q.n = proc[p].n /\ q.wrote = proc[p].wrote /\ q.head = h
               /\ q.steps = proc[p].steps /\ q.left = proc[p].left /\ q.arch = proc[p].arch
               /\ \/ /\ proc[p].pc = "last_up" /\ q.pc = "prep" /\ trace' = trace
                     /\ file'.last_up = h.last_up /\ file'.prep = file.prep /\ file'.cur = file.cur
                  \/ /\ proc[p].pc = "prep" /\ q.pc = "cur" /\ trace' = trace
                     /\ file'.last_up = file.last_up /\ file'.prep = h.prep /\ file'.cur = file.cur
                  \/ /\ proc[p].pc = "cur" /\ q.pc = "close"
                     /\ file'.last_up = file.last_up /\ file'.prep = file.prep /\ file'.cur = h.cur
                     /\ trace' = [Settled(trace, file', proc[p].wrote) EXCEPT
                                    !.newest = [a \in Archives |-> @[a] + proc[p].wrote[a]]]
<1> DEFINE h == proc[p].head
<1>1. proc[p] \in UpdaterStates /\ file \in Files
  BY DEF TypeOK
<1>2. h \in Heads /\ proc[p].pc \in {"last_up", "prep", "cur"} /\ lock' = lock
  BY <1>1 DEF WriteHeader, UpdaterStates
<1>3. CASE proc[p].pc = "last_up"
  <2> DEFINE q == [proc[p] EXCEPT !.pc = "prep"]
             f == [file EXCEPT !["last_up"] = h["last_up"]]
  <2>1. Step(p, q, f) /\ trace' = trace
    BY <1>3 DEF WriteHeader
  <2>2. /\ q \in UpdaterStates /\ q.pc = "prep" /\ q.n = proc[p].n /\ q.wrote = proc[p].wrote
        /\ q.head = h /\ q.steps = proc[p].steps /\ q.left = proc[p].left
        /\ q.arch = proc[p].arch
    BY <1>1 DEF UpdaterStates, Places, Holding
  <2>3. /\ f \in Files /\ f.last_up = h.last_up /\ f.prep = file.prep /\ f.cur = file.cur
        /\ f.rows = file.rows
    BY <1>1, <1>2 DEF Files, Heads
  <2> HIDE DEF q, f
  <2>4. StepOf(p) /\ proc'[p] = q /\ file' = f
    BY <2>1, <2>2, <2>3, StepIs
  <2> QED BY <1>2, <1>3, <2>1, <2>2, <2>3, <2>4
<1>4. CASE proc[p].pc = "prep"
  <2> DEFINE q == [proc[p] EXCEPT !.pc = "cur"]
             f == [file EXCEPT !["prep"] = h["prep"]]
  <2>1. Step(p, q, f) /\ trace' = trace
    BY <1>4 DEF WriteHeader
  <2>2. /\ q \in UpdaterStates /\ q.pc = "cur" /\ q.n = proc[p].n /\ q.wrote = proc[p].wrote
        /\ q.head = h /\ q.steps = proc[p].steps /\ q.left = proc[p].left
        /\ q.arch = proc[p].arch
    BY <1>1 DEF UpdaterStates, Places, Holding
  <2>3. /\ f \in Files /\ f.last_up = file.last_up /\ f.prep = h.prep /\ f.cur = file.cur
        /\ f.rows = file.rows
    BY <1>1, <1>2 DEF Files, Heads
  <2> HIDE DEF q, f
  <2>4. StepOf(p) /\ proc'[p] = q /\ file' = f
    BY <2>1, <2>2, <2>3, StepIs
  <2> QED BY <1>2, <1>4, <2>1, <2>2, <2>3, <2>4
<1>5. CASE proc[p].pc = "cur"
  <2> DEFINE q == [proc[p] EXCEPT !.pc = "close"]
             f == [file EXCEPT !["cur"] = h["cur"]]
  <2>1. Step(p, q, f)
    BY <1>5 DEF WriteHeader
  <2>2. /\ q \in UpdaterStates /\ q.pc = "close" /\ q.n = proc[p].n /\ q.wrote = proc[p].wrote
        /\ q.head = h /\ q.steps = proc[p].steps /\ q.left = proc[p].left
        /\ q.arch = proc[p].arch
    BY <1>1 DEF UpdaterStates, Places
  <2>3. /\ f \in Files /\ f.last_up = file.last_up /\ f.prep = file.prep /\ f.cur = h.cur
        /\ f.rows = file.rows
    BY <1>1, <1>2 DEF Files, Heads
  <2>4. trace' = [Settled(trace, f, proc[p].wrote) EXCEPT
                    !.newest = [a \in Archives |-> @[a] + proc[p].wrote[a]]]
    BY <1>5 DEF WriteHeader
  <2> HIDE DEF q, f
  <2>5. StepOf(p) /\ proc'[p] = q /\ file' = f
    BY <2>1, <2>2, <2>3, StepIs
  <2> QED BY <1>2, <1>5, <2>2, <2>3, <2>4, <2>5
<1> QED BY <1>2, <1>3, <1>4, <1>5


-----------------------------------------------------------------------------
(* The lock, the header and the place in an argument                       *)

(* The lock keeps processes apart.                                         *)
LEMMA ExclusiveKept ==
    ASSUME Exclusive, NEW p \in Procs, StepOf(p),
           \/ /\ lock' = lock /\ (lock = p => proc'[p].pc \in Holding \cup {"close"})
              /\ proc'[p].pc \in Holding => lock = p
           \/ lock = "none" /\ lock' = p /\ proc'[p].pc \in Holding
           \/ lock' = (IF lock = p THEN "none" ELSE lock) /\ proc'[p].pc = "idle"
    PROVE  Exclusive'
<1>1. "none" \notin Procs
  BY AccessAssumption
<1> SUFFICES ASSUME NEW r \in Procs
             PROVE  /\ proc'[r].pc \in Holding => lock' = r
                    /\ lock' = r => proc'[r].pc \in Holding \cup {"close"}
  BY DEF Exclusive
<1>2. /\ proc[r].pc \in Holding => lock = r
      /\ lock = r => proc[r].pc \in Holding \cup {"close"}
  BY DEF Exclusive
<1>3. "idle" \notin Holding
  BY DEF Holding, Working
<1>4. r # p => proc'[r].pc = proc[r].pc
  BY DEF StepOf
<1>5. CASE r = p
  BY <1>1, <1>3, <1>5
<1>6. CASE r # p
  BY <1>1, <1>2, <1>4, <1>6
<1> QED BY <1>5, <1>6

(* What is left to show of a step: the part about the process itself.      *)
LEMMA AccessKept ==
    ASSUME AccessInv, ~trace.tainted, NEW p \in Procs, StepOf(p),
           trace' \in Traces, lock' \in Procs \cup {"none"}, Exclusive',
           build = "mmap" => ~trace'.tainted, file' = file \/ lock = p,
           ~trace'.tainted => PrepAhead' /\ OpenedSound(p)' /\ WorkSound(p)' /\ HeadSound(p)'
    PROVE  AccessInv'
<1>1. TypeOK'
  BY DEF AccessInv, TypeOK, StepOf
<1>2. ASSUME ~trace'.tainted, NEW r \in Procs
      PROVE  OpenedSound(r)' /\ WorkSound(r)' /\ HeadSound(r)'
  <2>1. CASE r = p
    BY <1>2, <2>1
  <2>2. CASE r # p
    <3>1. file' = file \/ proc[r].pc \notin Holding
      BY <2>2 DEF AccessInv, Exclusive
    <3>2. TypeOK /\ OpenedSound(r) /\ WorkSound(r) /\ HeadSound(r)
      BY DEF AccessInv
    <3> QED BY <2>2, <3>1, <3>2, OthersSound
  <2> QED BY <2>1, <2>2
<1>3. build' = build
  BY DEF StepOf
<1> QED BY <1>1, <1>2, <1>3 DEF AccessInv

(* A process that begins anew, or is done, has nothing to keep.            *)
LEMMA BlankSound ==
    ASSUME NEW p \in Procs, Blank(proc'[p]), proc'[p].pc \in {"idle", "close"}
    PROVE  OpenedSound(p)' /\ WorkSound(p)' /\ HeadSound(p)'
BY DEF Blank, OpenedSound, WorkSound, HeadSound, Holding, Working

(* The steps that leave the file alone.                                    *)
LEMMA AccessIdleSteps ==
    ASSUME AccessInv, ~trace.tainted, NEW p \in Procs, Open(p) \/ Close(p)
    PROVE  AccessInv'
<1>0. TypeOK /\ Exclusive /\ PrepAhead /\ trace \in Traces /\ lock \in Procs \cup {"none"}
  BY DEF AccessInv, TypeOK
<1>1. CASE Open(p)
  <2>1. /\ StepOf(p) /\ file' = file /\ lock' = lock /\ trace' = trace
        /\ proc[p].pc = "idle" /\ proc'[p].pc = "opened" /\ Blank(proc'[p])
        /\ build # "mmap" => /\ proc'[p].head.last_up = file.last_up
                             /\ proc'[p].head.prep = file.prep
                             /\ proc'[p].head.cur = file.cur
    BY <1>0, <1>1, OpenIs
  <2>2. Exclusive'
    <3>1. lock # p
      BY <1>0, <2>1 DEF Exclusive, Holding, Working
    <3>2. proc'[p].pc \notin Holding
      BY <2>1 DEF Holding, Working
    <3> QED BY <1>0, <2>1, <3>1, <3>2, ExclusiveKept
  <2>3. OpenedSound(p)' /\ WorkSound(p)' /\ HeadSound(p)'
    BY <2>1 DEF OpenedSound, WorkSound, HeadSound, Holding, Working, Blank, StepOf, NoneWritten
  <2>4. PrepAhead'
    BY <1>0, <2>1 DEF PrepAhead, StepOf
  <2> QED BY <1>0, <2>1, <2>2, <2>3, <2>4, AccessKept
<1>2. CASE Close(p)
  <2>1. /\ StepOf(p) /\ file' = file /\ trace' = trace
        /\ lock' = (IF lock = p THEN "none" ELSE lock)
        /\ proc[p].pc = "close" /\ proc'[p].pc = "idle" /\ Blank(proc'[p])
    BY <1>0, <1>2, CloseIs
  <2>2. Exclusive'
    BY <1>0, <2>1, ExclusiveKept
  <2>3. OpenedSound(p)' /\ WorkSound(p)' /\ HeadSound(p)'
    BY <2>1, BlankSound
  <2>4. PrepAhead'
    BY <1>0, <2>1 DEF PrepAhead, StepOf
  <2>5. lock' \in Procs \cup {"none"}
    BY <1>0, <2>1
  <2> QED BY <1>0, <2>1, <2>2, <2>3, <2>4, <2>5, AccessKept
<1> QED BY <1>1, <1>2


(* The lock is taken, or the process gives up.                             *)
LEMMA AccessLock ==
    ASSUME AccessInv, ~trace.tainted, NEW p \in Procs, Lock(p)
    PROVE  AccessInv'
<1>0. /\ TypeOK /\ Exclusive /\ PrepAhead /\ trace \in Traces /\ lock \in Procs \cup {"none"}
      /\ OpenedSound(p) /\ WorkSound(p) /\ proc[p] \in UpdaterStates
  BY DEF AccessInv, TypeOK
<1>1. StepOf(p) /\ file' = file /\ proc[p].pc = "opened"
  BY <1>0, LockIs
<1>2. CASE /\ lock # "none" /\ lock' = lock /\ trace' = trace
           /\ proc'[p].pc = "close" /\ Blank(proc'[p])
  <2>1. Exclusive'
    <3>1. proc'[p].pc \notin Holding
      BY <1>2 DEF Holding, Working
    <3> QED BY <1>0, <1>1, <1>2, <3>1, ExclusiveKept
  <2>2. OpenedSound(p)' /\ WorkSound(p)' /\ HeadSound(p)'
    BY <1>2, BlankSound
  <2>3. PrepAhead'
    BY <1>0, <1>1, <1>2 DEF PrepAhead, StepOf
  <2> QED BY <1>0, <1>1, <1>2, <2>1, <2>2, <2>3, AccessKept
<1>3. CASE /\ lock = "none" /\ lock' = p
           /\ proc'[p] = [proc[p] EXCEPT !.pc = "ready", !.fresh = TRUE]
           /\ trace' = [trace EXCEPT !.tainted = @ \/ (build # "mmap" /\ ~proc[p].fresh)]
  <2>1. /\ proc'[p].pc = "ready" /\ proc'[p].n = 0 /\ proc'[p].wrote = NoneWritten
        /\ proc'[p].head = proc[p].head /\ proc'[p].steps = 0 /\ proc'[p].left = 0
        /\ proc'[p].arch = 1
    BY <1>0, <1>1, <1>3 DEF OpenedSound, WorkSound, UpdaterStates, Working
  <2>2. Exclusive'
    <3>1. proc'[p].pc \in Holding
      BY <2>1 DEF Holding
    <3> QED BY <1>0, <1>1, <1>3, <3>1, ExclusiveKept
  <2>3. /\ trace' \in Traces /\ trace'.lost = trace.lost
        /\ trace'.tainted = (trace.tainted \/ (build # "mmap" /\ ~proc[p].fresh))
    <3>1. (trace.tainted \/ (build # "mmap" /\ ~proc[p].fresh)) \in BOOLEAN
      OBVIOUS
    <3>2. trace \in Traces
      BY <1>0
    <3> QED BY <1>3, <3>1, <3>2 DEF Traces
  <2>4. PrepAhead'
    BY <1>0, <1>1, <2>3 DEF PrepAhead, StepOf
  <2>5. OpenedSound(p)' /\ WorkSound(p)'
    BY <2>1 DEF OpenedSound, WorkSound, Working
  <2>6. ASSUME ~trace'.tainted PROVE HeadSound(p)'
    <3>1. build # "mmap" => proc[p].fresh
      BY <2>3, <2>6
    <3>2. build # "mmap" => /\ proc[p].head.last_up = file.last_up
                            /\ proc[p].head.prep = file.prep /\ proc[p].head.cur = file.cur
      BY <1>0, <1>1, <3>1 DEF OpenedSound
    <3>3. build # "copy" => HeadOf(p)'.last_up = file'.last_up
      BY <1>1, <2>1, <3>2 DEF HeadOf, StepOf
    <3>4. ASSUME build = "copy", NEW a \in Archives
          PROVE  proc'[p].head.cur[a] =
                    (file'.cur[a] + proc'[p].wrote[a] + Pending(proc'[p], a)) % RowCnt
      <4>1. proc'[p].wrote[a] = 0
        BY <2>1, IdleTyped
      <4>2. Pending(proc'[p], a) = 0
        BY <2>1 DEF Pending
      <4>3. file'.cur[a] \in Rows
        BY <1>0, <1>1 DEF TypeOK, Files
      <4>4. proc'[p].head.cur[a] = file'.cur[a]
        BY <1>1, <2>1, <3>2, <3>4
      <4>5. file'.cur[a] % RowCnt = file'.cur[a]
        <5>1. RowCnt \in Nat \ {0}
          BY AccessAssumption
        <5> DEFINE x == file'.cur[a]
        <5>2. x \in 0 .. RowCnt - 1 /\ x \in Int
          BY <4>3, <5>1 DEF Rows
        <5> HIDE DEF x
        <5>3. x % RowCnt = x
          BY <5>1, <5>2, ModNear
        <5> QED BY <5>3 DEF x
      <4>6. file'.cur[a] + proc'[p].wrote[a] + Pending(proc'[p], a) = file'.cur[a]
        BY <4>1, <4>2, <4>3, AccessAssumption DEF Rows
      <4> QED BY <4>4, <4>5, <4>6
    <3>5. build' = build
      BY <1>1 DEF StepOf
    <3>6. build = "copy" => proc'[p].head.last_up >= file'.last_up
      <4>1. file.last_up \in Nat
        BY <1>0 DEF TypeOK, Files
      <4> QED BY <1>1, <2>1, <3>2, <4>1
    <3> QED BY <2>1, <3>3, <3>4, <3>5, <3>6 DEF HeadSound, Holding, Working, NoneWritten
  <2>7. lock' \in Procs \cup {"none"} /\ (build = "mmap" => ~trace'.tainted)
    BY <1>3, <2>3
  <2> QED BY <1>0, <1>1, <2>2, <2>3, <2>4, <2>5, <2>6, <2>7, AccessKept
<1> QED
  <2>1. \/ /\ lock # "none" /\ lock' = lock /\ trace' = trace
           /\ proc'[p].pc = "close" /\ Blank(proc'[p])
        \/ /\ lock = "none" /\ lock' = p
           /\ proc'[p] = [proc[p] EXCEPT !.pc = "ready", !.fresh = TRUE]
           /\ trace' = [trace EXCEPT !.tainted = @ \/ (build # "mmap" /\ ~proc[p].fresh)]
    BY <1>0, LockIs
  <2> QED BY <1>2, <1>3, <2>1

(* What an update leaves behind that did not come to its end.              *)
LEMMA LostIs ==
    ASSUME TypeOK, NEW p \in Procs, BadArg(p) \/ Kill(p)
    PROVE  /\ trace' \in Traces /\ trace'.tainted = trace.tainted
           /\ trace'.since = trace.since /\ trace'.newest = trace.newest
           /\ BadArg(p) => trace'.broken = trace.broken
           /\ Kill(p) => trace'.broken = (trace.broken \/ proc[p].pc \in
                            (IF build = "copy" THEN {"prep", "cur"} ELSE Working))
           /\ \A a \in Archives :
                LET w == IF build = "copy" /\ proc[p].pc # "close" THEN proc[p].wrote[a] ELSE 0
                IN  trace'.lost[a] = IF w > trace.lost[a] THEN w ELSE trace.lost[a]
<1>0. trace \in Traces /\ proc[p] \in UpdaterStates
  BY DEF TypeOK
<1>1. CASE BadArg(p)
  <2> DEFINE lost == [a \in Archives |-> IF build = "copy" /\ proc[p].wrote[a] > trace.lost[a]
                                         THEN proc[p].wrote[a] ELSE trace.lost[a]]
  <2>1. trace' = [trace EXCEPT !.lost = lost] /\ proc[p].pc = "ready"
    BY <1>0, <1>1, BadArgIs DEF Traces
  <2>2. lost \in [Archives -> Nat]
    BY <1>0 DEF Traces, UpdaterStates
  <2>3. \A a \in Archives :
                LET w == IF build = "copy" /\ proc[p].pc # "close" THEN proc[p].wrote[a] ELSE 0
                IN  lost[a] = IF w > trace.lost[a] THEN w ELSE trace.lost[a]
    <3> SUFFICES ASSUME NEW a \in Archives
                 PROVE  LET w == IF build = "copy" /\ proc[p].pc # "close"
                                 THEN proc[p].wrote[a] ELSE 0
                        IN  lost[a] = IF w > trace.lost[a] THEN w ELSE trace.lost[a]
      OBVIOUS
    <3>1. trace.lost[a] \in Nat /\ proc[p].pc # "close"
      BY <1>0, <2>1 DEF Traces
    <3>2. lost[a] = IF build = "copy" /\ proc[p].wrote[a] > trace.lost[a]
                    THEN proc[p].wrote[a] ELSE trace.lost[a]
      OBVIOUS
    <3> HIDE DEF lost
    <3>3. CASE build = "copy"
      BY <3>1, <3>2, <3>3
    <3>4. CASE build # "copy"
      BY <3>1, <3>2, <3>4
    <3> QED BY <3>3, <3>4
  <2> HIDE DEF lost
  <2>4. /\ trace' \in Traces /\ trace'.tainted = trace.tainted /\ trace'.since = trace.since
        /\ trace'.newest = trace.newest /\ trace'.broken = trace.broken /\ trace'.lost = lost
    BY <1>0, <2>1, <2>2 DEF Traces
  <2>5. ~Kill(p) \/ trace'.broken = (trace.broken \/ proc[p].pc \in
                            (IF build = "copy" THEN {"prep", "cur"} ELSE Working))
    BY <1>0, <2>1, <2>4 DEF Working, Traces
  <2> QED BY <2>3, <2>4, <2>5
<1>2. CASE Kill(p)
  <2> DEFINE lost == [a \in Archives |-> IF Unheaded(p, a) > trace.lost[a]
                                         THEN Unheaded(p, a) ELSE trace.lost[a]]
             broken == trace.broken \/ proc[p].pc \in
                          (IF build = "copy" THEN {"prep", "cur"} ELSE Working)
  <2>1. trace' = [trace EXCEPT !.broken = broken, !.lost = lost]
    BY <1>0, <1>2, KillIs DEF Traces
  <2>2. lost \in [Archives -> Nat]
    BY <1>0 DEF Traces, UpdaterStates, Unheaded
  <2>3. \A a \in Archives :
                LET w == IF build = "copy" /\ proc[p].pc # "close" THEN proc[p].wrote[a] ELSE 0
                IN  lost[a] = IF w > trace.lost[a] THEN w ELSE trace.lost[a]
    BY DEF Unheaded
  <2>4. broken \in BOOLEAN
    OBVIOUS
  <2> HIDE DEF lost, broken
  <2>5. /\ trace' \in Traces /\ trace'.tainted = trace.tainted /\ trace'.since = trace.since
        /\ trace'.newest = trace.newest /\ trace'.broken = broken /\ trace'.lost = lost
    BY <1>0, <2>1, <2>2, <2>4 DEF Traces
  <2>6. BadArg(p) => broken = trace.broken
    <3>1. BadArg(p) => proc[p].pc = "ready"
      BY DEF BadArg
    <3> QED BY <1>0, <3>1 DEF broken, Working, Traces
  <2> QED BY <2>3, <2>5, <2>6 DEF broken
<1> QED BY <1>1, <1>2


(* An update that does not come to its end.                                *)
LEMMA AccessAbort ==
    ASSUME AccessInv, ~trace.tainted, NEW p \in Procs, BadArg(p) \/ Kill(p)
    PROVE  AccessInv'
<1>0. TypeOK /\ Exclusive /\ PrepAhead /\ trace \in Traces /\ lock \in Procs \cup {"none"}
  BY DEF AccessInv, TypeOK
<1>1. /\ trace' \in Traces /\ trace'.tainted = trace.tainted
      /\ build # "copy" => \A a \in Archives : trace'.lost[a] = trace.lost[a]
  <2>1. /\ trace' \in Traces /\ trace'.tainted = trace.tainted
        /\ \A a \in Archives :
             LET w == IF build = "copy" /\ proc[p].pc # "close" THEN proc[p].wrote[a] ELSE 0
             IN  trace'.lost[a] = IF w > trace.lost[a] THEN w ELSE trace.lost[a]
    BY <1>0, LostIs
  <2>2. \A a \in Archives : trace.lost[a] \in Nat
    BY <1>0 DEF Traces
  <2> QED BY <2>1, <2>2
<1>2. CASE BadArg(p)
  <2>1. /\ StepOf(p) /\ lock' = lock /\ file'.last_up = file.last_up
        /\ file' = file \/ (build # "copy" /\ file'.prep.time > HeadOf(p).last_up)
        /\ proc[p].pc = "ready" /\ proc'[p].pc = "close" /\ Blank(proc'[p])
    BY <1>0, <1>2, BadArgIs
  <2>5. lock = p /\ (build # "copy" => HeadOf(p).last_up = file.last_up)
    BY <1>0, <2>1 DEF AccessInv, Exclusive, HeadSound, Holding
  <2>6. file'.prep.time \in Nat /\ file.last_up \in Nat
    BY <1>0, <2>1 DEF StepOf, Files, Preps, TypeOK
  <2>2. Exclusive'
    <3>1. proc'[p].pc \notin Holding
      BY <2>1 DEF Holding, Working
    <3> QED BY <1>0, <2>1, <3>1, ExclusiveKept
  <2>3. OpenedSound(p)' /\ WorkSound(p)' /\ HeadSound(p)'
    BY <2>1, BlankSound
  <2>4. PrepAhead'
    BY <1>0, <1>1, <2>1, <2>5, <2>6 DEF PrepAhead, StepOf
  <2> QED BY <1>0, <1>1, <2>1, <2>2, <2>3, <2>4, <2>5, AccessKept
<1>3. CASE Kill(p)
  <2>1. /\ StepOf(p) /\ file' = file /\ lock' = (IF lock = p THEN "none" ELSE lock)
        /\ proc'[p].pc = "idle" /\ Blank(proc'[p])
    BY <1>0, <1>3, KillIs
  <2>2. Exclusive'
    BY <1>0, <2>1, ExclusiveKept
  <2>3. OpenedSound(p)' /\ WorkSound(p)' /\ HeadSound(p)'
    BY <2>1, BlankSound
  <2>4. PrepAhead'
    BY <1>0, <1>1, <2>1 DEF PrepAhead, StepOf
  <2>5. lock' \in Procs \cup {"none"}
    BY <1>0, <2>1
  <2> QED BY <1>0, <1>1, <2>1, <2>2, <2>3, <2>4, <2>5, AccessKept
<1> QED BY <1>2, <1>3

(* A process at work holds the lock, and goes on holding it.               *)
LEMMA HolderGoesOn ==
    ASSUME Exclusive, NEW p \in Procs, StepOf(p), lock' = lock, proc[p].pc \in Holding,
           proc'[p].pc \in Holding \cup {"close"}
    PROVE  lock = p /\ Exclusive'
<1>1. lock = p
  BY DEF Exclusive
<1> QED BY <1>1, ExclusiveKept

(* The arguments are done.                                                 *)
LEMMA AccessEnd ==
    ASSUME AccessInv, ~trace.tainted, NEW p \in Procs, End(p)
    PROVE  AccessInv'
<1>0. /\ TypeOK /\ Exclusive /\ PrepAhead /\ trace \in Traces /\ lock \in Procs \cup {"none"}
      /\ WorkSound(p) /\ HeadSound(p) /\ proc[p] \in UpdaterStates
  BY DEF AccessInv, TypeOK
<1>1. /\ StepOf(p) /\ file' = file /\ lock' = lock /\ trace' = trace
      /\ proc[p].pc = "ready" /\ proc[p].n > 0
      /\ build = "copy" => proc'[p] = [proc[p] EXCEPT !.pc = "last_up"]
      /\ build # "copy" => proc'[p].pc = "close" /\ Blank(proc'[p])
  BY <1>0, EndIs
<1>2. PrepAhead'
  BY <1>0, <1>1 DEF PrepAhead, StepOf
<1>3. CASE build # "copy"
  <2>1. OpenedSound(p)' /\ WorkSound(p)' /\ HeadSound(p)'
    BY <1>1, <1>3, BlankSound
  <2>2. lock = p /\ Exclusive'
    <3>1. proc[p].pc \in Holding
      BY <1>1 DEF Holding
    <3> QED BY <1>0, <1>1, <1>3, <3>1, HolderGoesOn
  <2> QED BY <1>0, <1>1, <1>2, <2>1, <2>2, AccessKept
<1>4. CASE build = "copy"
  <2>1. /\ proc'[p].pc = "last_up" /\ proc'[p].n = proc[p].n /\ proc'[p].wrote = proc[p].wrote
        /\ proc'[p].head = proc[p].head /\ proc'[p].steps = proc[p].steps
        /\ proc'[p].left = proc[p].left /\ proc'[p].arch = proc[p].arch /\ build' = build
    BY <1>0, <1>1, <1>4 DEF UpdaterStates, StepOf
  <2>2. lock = p /\ Exclusive'
    <3>1. proc[p].pc \in Holding /\ proc'[p].pc \in Holding
      BY <1>1, <2>1 DEF Holding
    <3> QED BY <1>0, <1>1, <3>1, HolderGoesOn
  <2>3. HeadOf(p)' = HeadOf(p)
    BY <1>1, <2>1 DEF HeadOf
  <2>4. OpenedSound(p)' /\ WorkSound(p)'
    BY <1>0, <1>1, <2>1, <2>3 DEF OpenedSound, WorkSound, Holding, Working
  <2>5. \A a \in Archives : Pending(proc[p], a)' = Pending(proc[p], a)
    BY <1>1, <2>1 DEF Pending
  <2>6. HeadSound(p)'
    BY <1>0, <1>1, <1>4, <2>1, <2>5 DEF HeadSound, Holding, Working
  <2> QED BY <1>0, <1>1, <1>2, <2>2, <2>4, <2>6, AccessKept
<1> QED BY <1>3, <1>4


(* An argument is begun.                                                   *)
LEMMA AccessArg ==
    ASSUME AccessInv, ~trace.tainted, NEW p \in Procs, NEW t \in 1 .. MaxTime, Arg(p, t)
    PROVE  AccessInv'
<1> DEFINE h == HeadOf(p)
           e == Slot(t) - Slot(h.last_up)
           g == HeadOf(p)'
           q == proc'[p]
<1>0. /\ TypeOK /\ Exclusive /\ PrepAhead /\ trace \in Traces /\ lock \in Procs \cup {"none"}
      /\ WorkSound(p) /\ HeadSound(p) /\ proc[p] \in UpdaterStates /\ h.last_up \in Nat
      /\ file.last_up \in Nat /\ proc[p].n \in Nat /\ t \in Nat
  BY HeadTyped, AccessAssumption DEF AccessInv, TypeOK, Files, UpdaterStates
<1>1. /\ StepOf(p) /\ lock' = lock /\ ArgTrace(p, t) /\ proc[p].pc = "ready"
      /\ t > h.last_up /\ e \in Nat
      /\ q.pc = (IF e = 0 THEN "stamp" ELSE "row") /\ q.n = proc[p].n + 1 /\ q.t = t
      /\ q.arch = 1 /\ q.left = e /\ q.steps = e /\ q.wrote = proc[p].wrote
      /\ q.head.last_up = proc[p].head.last_up
      /\ g.last_up = h.last_up /\ g.cur = h.cur
      /\ g.prep = [time |-> t, sound |-> Fits(p) /\ (e = 0 => h.prep.sound)]
      /\ file'.last_up = file.last_up /\ file'.cur = file.cur /\ file'.rows = file.rows
      /\ build = "copy" => file' = file /\ q.head.cur = proc[p].head.cur
      /\ build # "copy" => file'.prep = g.prep
  BY <1>0, ArgIs
<1>2. build' = build
  BY <1>1 DEF StepOf
<1>3. g.prep.time = t
  BY <1>1
<1>4. Slot(h.last_up) \in Nat /\ Slot(t) \in Nat
  BY <1>0, SlotNat
<1> HIDE DEF h, g
<1>5. Slot(t) = Slot(h.last_up) + e
  BY <1>4
<1>6. 1 \in Archives
  BY AccessAssumption
<1> HIDE DEF e, q
<1>7. lock = p /\ Exclusive'
  <2>1. proc[p].pc \in Holding /\ proc'[p].pc \in Holding
    BY <1>1 DEF Holding, Working, q
  <2> QED BY <1>0, <1>1, <2>1, HolderGoesOn
<1>8. WorkSound(p)'
  <2>1. q.pc = "stamp" => \A a \in Archives : Written(q, a) = q.steps
    BY <1>1 DEF Written
  <2>2. /\ q.pc \in Working => /\ q.t > g.last_up /\ Slot(q.t) = Slot(g.last_up) + q.steps
                               /\ g.prep.time = q.t /\ q.n > 0
    BY <1>0, <1>1, <1>3, <1>5
  <2>3. q.pc \in {"row", "write"} => q.arch \in Archives /\ q.left \in 1 .. q.steps
    BY <1>1, <1>6
  <2>4. q.pc \in Working
    BY <1>1 DEF Working
  <2> QED BY <2>1, <2>2, <2>3, <2>4 DEF WorkSound, g, q
<1>9. HeadSound(p)'
  <2>1. \A a \in Archives : Pending(q, a) = Pending(proc[p], a)
    BY <1>1 DEF Pending
  <2>2. build # "copy" => g.last_up = file'.last_up /\ q.wrote = NoneWritten
    BY <1>0, <1>1 DEF HeadSound, Holding, h
  <2>3. build = "copy" => q.head.last_up >= file'.last_up
    BY <1>0, <1>1 DEF HeadSound, Holding
  <2>4. ASSUME build = "copy", NEW a \in Archives
        PROVE  q.head.cur[a] = (file'.cur[a] + q.wrote[a] + Pending(q, a)) % RowCnt
    BY <1>0, <1>1, <2>1, <2>4 DEF HeadSound, Holding
  <2>5. q.pc \notin {"ready", "last_up", "prep", "cur"}
    BY <1>1
  <2> QED BY <1>2, <2>2, <2>3, <2>4, <2>5 DEF HeadSound, g, q, NoneWritten
<1>10. OpenedSound(p)'
  BY <1>1 DEF OpenedSound, q
<1>11. PrepAhead'
  <2>1. build # "copy" => file'.prep.time >= file'.last_up
    BY <1>0, <1>1, <1>3 DEF HeadSound, Holding, h
  <2> QED BY <1>0, <1>1, <1>2, <2>1 DEF PrepAhead, ArgTrace
<1>12. trace' \in Traces /\ trace'.tainted = trace.tainted
  BY <1>1 DEF ArgTrace
<1> QED BY <1>0, <1>1, <1>12, <1>7, <1>8, <1>9, <1>10, <1>11, AccessKept

(* The row pointer moves.                                                  *)
LEMMA AccessAdvance ==
    ASSUME AccessInv, ~trace.tainted, NEW p \in Procs, Advance(p)
    PROVE  AccessInv'
<1> DEFINE h == HeadOf(p)
           g == HeadOf(p)'
           q == proc'[p]
           b == proc[p].arch
<1>0. /\ TypeOK /\ Exclusive /\ PrepAhead /\ trace \in Traces /\ lock \in Procs \cup {"none"}
      /\ WorkSound(p) /\ HeadSound(p) /\ proc[p] \in UpdaterStates
      /\ proc[p].pc = "row" /\ b \in Archives /\ h.cur \in [Archives -> Rows]
  BY HeadTyped DEF AccessInv, TypeOK, WorkSound, Advance
<1>1. /\ StepOf(p) /\ lock' = lock /\ q.pc = "write"
      /\ q.n = proc[p].n /\ q.t = proc[p].t /\ q.arch = b /\ q.left = proc[p].left
      /\ q.steps = proc[p].steps /\ q.wrote = proc[p].wrote
      /\ q.head.last_up = proc[p].head.last_up
      /\ g.last_up = h.last_up /\ g.prep = h.prep
      /\ g.cur = [h.cur EXCEPT ![b] = (@ + 1) % RowCnt]
      /\ file'.last_up = file.last_up /\ file'.prep = file.prep /\ file'.rows = file.rows
      /\ build = "copy" => file' = file /\ q.head.cur = g.cur
      /\ trace' = [trace EXCEPT !.newest[b] = IF build = "copy" THEN @ ELSE @ + 1]
  BY <1>0, AdvanceIs
<1>2. build' = build
  BY <1>1 DEF StepOf
<1>3. trace' \in Traces /\ trace'.tainted = trace.tainted /\ trace'.lost = trace.lost
  <2> DEFINE v == IF build = "copy" THEN trace.newest[b] ELSE trace.newest[b] + 1
  <2>1. v \in Nat
    BY <1>0 DEF Traces
  <2>2. trace' = [trace EXCEPT !.newest[b] = v]
    BY <1>0, <1>1 DEF Traces
  <2> HIDE DEF v
  <2> QED BY <1>0, <2>1, <2>2 DEF Traces
<1> HIDE DEF g, q
<1>4. lock = p /\ Exclusive'
  <2>1. proc[p].pc \in Holding /\ proc'[p].pc \in Holding
    BY <1>0, <1>1 DEF Holding, Working, q
  <2> QED BY <1>0, <1>1, <2>1, HolderGoesOn
<1>5. WorkSound(p)'
  BY <1>0, <1>1 DEF WorkSound, g, q, Working
<1>6. HeadSound(p)'
  <2>1. build # "copy" => g.last_up = file'.last_up /\ q.wrote = NoneWritten
    BY <1>0, <1>1 DEF HeadSound, Holding, Working
  <2>2. build = "copy" => q.head.last_up >= file'.last_up
    BY <1>0, <1>1 DEF HeadSound, Holding, Working
  <2>3. ASSUME build = "copy", NEW a \in Archives
        PROVE  q.head.cur[a] = (file'.cur[a] + q.wrote[a] + Pending(q, a)) % RowCnt
    <3> DEFINE x == file.cur[a] + proc[p].wrote[a]
    <3>0. RowCnt \in Nat \ {0}
      BY AccessAssumption
    <3>1. x \in Nat
      <4>1. file.cur[a] \in Rows /\ proc[p].wrote[a] \in Nat
        BY <1>0 DEF TypeOK, Files, UpdaterStates
      <4> QED BY <3>0, <4>1 DEF Rows
    <3>2. h.cur[a] = x % RowCnt
      <4>1. Pending(proc[p], a) = 0 /\ x + 0 = x
        BY <1>0, <3>1 DEF Pending
      <4>2. h.cur[a] = (x + Pending(proc[p], a)) % RowCnt
        BY <1>0, <2>3 DEF HeadSound, Holding, Working, HeadOf
      <4> QED BY <4>1, <4>2
    <3>3. q.head.cur[a] = IF a = b THEN (h.cur[a] + 1) % RowCnt ELSE h.cur[a]
      <4> HIDE DEF h
      <4> QED BY <1>0, <1>1, <2>3
    <3>4. file'.cur[a] + q.wrote[a] = x
      BY <1>1, <2>3
    <3> HIDE DEF x
    <3>5. ((x % RowCnt) + 1) % RowCnt = (x + 1) % RowCnt
      BY <3>0, <3>1, ModSucc
    <3>6. x + 0 = x /\ Pending(q, a) = IF a = b THEN 1 ELSE 0
      BY <1>1, <3>1 DEF Pending
    <3>7. q.head.cur[a] = (x + Pending(q, a)) % RowCnt
      BY <3>2, <3>3, <3>5, <3>6
    <3> QED BY <3>4, <3>7
  <2>4. q.pc \notin {"ready", "last_up", "prep", "cur"}
    BY <1>1
  <2> QED BY <1>2, <2>1, <2>2, <2>3, <2>4 DEF HeadSound, g, q, NoneWritten
<1>7. OpenedSound(p)'
  BY <1>1 DEF OpenedSound, q
<1>8. PrepAhead'
  BY <1>0, <1>1, <1>2, <1>3 DEF PrepAhead
<1> QED BY <1>0, <1>1, <1>3, <1>4, <1>5, <1>6, <1>7, <1>8, AccessKept


(* A row is written.                                                       *)
LEMMA AccessWriteRow ==
    ASSUME AccessInv, ~trace.tainted, NEW p \in Procs, WriteRow(p)
    PROVE  AccessInv'
<1> DEFINE h == HeadOf(p)
           g == HeadOf(p)'
           q == proc'[p]
           b == proc[p].arch
           last == proc[p].left = 1
           n == Cardinality(Archives)
<1>0. /\ TypeOK /\ Exclusive /\ PrepAhead /\ trace \in Traces /\ lock \in Procs \cup {"none"}
      /\ WorkSound(p) /\ HeadSound(p) /\ proc[p] \in UpdaterStates
      /\ proc[p].pc = "write" /\ b \in Archives /\ proc[p].left \in 1 .. proc[p].steps
  BY DEF AccessInv, TypeOK, WorkSound, WriteRow
<1>1. /\ StepOf(p) /\ lock' = lock /\ trace' = trace
      /\ q.pc = (IF last /\ b = n THEN "stamp" ELSE "row")
      /\ q.n = proc[p].n /\ q.t = proc[p].t /\ q.steps = proc[p].steps
      /\ q.arch = (IF last THEN b + 1 ELSE b)
      /\ q.left = (IF last THEN proc[p].steps ELSE proc[p].left - 1)
      /\ q.wrote = [proc[p].wrote EXCEPT ![b] = IF build = "copy" THEN @ + 1 ELSE @]
      /\ q.head = proc[p].head /\ g = h
      /\ file'.last_up = file.last_up /\ file'.prep = file.prep /\ file'.cur = file.cur
  BY <1>0, WriteRowIs
<1>2. build' = build
  BY <1>1 DEF StepOf
<1>3. n \in Nat \ {0} /\ Archives = 1 .. n /\ proc[p].steps \in Nat
  BY <1>0, AccessAssumption DEF UpdaterStates
<1> HIDE DEF g, q, n, h
<1>4. lock = p /\ Exclusive'
  <2>1. proc[p].pc \in Holding /\ proc'[p].pc \in Holding
    BY <1>0, <1>1 DEF Holding, Working, q
  <2> QED BY <1>0, <1>1, <2>1, HolderGoesOn
<1>5. WorkSound(p)'
  <2>1. /\ q.t > g.last_up /\ Slot(q.t) = Slot(g.last_up) + q.steps
        /\ g.prep.time = q.t /\ q.n > 0
    BY <1>0, <1>1 DEF WorkSound, Working, h
  <2>2. q.pc \in {"row", "write"} => q.arch \in Archives /\ q.left \in 1 .. q.steps
    BY <1>0, <1>1, <1>3
  <2>3. q.pc = "stamp" => \A a \in Archives : Written(q, a) = q.steps
    BY <1>0, <1>1, <1>3 DEF Written
  <2>4. q.pc \in Working
    BY <1>1 DEF Working
  <2> QED BY <2>1, <2>2, <2>3, <2>4 DEF WorkSound, g, q
<1>6. HeadSound(p)'
  <2>1. build # "copy" => g.last_up = file'.last_up /\ q.wrote = NoneWritten
    <3>1. build # "copy" => h.last_up = file.last_up /\ proc[p].wrote = NoneWritten
      BY <1>0 DEF HeadSound, Holding, Working, h
    <3>2. build # "copy" => q.wrote = proc[p].wrote
      BY <1>0, <1>1 DEF UpdaterStates
    <3> QED BY <1>1, <3>1, <3>2
  <2>2. build = "copy" => q.head.last_up >= file'.last_up
    BY <1>0, <1>1 DEF HeadSound, Holding, Working
  <2>3. ASSUME build = "copy", NEW a \in Archives
        PROVE  q.head.cur[a] = (file'.cur[a] + q.wrote[a] + Pending(q, a)) % RowCnt
    <3>0. RowCnt \in Nat \ {0}
      BY AccessAssumption
    <3>1. file.cur[a] \in Rows /\ proc[p].wrote[a] \in Nat
      BY <1>0 DEF TypeOK, Files, UpdaterStates
    <3>2. Pending(q, a) = 0 /\ Pending(proc[p], a) = IF a = b THEN 1 ELSE 0
      BY <1>0, <1>1 DEF Pending
    <3>3. q.wrote[a] = IF a = b THEN proc[p].wrote[a] + 1 ELSE proc[p].wrote[a]
      BY <1>0, <1>1, <2>3 DEF UpdaterStates
    <3>4. file.cur[a] + q.wrote[a] + Pending(q, a)
            = file.cur[a] + proc[p].wrote[a] + Pending(proc[p], a)
      BY <3>0, <3>1, <3>2, <3>3 DEF Rows
    <3>5. proc[p].head.cur[a] = (file.cur[a] + proc[p].wrote[a] + Pending(proc[p], a)) % RowCnt
      BY <1>0, <2>3 DEF HeadSound, Holding, Working
    <3> QED BY <1>1, <3>4, <3>5
  <2>4. q.pc \notin {"ready", "last_up", "prep", "cur"}
    BY <1>1
  <2> QED BY <1>2, <2>1, <2>2, <2>3, <2>4 DEF HeadSound, g, q, NoneWritten
<1>7. OpenedSound(p)'
  BY <1>1 DEF OpenedSound, q
<1>8. PrepAhead'
  BY <1>0, <1>1, <1>2 DEF PrepAhead
<1> QED BY <1>0, <1>1, <1>4, <1>5, <1>6, <1>7, <1>8, AccessKept

(* last_up is set.                                                         *)
LEMMA AccessStamp ==
    ASSUME AccessInv, ~trace.tainted, NEW p \in Procs, Stamp(p)
    PROVE  AccessInv'
<1> DEFINE h == HeadOf(p)
           g == HeadOf(p)'
           q == proc'[p]
<1>0. /\ TypeOK /\ Exclusive /\ PrepAhead /\ trace \in Traces /\ lock \in Procs \cup {"none"}
      /\ WorkSound(p) /\ HeadSound(p) /\ proc[p] \in UpdaterStates /\ proc[p].pc = "stamp"
      /\ h.last_up \in Nat /\ proc[p].t \in Nat /\ file.last_up \in Nat
  BY HeadTyped DEF AccessInv, TypeOK, Stamp, Stampable, UpdaterStates, Files
<1>1. /\ StepOf(p) /\ lock' = lock /\ q.pc = "ready"
      /\ q.n = proc[p].n /\ q.wrote = proc[p].wrote
      /\ q.steps = 0 /\ q.left = 0 /\ q.arch = 1
      /\ g.last_up = proc[p].t /\ g.prep = h.prep /\ g.cur = h.cur
      /\ file'.prep = file.prep /\ file'.cur = file.cur /\ file'.rows = file.rows
      /\ build = "copy" => /\ file' = file /\ trace' = trace
                           /\ q.head.last_up = proc[p].t /\ q.head.cur = proc[p].head.cur
      /\ build # "copy" => /\ file'.last_up = proc[p].t
                           /\ trace' = Settled(trace, file', NoneWritten)
  BY <1>0, StampIs
<1>2. build' = build /\ file' \in Files
  BY <1>1 DEF StepOf
<1>3. /\ trace' \in Traces /\ trace'.tainted = trace.tainted
      /\ \A a \in Archives : trace.lost[a] = 0 => trace'.lost[a] = 0
  <2>1. CASE build = "copy"
    BY <1>0, <1>1, <2>1
  <2>2. CASE build # "copy"
    <3>1. NoneWritten \in [Archives -> Nat] /\ \A a \in Archives : NoneWritten[a] = 0
      BY IdleTyped
    <3>2. /\ trace' \in Traces /\ trace'.tainted = trace.tainted
          /\ \A a \in Archives : trace'.lost[a] =
                 IF trace.lost[a] > NoneWritten[a] THEN trace.lost[a] - NoneWritten[a] ELSE 0
      BY <1>0, <1>1, <1>2, <2>2, <3>1, SettledIs
    <3> QED BY <3>1, <3>2
  <2> QED BY <2>1, <2>2
<1>4. /\ proc[p].t > h.last_up /\ h.prep.time = proc[p].t /\ proc[p].n > 0
  BY <1>0 DEF WorkSound, Working
<1> HIDE DEF g, q, h
<1>5. lock = p /\ Exclusive'
  <2>1. proc[p].pc \in Holding /\ proc'[p].pc \in Holding
    BY <1>0, <1>1 DEF Holding, Working, q
  <2> QED BY <1>0, <1>1, <2>1, HolderGoesOn
<1>6. WorkSound(p)'
  <2>1. q.pc \notin Working /\ g.prep.time = g.last_up
    BY <1>1, <1>4 DEF Working
  <2> QED BY <1>1, <2>1 DEF WorkSound, g, q, Working
<1>7. HeadSound(p)'
  <2>1. build # "copy" => g.last_up = file'.last_up /\ q.wrote = NoneWritten
    BY <1>0, <1>1 DEF HeadSound, Holding, Working
  <2>2. build = "copy" => q.head.last_up > file'.last_up
    <3>1. build = "copy" => proc[p].head.last_up >= file.last_up /\ h.last_up = proc[p].head.last_up
      BY <1>0 DEF HeadSound, Holding, Working, h, HeadOf
    <3> QED BY <1>0, <1>1, <1>4, <3>1
  <2>3. ASSUME build = "copy", NEW a \in Archives
        PROVE  q.head.cur[a] = (file'.cur[a] + q.wrote[a] + Pending(q, a)) % RowCnt
    <3>1. Pending(q, a) = Pending(proc[p], a)
      BY <1>0, <1>1 DEF Pending
    <3> QED BY <1>0, <1>1, <2>3, <3>1 DEF HeadSound, Holding, Working
  <2>4. q.pc \notin {"last_up", "prep", "cur"}
    BY <1>1
  <2>5. build = "copy" => q.head.last_up >= file'.last_up
    BY <1>0, <1>1, <2>2
  <2> QED BY <1>2, <2>1, <2>2, <2>3, <2>4, <2>5 DEF HeadSound, g, q, NoneWritten
<1>8. OpenedSound(p)'
  BY <1>1 DEF OpenedSound, q
<1>9. PrepAhead'
  <2>1. build # "copy" => file'.prep.time = file'.last_up
    BY <1>0, <1>1, <1>4 DEF HeadSound, Holding, Working, h, HeadOf
  <2> QED BY <1>0, <1>1, <1>2, <1>3, <2>1 DEF PrepAhead
<1> QED BY <1>0, <1>1, <1>3, <1>5, <1>6, <1>7, <1>8, <1>9, AccessKept

(* One field of the header is written.                                     *)
LEMMA AccessWriteHeader ==
    ASSUME AccessInv, ~trace.tainted, NEW p \in Procs, WriteHeader(p)
    PROVE  AccessInv'
<1> DEFINE h == proc[p].head
           q == proc'[p]
<1>0. /\ TypeOK /\ Exclusive /\ PrepAhead /\ trace \in Traces /\ lock \in Procs \cup {"none"}
      /\ WorkSound(p) /\ HeadSound(p) /\ proc[p] \in UpdaterStates
      /\ proc[p].pc \in {"last_up", "prep", "cur"} /\ h.last_up \in Nat
  BY DEF AccessInv, TypeOK, WriteHeader, UpdaterStates, Heads
<1>1. /\ StepOf(p) /\ lock' = lock /\ file'.rows = file.rows
      /\ q.n = proc[p].n /\ q.wrote = proc[p].wrote /\ q.head = h
      /\ q.steps = proc[p].steps /\ q.left = proc[p].left /\ q.arch = proc[p].arch
      /\ \/ /\ proc[p].pc = "last_up" /\ q.pc = "prep" /\ trace' = trace
            /\ file'.last_up = h.last_up /\ file'.prep = file.prep /\ file'.cur = file.cur
         \/ /\ proc[p].pc = "prep" /\ q.pc = "cur" /\ trace' = trace
            /\ file'.last_up = file.last_up /\ file'.prep = h.prep /\ file'.cur = file.cur
         \/ /\ proc[p].pc = "cur" /\ q.pc = "close"
            /\ file'.last_up = file.last_up /\ file'.prep = file.prep /\ file'.cur = h.cur
            /\ trace' = [Settled(trace, file', proc[p].wrote) EXCEPT
                           !.newest = [a \in Archives |-> @[a] + proc[p].wrote[a]]]
  BY <1>0, WriteHeaderIs
<1>2. build' = build /\ file' \in Files
  BY <1>1 DEF StepOf
<1>3. build = "copy" /\ proc[p].n > 0
  BY <1>0 DEF HeadSound, Holding, Working
<1> HIDE DEF q
<1>4. trace' \in Traces /\ trace'.tainted = trace.tainted
  <2>1. CASE trace' = trace
    BY <1>0, <2>1
  <2>2. CASE trace' = [Settled(trace, file', proc[p].wrote) EXCEPT
                         !.newest = [a \in Archives |-> @[a] + proc[p].wrote[a]]]
    <3> DEFINE tr == Settled(trace, file', proc[p].wrote)
               new == [a \in Archives |-> tr.newest[a] + proc[p].wrote[a]]
    <3>1. proc[p].wrote \in [Archives -> Nat]
      BY <1>0 DEF UpdaterStates
    <3>2. tr \in Traces /\ tr.tainted = trace.tainted
      BY <1>0, <1>2, <3>1, SettledIs
    <3> HIDE DEF tr
    <3>3. new \in [Archives -> Nat] /\ trace' = [tr EXCEPT !.newest = new]
      BY <2>2, <3>1, <3>2 DEF Traces, tr
    <3> HIDE DEF new
    <3> QED BY <3>2, <3>3 DEF Traces
  <2> QED BY <1>1, <2>1, <2>2
<1>5. lock = p /\ Exclusive'
  <2>1. proc[p].pc \in Holding /\ proc'[p].pc \in Holding \cup {"close"}
    BY <1>0, <1>1 DEF Holding, q
  <2> QED BY <1>0, <1>1, <2>1, HolderGoesOn
<1>6. WorkSound(p)'
  <2>1. /\ proc[p].steps = 0 /\ proc[p].left = 0 /\ proc[p].arch = 1
        /\ h.prep.time = h.last_up
    BY <1>0, <1>3 DEF WorkSound, Holding, Working, HeadOf
  <2>2. HeadOf(p)'.prep = h.prep /\ HeadOf(p)'.last_up = h.last_up
    BY <1>1, <1>2, <1>3 DEF HeadOf, q
  <2>3. q.pc \notin Working
    BY <1>1 DEF Working
  <2> QED BY <1>1, <2>1, <2>2, <2>3 DEF WorkSound, q, Working
<1>7. HeadSound(p)'
  <2>1. CASE q.pc = "close"
    BY <2>1 DEF HeadSound, q, Holding, Working
  <2>2. CASE q.pc # "close"
    <3>1. file'.cur = file.cur /\ q.pc \in {"prep", "cur"}
      BY <1>1, <2>2
    <3>2. q.head.last_up = file'.last_up /\ q.head.last_up >= file'.last_up
      BY <1>0, <1>1, <1>3, <2>2 DEF HeadSound, Holding
    <3>3. q.pc = "cur" => q.head.prep = file'.prep
      BY <1>1
    <3>4. ASSUME NEW a \in Archives
          PROVE  q.head.cur[a] = (file'.cur[a] + q.wrote[a] + Pending(q, a)) % RowCnt
      <4>1. Pending(q, a) = Pending(proc[p], a)
        BY <1>0, <1>1 DEF Pending
      <4> QED BY <1>0, <1>1, <1>3, <3>1, <4>1 DEF HeadSound, Holding
    <3> QED BY <1>1, <1>2, <1>3, <3>1, <3>2, <3>3, <3>4 DEF HeadSound, q
  <2> QED BY <2>1, <2>2
<1>8. OpenedSound(p)'
  BY <1>1 DEF OpenedSound, q
<1>9. PrepAhead'
  BY <1>2, <1>3 DEF PrepAhead
<1> QED BY <1>0, <1>1, <1>4, <1>5, <1>6, <1>7, <1>8, <1>9, AccessKept


\* A step of the reader.
ReaderStep ==
    \/ \E a \in Archives, s \in 1 .. Slot(MaxTime) : ReadHead(a, s)
    \/ ReadCur \/ ReadRow \/ ReadPrep \/ ReadEnd

(* Where a reader looks is a row.                                          *)
LEMMA ReadPlace ==
    ASSUME NEW r \in Readers
    PROVE  /\ Offset(r) \in Int /\ r.cur - Offset(r) \in Int
           /\ (r.cur - Offset(r)) % RowCnt \in Rows
<1>1. RowCnt \in Nat \ {0}
  BY AccessAssumption
<1>2. Slot(r.last_up) \in Nat /\ r.want \in Int /\ r.cur \in Int
  <2>1. r.last_up \in Nat /\ r.want \in Int /\ r.cur \in Rows
    BY DEF Readers
  <2>2. Slot(r.last_up) \in Nat
    BY <2>1, SlotNat
  <2> QED BY <1>1, <2>1, <2>2 DEF Rows
<1> DEFINE x == r.cur - Offset(r)
<1>3. Offset(r) \in Int /\ x \in Int
  BY <1>2 DEF Offset
<1> HIDE DEF x
<1>4. x % RowCnt \in Rows
  BY <1>1, <1>3, DivMod DEF Rows
<1> QED BY <1>3, <1>4 DEF x

(* The reader changes only itself.                                         *)
LEMMA ReaderTyped ==
    ASSUME TypeOK, ReaderStep
    PROVE  /\ UNCHANGED <<build, file, lock, proc, trace>>
           /\ reader' = [pc |-> "idle"] \/ reader' \in Readers
<1>0. UNCHANGED <<build, file, lock, proc, trace>>
  BY DEF ReaderStep, ReadHead, ReadCur, ReadRow, ReadPrep, ReadEnd
<1>1. file \in Files /\ trace \in Traces
  BY DEF TypeOK
<1>2. ASSUME NEW a \in Archives, NEW s \in 1 .. Slot(MaxTime), ReadHead(a, s)
      PROVE  reader' \in Readers
  <2>1. RowCnt \in Nat \ {0} /\ MaxTime \in Nat
    BY AccessAssumption
  <2>2. Slot(MaxTime) \in Nat
    BY <2>1, SlotNat
  <2>3. s \in Int /\ 0 \in Rows /\ file.last_up \in Nat
    BY <1>1, <2>1, <2>2 DEF Rows, Files
  <2> DEFINE quiet == lock = "none" /\ ~trace.broken
  <2>4. quiet \in BOOLEAN
    OBVIOUS
  <2>5. reader' = [pc |-> "head", a |-> a, want |-> s, last_up |-> file.last_up,
                   cur |-> 0, newest |-> 0, got |-> 0, quiet |-> quiet]
    BY <1>2 DEF ReadHead
  <2> HIDE DEF quiet
  <2> QED BY <2>3, <2>4, <2>5 DEF Readers
<1>3. ASSUME ReadCur \/ ReadRow \/ ReadPrep
      PROVE  reader' \in Readers
  <2>1. reader \in Readers
    BY <1>3 DEF TypeOK, ReadCur, ReadRow, ReadPrep
  <2>2. reader.a \in Archives
    BY <2>1 DEF Readers
  <2>3. CASE ReadCur
    <3>1. file.cur[reader.a] \in Rows /\ trace.newest[reader.a] \in Nat
      BY <1>1, <2>2 DEF Files, Traces
    <3>2. reader' = [reader EXCEPT !.pc = "cur", !.cur = file.cur[reader.a],
                                   !.newest = trace.newest[reader.a]]
      BY <2>3 DEF ReadCur
    <3> QED BY <2>1, <3>1, <3>2 DEF Readers
  <2>4. CASE ReadRow
    <3> DEFINE v == file.rows[reader.a][(reader.cur - Offset(reader)) % RowCnt]
    <3>1. (reader.cur - Offset(reader)) % RowCnt \in Rows
      BY <2>1, ReadPlace
    <3>2. v \in Nat
      BY <1>1, <2>2, <3>1 DEF Files
    <3>3. reader' = [reader EXCEPT !.pc = "done", !.got = v]
      BY <2>4 DEF ReadRow
    <3> HIDE DEF v
    <3> QED BY <2>1, <3>2, <3>3 DEF Readers
  <2>5. CASE ReadPrep
    <3>1. file.prep.time \in Nat
      BY <1>1 DEF Files, Preps
    <3>2. reader' = [reader EXCEPT !.pc = "lastupdate", !.got = file.prep.time, !.quiet = FALSE]
      BY <2>5 DEF ReadPrep
    <3> QED BY <2>1, <3>1, <3>2 DEF Readers
  <2> QED BY <1>3, <2>3, <2>4, <2>5
<1>4. ReadEnd => reader' = [pc |-> "idle"]
  BY DEF ReadEnd
<1> QED BY <1>0, <1>2, <1>3, <1>4 DEF ReaderStep

(* Nothing that AccessInv speaks of but the reader changes.                *)
LEMMA AccessSame ==
    ASSUME AccessInv, UNCHANGED <<build, file, lock, proc, trace>>,
           reader' = [pc |-> "idle"] \/ reader' \in Readers
    PROVE  AccessInv'
<1>1. TypeOK'
  BY DEF AccessInv, TypeOK
<1>2. Exclusive' /\ (build' = "mmap" => ~trace'.tainted)
  BY DEF AccessInv, Exclusive
<1>3. ASSUME ~trace'.tainted PROVE PrepAhead'
  BY <1>3 DEF AccessInv, PrepAhead
<1>4. ASSUME ~trace'.tainted, NEW p \in Procs
      PROVE  OpenedSound(p)' /\ WorkSound(p)' /\ HeadSound(p)'
  <2>1. OpenedSound(p) /\ WorkSound(p) /\ HeadSound(p)
    BY <1>4 DEF AccessInv
  <2>2. HeadOf(p)' = HeadOf(p)
    BY DEF HeadOf
  <2> QED BY <2>1, <2>2 DEF OpenedSound, WorkSound, HeadSound, NoneWritten, Written, Pending
<1> QED BY <1>1, <1>2, <1>3, <1>4 DEF AccessInv

(* A new file.                                                             *)
LEMMA AccessInit ==
    ASSUME Init
    PROVE  AccessInv
<1>1. RowCnt \in Nat \ {0} /\ "none" \notin Procs
  BY AccessAssumption
<1>2. file \in Files /\ file.last_up = 0 /\ file.prep.time = 0
  <2> DEFINE r == [a \in Archives |-> [i \in 0 .. RowCnt - 1 |-> 0]]
             c == [a \in Archives |-> 0]
  <2>1. r \in [Archives -> [Rows -> Nat]] /\ c \in [Archives -> Rows]
    BY <1>1 DEF Rows
  <2>2. file = [last_up |-> 0, prep |-> [time |-> 0, sound |-> TRUE], cur |-> c, rows |-> r]
    BY DEF Init
  <2> HIDE DEF r, c
  <2> QED BY <2>1, <2>2 DEF Files, Preps
<1>3. trace \in Traces /\ ~trace.tainted /\ \A a \in Archives : trace.lost[a] = 0
  BY DEF Init, Traces
<1>4. TypeOK
  BY <1>2, <1>3, IdleTyped DEF TypeOK, Init
<1>5. \A p \in Procs : proc[p].pc = "idle" /\ Blank(proc[p])
  BY DEF Init, Idle, Blank
<1>6. Exclusive
  BY <1>1, <1>5 DEF Exclusive, Init, Holding, Working
<1>7. PrepAhead
  BY <1>2, <1>3 DEF PrepAhead
<1>8. \A p \in Procs : OpenedSound(p) /\ WorkSound(p) /\ HeadSound(p)
  BY <1>5 DEF OpenedSound, WorkSound, HeadSound, Holding, Working, Blank
<1> QED BY <1>3, <1>4, <1>6, <1>7, <1>8 DEF AccessInv

(* Every step keeps AccessInv.                                             *)
LEMMA AccessStep ==
    ASSUME AccessInv, [Next]_vars
    PROVE  AccessInv'
<1>1. CASE UNCHANGED vars
  BY <1>1, AccessSame DEF vars, AccessInv, TypeOK
<1>2. CASE Next
  <2>0. ~trace.tainted
    BY <1>2 DEF Next
  <2>1. ASSUME NEW p \in Procs, Updater(p)
        PROVE  AccessInv'
    <3>1. \/ Open(p) \/ Close(p)
          \/ Lock(p) \/ BadArg(p) \/ Kill(p) \/ Advance(p) \/ WriteRow(p) \/ Stamp(p)
          \/ End(p) \/ WriteHeader(p) \/ \E t \in 1 .. MaxTime : Arg(p, t)
      BY <2>1 DEF Updater
    <3> QED BY <2>0, <3>1, AccessIdleSteps, AccessLock, AccessAbort, AccessAdvance,
               AccessWriteRow, AccessStamp, AccessEnd, AccessWriteHeader, AccessArg
  <2>2. ASSUME ReaderStep PROVE AccessInv'
    <3>1. TypeOK
      BY DEF AccessInv
    <3> QED BY <2>2, <3>1, ReaderTyped, AccessSame
  <2> QED BY <1>2, <2>1, <2>2 DEF Next, ReaderStep
<1> QED BY <1>1, <1>2

(* AccessInv is an invariant.                                              *)
LEMMA AccessHolds == Spec => []AccessInv
<1>1. Init => AccessInv
  BY AccessInit
<1>2. AccessInv /\ [Next]_vars => AccessInv'
  BY AccessStep
<1> QED BY <1>1, <1>2, PTL DEF Spec

(* last_up does not go back in a step.                                     *)
LEMMA TimeStep ==
    ASSUME AccessInv, ~trace.tainted, NEW p \in Procs, Updater(p)
    PROVE  file'.last_up >= file.last_up
<1>0. /\ TypeOK /\ WorkSound(p) /\ HeadSound(p) /\ file.last_up \in Nat
      /\ proc[p].head.last_up \in Nat /\ proc[p].t \in Nat
  BY DEF AccessInv, TypeOK, Files, UpdaterStates, Heads
<1>1. CASE Open(p) \/ Close(p) \/ Lock(p) \/ BadArg(p) \/ Kill(p) \/ End(p)
  <2>1. file'.last_up = file.last_up
    BY <1>0, <1>1, OpenIs, CloseIs, LockIs, BadArgIs, KillIs, EndIs
  <2> QED BY <1>0, <2>1
<1>2. CASE \E t \in 1 .. MaxTime : Arg(p, t)
  <2>1. file'.last_up = file.last_up
    BY <1>0, <1>2, ArgIs
  <2> QED BY <1>0, <2>1
<1>3. CASE Advance(p)
  <2>1. proc[p].arch \in Archives
    BY <1>0, <1>3 DEF WorkSound, Advance
  <2>2. file'.last_up = file.last_up
    BY <1>0, <1>3, <2>1, AdvanceIs
  <2> QED BY <1>0, <2>2
<1>4. CASE WriteRow(p)
  <2>1. proc[p].arch \in Archives /\ proc[p].left \in 1 .. proc[p].steps
    BY <1>0, <1>4 DEF WorkSound, WriteRow
  <2>2. file'.last_up = file.last_up
    BY <1>0, <1>4, <2>1, WriteRowIs
  <2> QED BY <1>0, <2>2
<1>5. CASE Stamp(p)
  <2>1. /\ proc[p].pc = "stamp" /\ (build = "copy" => file' = file)
        /\ build # "copy" => file'.last_up = proc[p].t
    BY <1>0, <1>5, StampIs
  <2>2. build # "copy" => proc[p].t > file.last_up
    BY <1>0, <2>1 DEF WorkSound, HeadSound, Holding, Working
  <2> QED BY <1>0, <2>1, <2>2
<1>6. CASE WriteHeader(p)
  <2>1. /\ proc[p].pc \in {"last_up", "prep", "cur"}
        /\ file'.last_up = file.last_up \/ file'.last_up = proc[p].head.last_up
    BY <1>0, <1>6, WriteHeaderIs
  <2>2. proc[p].head.last_up >= file.last_up
    BY <1>0, <2>1 DEF HeadSound, Holding
  <2> QED BY <1>0, <2>1, <2>2
<1> QED BY <1>1, <1>2, <1>3, <1>4, <1>5, <1>6 DEF Updater

(* last_up never goes back, for any number of processes that update the    *)
(* file, in every build and whatever processes are killed, as long as no   *)
(* process uses a header it read before another one changed the file; with *)
(* a file that is mapped and of version 3 none ever does (rrd_lock,        *)
(* get_time_from_reading, write_changes_to_disk).                          *)
THEOREM AccessTimeForward == Spec => TimeForward
<1>1. AccessInv /\ AccessInv' /\ [Next]_vars =>
        [/\ ~trace'.tainted => file'.last_up >= file.last_up
         /\ build = "mmap" => ~trace'.tainted]_vars
  <2> SUFFICES ASSUME AccessInv, AccessInv', Next
               PROVE  /\ file'.last_up >= file.last_up
                      /\ build = "mmap" => ~trace'.tainted
    OBVIOUS
  <2>1. ~trace.tainted /\ TypeOK /\ file.last_up \in Nat
    BY DEF Next, AccessInv, TypeOK, Files
  <2>2. ASSUME NEW p \in Procs, Updater(p)
        PROVE  file'.last_up >= file.last_up /\ build' = build
    <3>1. file'.last_up >= file.last_up
      BY <2>1, <2>2, TimeStep
    <3>2. build' = build
      BY <2>2 DEF Updater, Open, Lock, BadArg, Advance, WriteRow, Stamp, End, WriteHeader, Close,
                  Kill, Arg, SetHead, Step
    <3> QED BY <3>1, <3>2
  <2>3. ASSUME ReaderStep
        PROVE  file'.last_up >= file.last_up /\ build' = build
    BY <2>1, <2>3, ReaderTyped
  <2>4. build' = "mmap" => ~trace'.tainted
    BY DEF AccessInv
  <2> QED BY <2>2, <2>3, <2>4 DEF Next, ReaderStep
<1> QED BY <1>1, AccessHolds, PTL DEF Spec, TimeForward


-----------------------------------------------------------------------------
(* The rows                                                                *)

(* A process that does not hold the lock does not change what the rows     *)
(* mean.                                                                   *)
LEMMA RowsBystander ==
    ASSUME RowsInv, NEW p \in Procs, StepOf(p), file' = file,
           proc[p].pc \notin Holding, proc'[p].pc \notin Holding,
           trace'.tainted = trace.tainted, trace'.broken = trace.broken,
           trace'.since = trace.since, \A a \in Archives : trace'.lost[a] = trace.lost[a]
    PROVE  RowsInv'
<1> SUFFICES ASSUME ~trace'.tainted, ~trace'.broken
             PROVE  /\ Free' => FileSound(NoneWritten)'
                    /\ \A r \in Procs : proc'[r].pc \in Holding =>
                         /\ ViewSound(r)'
                         /\ build' = "copy" /\ proc'[r].pc \notin {"prep", "cur"} =>
                              FileSound(proc[r].wrote)'
  BY DEF RowsInv
<1>1. /\ Free => FileSound(NoneWritten)
      /\ \A r \in Procs : proc[r].pc \in Holding =>
           /\ ViewSound(r)
           /\ build = "copy" /\ proc[r].pc \notin {"prep", "cur"} => FileSound(proc[r].wrote)
  BY DEF RowsInv
<1>2. Free' => Free
  BY DEF Free, StepOf
<1>3. FileSound(NoneWritten) => FileSound(NoneWritten)'
  BY DEF FileSound, FileRows, NoneWritten
<1>4. ASSUME NEW r \in Procs, proc'[r].pc \in Holding
      PROVE  /\ ViewSound(r)'
             /\ build' = "copy" /\ proc'[r].pc \notin {"prep", "cur"} =>
                              FileSound(proc[r].wrote)'
  <2>1. /\ r # p /\ build' = build /\ proc'[r].pc = proc[r].pc /\ proc'[r].head = proc[r].head
        /\ proc'[r].arch = proc[r].arch /\ proc'[r].left = proc[r].left
        /\ proc'[r].steps = proc[r].steps /\ proc'[r].sound = proc[r].sound
        /\ proc'[r].wrote = proc[r].wrote
    BY <1>4 DEF StepOf
  <2>2. HeadOf(r)' = HeadOf(r)
    BY <2>1 DEF HeadOf
  <2>3. ViewPrep(r) => ViewPrep(r)'
    BY <2>1, <2>2 DEF ViewPrep
  <2>4. ASSUME NEW a \in Archives, ViewRows(r, a)
        PROVE  ViewRows(r, a)'
    <3>1. Written(proc[r], a)' = Written(proc[r], a) /\ Pending(proc[r], a)' = Pending(proc[r], a)
      BY <2>1 DEF Written, Pending
    <3> QED BY <2>1, <2>2, <2>4, <3>1 DEF ViewRows
  <2>5. FileSound(proc[r].wrote) => FileSound(proc[r].wrote)'
    BY <2>1 DEF FileSound, FileRows
  <2> QED BY <1>1, <1>4, <2>1, <2>3, <2>4, <2>5 DEF ViewSound
<1> QED BY <1>1, <1>2, <1>3, <1>4

(* What is left to show of a step of the process that holds the lock.      *)
LEMMA RowsByHolder ==
    ASSUME NEW p \in Procs, StepOf(p), \A r \in Procs \ {p} : proc[r].pc \notin Holding,
           ~trace'.tainted /\ ~trace'.broken =>
             /\ proc'[p].pc \notin Holding => FileSound(NoneWritten)'
             /\ proc'[p].pc \in Holding =>
                  /\ ViewSound(p)'
                  /\ build = "copy" /\ proc'[p].pc \notin {"prep", "cur"} =>
                       FileSound(proc[p].wrote)'
    PROVE  RowsInv'
<1>1. \A r \in Procs : r # p => proc'[r].pc \notin Holding
  BY DEF StepOf
<1>2. build' = build
  BY DEF StepOf
<1>3. Free' => proc'[p].pc \notin Holding
  BY DEF Free
<1> QED BY <1>1, <1>2, <1>3 DEF RowsInv

(* Who holds the lock is alone.                                            *)
LEMMA Alone ==
    ASSUME Exclusive, NEW p \in Procs, proc[p].pc \in Holding
    PROVE  lock = p /\ \A r \in Procs \ {p} : proc[r].pc \notin Holding
BY DEF Exclusive

(* The numbers in the claims about rows.                                   *)
LEMMA ViewTyped ==
    ASSUME TypeOK, NEW p \in Procs, NEW a \in Archives
    PROVE  /\ Slot(HeadOf(p).last_up) \in Nat /\ Slot(file.last_up) \in Nat
           /\ HeadOf(p).cur[a] \in Rows /\ file.cur[a] \in Rows /\ file.rows[a] \in [Rows -> Nat]
           /\ trace.lost[a] \in Nat /\ trace.since \in Nat /\ proc[p].wrote[a] \in Nat
           /\ Written(proc[p], a) \in Int /\ Pending(proc[p], a) \in 0 .. 1
           /\ RowCnt \in Nat \ {0}
<1>1. /\ HeadOf(p).last_up \in Nat /\ HeadOf(p).cur \in [Archives -> Rows]
      /\ file.last_up \in Nat
  BY HeadTyped DEF TypeOK, Files
<1>2. Slot(HeadOf(p).last_up) \in Nat /\ Slot(file.last_up) \in Nat
  BY <1>1, SlotNat
<1>3. /\ file.cur[a] \in Rows /\ file.rows[a] \in [Rows -> Nat] /\ trace.lost[a] \in Nat
      /\ trace.since \in Nat
  BY DEF TypeOK, Files, Traces
<1>4. proc[p].wrote[a] \in Nat /\ proc[p].steps \in Nat /\ proc[p].left \in Nat
  BY DEF TypeOK, UpdaterStates
<1>5. Written(proc[p], a) \in Int /\ Pending(proc[p], a) \in 0 .. 1
  BY <1>4 DEF Written, Pending
<1> QED BY <1>1, <1>2, <1>3, <1>4, <1>5, AccessAssumption

(* Between two arguments nothing is half written.                          *)
LEMMA BetweenArguments ==
    ASSUME NEW p \in Procs, WorkSound(p), proc[p].pc \notin Working, NEW a \in Archives
    PROVE  Written(proc[p], a) = 0 /\ Pending(proc[p], a) = 0
BY DEF WorkSound, Written, Pending, Working

(* A process reads the header and gets the lock.                           *)
LEMMA RowsLock ==
    ASSUME AccessInv, AccessInv', ~trace.tainted, RowsInv, NEW p \in Procs, Lock(p)
    PROVE  RowsInv'
<1>0. TypeOK /\ Exclusive /\ OpenedSound(p) /\ WorkSound(p) /\ TypeOK' /\ proc[p] \in UpdaterStates
  BY DEF AccessInv, TypeOK
<1>1. /\ StepOf(p) /\ file' = file /\ proc[p].pc = "opened"
      /\ \/ /\ lock # "none" /\ lock' = lock /\ trace' = trace
            /\ proc'[p].pc = "close" /\ Blank(proc'[p])
         \/ /\ lock = "none" /\ lock' = p
            /\ proc'[p] = [proc[p] EXCEPT !.pc = "ready", !.fresh = TRUE]
            /\ trace' = [trace EXCEPT !.tainted = @ \/ (build # "mmap" /\ ~proc[p].fresh)]
  BY <1>0, LockIs
<1>2. CASE trace' = trace /\ proc'[p].pc = "close"
  <2>1. proc[p].pc \notin Holding /\ proc'[p].pc \notin Holding
    BY <1>1, <1>2 DEF Holding, Working
  <2> QED BY <1>1, <1>2, <2>1, RowsBystander
<1>3. CASE /\ lock = "none" /\ proc'[p] = [proc[p] EXCEPT !.pc = "ready", !.fresh = TRUE]
           /\ trace' = [trace EXCEPT !.tainted = @ \/ (build # "mmap" /\ ~proc[p].fresh)]
  <2>1. /\ proc'[p].pc = "ready" /\ proc'[p].wrote = NoneWritten
        /\ proc'[p].head = proc[p].head /\ build' = build
    BY <1>0, <1>1, <1>3 DEF OpenedSound, UpdaterStates, StepOf
  <2>2. /\ trace'.lost = trace.lost /\ trace'.since = trace.since /\ trace'.broken = trace.broken
        /\ trace'.tainted = (trace.tainted \/ (build # "mmap" /\ ~proc[p].fresh))
    BY <1>0, <1>3 DEF TypeOK, Traces
  <2>3. Free
    BY <1>0, <1>3, AccessAssumption DEF Free, Exclusive
  <2>4. ASSUME ~trace'.tainted, ~trace'.broken
        PROVE  ViewSound(p)' /\ FileSound(proc[p].wrote)'
    <3>1. FileSound(NoneWritten)
      BY <2>2, <2>3, <2>4 DEF RowsInv
    <3>2. FileSound(proc[p].wrote)'
      BY <1>1, <2>1, <2>2, <3>1 DEF FileSound, FileRows
    <3>3. build # "mmap" => /\ proc[p].head.last_up = file.last_up
                            /\ proc[p].head.prep = file.prep /\ proc[p].head.cur = file.cur
      BY <1>0, <1>1, <2>2, <2>4 DEF OpenedSound
    <3>4. /\ HeadOf(p)'.last_up = file'.last_up /\ HeadOf(p)'.prep = file'.prep
          /\ HeadOf(p)'.cur = file'.cur
      BY <1>1, <2>1, <3>3 DEF HeadOf
    <3>5. ViewPrep(p)'
      BY <2>1, <3>2, <3>4 DEF ViewPrep, FileSound, Working
    <3>6. ASSUME NEW a \in Archives PROVE ViewRows(p, a)'
      <4>1. Written(proc[p], a)' = 0 /\ Pending(proc[p], a)' = 0
        <5>1. WorkSound(p)' /\ proc'[p].pc \notin Working
          BY <2>1, <2>4 DEF AccessInv, Working
        <5> QED BY <2>1, <5>1 DEF WorkSound, Written, Pending
      <4>2. FileRows(proc[p].wrote[a], a)' /\ proc'[p].wrote[a] = 0
        BY <2>1, <3>2, IdleTyped DEF FileSound
      <4>3. /\ Slot(file.last_up)' \in Nat /\ trace'.lost[a] \in Nat /\ RowCnt \in Nat
        BY <1>0, ViewTyped, <1>1, <2>2
      <4> DEFINE top == Slot(file.last_up)'
                 lost == trace'.lost[a]
      <4>4. Shown(file'.rows[a], file'.cur[a], top, top - RowCnt + lost, trace'.since, top)
        BY <4>2, <4>3 DEF FileRows
      <4>5. Slot(HeadOf(p).last_up)' = top
        BY <3>4 DEF Slot
      <4> HIDE DEF top, lost
      <4>6. top + 0 = top /\ top - RowCnt + lost - 0 = top - RowCnt + lost
        BY <4>3 DEF top, lost
      <4> QED BY <3>4, <4>1, <4>2, <4>4, <4>5, <4>6 DEF ViewRows, lost
    <3> QED BY <3>2, <3>5, <3>6 DEF ViewSound
  <2>5. proc'[p].pc \in Holding
    BY <2>1 DEF Holding
  <2> QED BY <1>1, <2>3, <2>4, <2>5, RowsByHolder DEF Free
<1> QED BY <1>1, <1>2, <1>3


(* In a mapped file a process between two arguments sees what is there.    *)
LEMMA ReadyIsFile ==
    ASSUME TypeOK, NEW p \in Procs, build # "copy", proc[p].pc \in Holding \ Working,
           WorkSound(p), HeadSound(p), ViewSound(p)
    PROVE  FileSound(NoneWritten)
<1>1. /\ HeadOf(p).last_up = file.last_up /\ HeadOf(p).prep = file.prep
      /\ HeadOf(p).cur = file.cur /\ proc[p].wrote = NoneWritten
  BY DEF HeadSound, HeadOf
<1>2. PrepSound(file.last_up, file.prep, trace.since)
  BY <1>1 DEF ViewSound, ViewPrep
<1>3. ASSUME NEW a \in Archives PROVE FileRows(NoneWritten[a], a)
  <2> DEFINE top == Slot(file.last_up)
             lost == trace.lost[a]
  <2>1. Written(proc[p], a) = 0 /\ Pending(proc[p], a) = 0
    BY BetweenArguments
  <2>2. NoneWritten[a] = 0 /\ proc[p].wrote[a] = 0
    BY <1>1, IdleTyped
  <2>3. top \in Nat /\ lost \in Nat /\ RowCnt \in Nat
    BY ViewTyped
  <2>4. Slot(HeadOf(p).last_up) = top
    BY <1>1
  <2>5. ViewRows(p, a)
    BY DEF ViewSound
  <2> HIDE DEF top, lost
  <2>6. top + 0 = top /\ top - RowCnt + lost - 0 = top - RowCnt + lost
    BY <2>3
  <2>7. Shown(file.rows[a], file.cur[a], top, top - RowCnt + lost, trace.since, top)
    BY <1>1, <2>1, <2>2, <2>4, <2>5, <2>6 DEF ViewRows, lost
  <2>8. (IF NoneWritten[a] > lost THEN NoneWritten[a] ELSE lost) = lost
    BY <2>2, <2>3
  <2> QED BY <2>7, <2>8 DEF FileRows, top, lost
<1> QED BY <1>2, <1>3 DEF FileSound

(* An update is given up or killed.                                        *)
LEMMA RowsAbort ==
    ASSUME AccessInv, AccessInv', ~trace.tainted, RowsInv, NEW p \in Procs, BadArg(p) \/ Kill(p)
    PROVE  RowsInv'
<1> DEFINE w(a) == IF build = "copy" /\ proc[p].pc # "close" THEN proc[p].wrote[a] ELSE 0
<1>0. /\ TypeOK /\ Exclusive /\ OpenedSound(p) /\ WorkSound(p) /\ HeadSound(p) /\ TypeOK'
      /\ proc[p] \in UpdaterStates
  BY DEF AccessInv, TypeOK
<1>1. /\ trace' \in Traces /\ trace'.tainted = trace.tainted
      /\ trace'.since = trace.since
      /\ BadArg(p) => trace'.broken = trace.broken
      /\ Kill(p) => trace'.broken = (trace.broken \/ proc[p].pc \in
                       (IF build = "copy" THEN {"prep", "cur"} ELSE Working))
      /\ \A a \in Archives :
           trace'.lost[a] = IF w(a) > trace.lost[a] THEN w(a) ELSE trace.lost[a]
  BY <1>0, LostIs
<1>2. /\ StepOf(p) /\ proc'[p].pc \in {"idle", "close"}
      /\ file'.last_up = file.last_up /\ file'.cur = file.cur /\ file'.rows = file.rows
      /\ file'.prep.sound = file.prep.sound
      /\ BadArg(p) => proc[p].pc = "ready"
      /\ Kill(p) => proc[p].pc # "idle" /\ file' = file
  BY <1>0, BadArgIs, KillIs
<1>3. proc'[p].pc \notin Holding
  BY <1>2 DEF Holding, Working
<1>4. CASE proc[p].pc \notin Holding
  <2>1. Kill(p) /\ proc[p].pc \in {"opened", "close"}
    BY <1>0, <1>2, <1>4 DEF Holding, UpdaterStates, Places
  <2>2. trace'.broken = trace.broken
    BY <1>0, <1>1, <2>1 DEF Working, TypeOK, Traces
  <2>3. ASSUME NEW a \in Archives PROVE trace'.lost[a] = trace.lost[a]
    <3>1. w(a) = 0
      BY <1>0, <2>1, IdleTyped DEF OpenedSound
    <3>2. trace.lost[a] \in Nat
      BY <1>0 DEF TypeOK, Traces
    <3> HIDE DEF w
    <3> QED BY <1>1, <3>1, <3>2
  <2> QED BY <1>1, <1>2, <1>3, <1>4, <2>1, <2>2, <2>3, RowsBystander
<1>5. CASE proc[p].pc \in Holding
  <2>1. lock = p /\ \A r \in Procs \ {p} : proc[r].pc \notin Holding
    BY <1>0, <1>5, Alone
  <2>2. ASSUME ~trace'.broken PROVE FileSound(NoneWritten)'
    <3>1. ~trace.broken
      BY <1>1, <2>2
    <3>2. CASE build = "copy"
      <4>1. proc[p].pc \notin {"prep", "cur"}
        BY <1>1, <1>2, <2>2, <3>2
      <4>2. FileSound(proc[p].wrote)
        BY <1>5, <3>1, <3>2, <4>1 DEF RowsInv
      <4>3. ASSUME NEW a \in Archives PROVE FileRows(NoneWritten[a], a)'
        <5>1. FileRows(proc[p].wrote[a], a)
          BY <4>2 DEF FileSound
        <5>2. trace'.lost[a] \in Nat /\ trace.lost[a] \in Nat /\ proc[p].wrote[a] \in Nat
          BY <1>0, <1>1, ViewTyped DEF Traces
        <5>3. (IF NoneWritten[a] > trace'.lost[a] THEN NoneWritten[a] ELSE trace'.lost[a])
                = (IF proc[p].wrote[a] > trace.lost[a] THEN proc[p].wrote[a] ELSE trace.lost[a])
          <6>1. w(a) = proc[p].wrote[a] /\ NoneWritten[a] = 0
            BY <1>5, <3>2, IdleTyped DEF Holding, Working
          <6> HIDE DEF w
          <6> QED BY <1>1, <5>2, <6>1
        <5>4. FileRows(NoneWritten[a], a)' =
                 Shown(file'.rows[a], file'.cur[a], Slot(file'.last_up), Slot(file'.last_up) - RowCnt
                  + (IF NoneWritten[a] > trace'.lost[a] THEN NoneWritten[a] ELSE trace'.lost[a]),
                  trace'.since, Slot(file'.last_up))
          BY DEF FileRows, NoneWritten, Slot
        <5> QED BY <1>1, <1>2, <5>1, <5>3, <5>4 DEF FileRows
      <4>4. PrepSound(file.last_up, file.prep, trace.since)'
        BY <1>1, <1>2, <4>2 DEF FileSound, PrepSound, Slot
      <4> QED BY <4>3, <4>4 DEF FileSound
    <3>3. CASE build # "copy"
      <4>1. proc[p].pc \notin Working
        BY <1>1, <1>2, <2>2, <3>3 DEF Working
      <4>2. ViewSound(p)
        BY <1>5, <3>1 DEF RowsInv
      <4>3. FileSound(NoneWritten)
        BY <1>0, <1>5, <3>3, <4>1, <4>2, ReadyIsFile
      <4>4. \A a \in Archives : trace'.lost[a] = trace.lost[a]
        <5>1. \A a \in Archives : trace.lost[a] \in Nat
          BY <1>0 DEF TypeOK, Traces
        <5> QED BY <1>1, <3>3, <5>1
      <4> QED BY <1>1, <1>2, <4>3, <4>4 DEF FileSound, FileRows, NoneWritten, PrepSound, Slot
    <3> QED BY <3>2, <3>3
  <2> QED BY <1>2, <1>3, <2>1, <2>2, RowsByHolder
<1> QED BY <1>4, <1>5

(* The arguments are done.                                                 *)
LEMMA RowsEnd ==
    ASSUME AccessInv, AccessInv', ~trace.tainted, RowsInv, NEW p \in Procs, End(p)
    PROVE  RowsInv'
<1>0. /\ TypeOK /\ Exclusive /\ WorkSound(p) /\ HeadSound(p) /\ proc[p] \in UpdaterStates
  BY DEF AccessInv, TypeOK
<1>1. /\ StepOf(p) /\ file' = file /\ trace' = trace
      /\ proc[p].pc = "ready"
      /\ build = "copy" => proc'[p] = [proc[p] EXCEPT !.pc = "last_up"]
      /\ build # "copy" => proc'[p].pc = "close" /\ Blank(proc'[p])
  BY <1>0, EndIs
<1>2. proc[p].pc \in Holding \ Working
  BY <1>1 DEF Holding, Working
<1>3. \A r \in Procs \ {p} : proc[r].pc \notin Holding
  BY <1>0, <1>2, Alone
<1>4. CASE build # "copy"
  <2>1. ~trace'.broken => FileSound(NoneWritten)
    BY <1>0, <1>1, <1>2, <1>4, ReadyIsFile DEF RowsInv
  <2>2. FileSound(NoneWritten) => FileSound(NoneWritten)'
    BY <1>1 DEF FileSound, FileRows, NoneWritten
  <2>3. proc'[p].pc \notin Holding
    BY <1>1, <1>4 DEF Holding, Working
  <2> QED BY <1>1, <1>3, <2>1, <2>2, <2>3, RowsByHolder
<1>5. CASE build = "copy"
  <2>1. /\ proc'[p].pc = "last_up" /\ proc'[p].wrote = proc[p].wrote
        /\ proc'[p].head = proc[p].head /\ proc'[p].steps = proc[p].steps
        /\ proc'[p].left = proc[p].left /\ proc'[p].arch = proc[p].arch /\ build' = build
    BY <1>0, <1>1, <1>5 DEF UpdaterStates, StepOf
  <2>2. HeadOf(p)' = HeadOf(p)
    BY <1>1, <2>1 DEF HeadOf
  <2>3. ASSUME ~trace'.broken PROVE ViewSound(p)' /\ FileSound(proc[p].wrote)'
    <3>1. ViewSound(p) /\ FileSound(proc[p].wrote)
      BY <1>1, <1>2, <1>5, <2>3 DEF RowsInv
    <3>2. ViewPrep(p)'
      BY <1>1, <1>2, <2>1, <2>2, <3>1 DEF ViewSound, ViewPrep, Working
    <3>3. ASSUME NEW a \in Archives PROVE ViewRows(p, a)'
      <4>1. Written(proc[p], a)' = Written(proc[p], a) /\ Pending(proc[p], a)' = Pending(proc[p], a)
        BY <1>1, <2>1 DEF Written, Pending
      <4> QED BY <1>1, <2>1, <2>2, <3>1, <4>1 DEF ViewSound, ViewRows
    <3>4. FileSound(proc[p].wrote)'
      BY <1>1, <2>1, <3>1 DEF FileSound, FileRows
    <3> QED BY <3>2, <3>3, <3>4 DEF ViewSound
  <2>4. proc'[p].pc \in Holding
    BY <2>1 DEF Holding
  <2> QED BY <1>1, <1>3, <2>3, <2>4, RowsByHolder
<1> QED BY <1>4, <1>5


(* An argument is begun: its readings fit those before it, or nothing is   *)
(* claimed of the step in which they fall.                                 *)
LEMMA RowsArg ==
    ASSUME AccessInv, AccessInv', ~trace.tainted, RowsInv, NEW p \in Procs,
           NEW t \in 1 .. MaxTime, Arg(p, t)
    PROVE  RowsInv'
<1> DEFINE h == HeadOf(p)
           e == Slot(t) - Slot(h.last_up)
           g == HeadOf(p)'
           q == proc'[p]
<1>0. /\ TypeOK /\ Exclusive /\ WorkSound(p) /\ HeadSound(p) /\ proc[p] \in UpdaterStates
  BY DEF AccessInv, TypeOK
<1>1. /\ StepOf(p) /\ ArgTrace(p, t) /\ proc[p].pc = "ready" /\ e \in Nat
      /\ q.pc = (IF e = 0 THEN "stamp" ELSE "row")
      /\ q.arch = 1 /\ q.left = e /\ q.steps = e /\ q.wrote = proc[p].wrote
      /\ q.sound = (Fits(p) /\ h.prep.sound)
      /\ g.last_up = h.last_up /\ g.cur = h.cur
      /\ g.prep = [time |-> t, sound |-> Fits(p) /\ (e = 0 => h.prep.sound)]
      /\ file'.last_up = file.last_up /\ file'.cur = file.cur /\ file'.rows = file.rows
      /\ build = "copy" => file' = file
  BY <1>0, ArgIs
<1>5. /\ trace'.broken = trace.broken /\ trace'.tainted = trace.tainted
      /\ \A a \in Archives : trace'.lost[a] = trace.lost[a]
      /\ trace'.since \in Nat /\ trace.since \in Nat /\ trace'.since >= trace.since
      /\ Fits(p) \/ trace'.since > Slot(t)
  BY <1>0, <1>1 DEF ArgTrace, TypeOK, Traces
<1>6. Slot(h.last_up) \in Nat /\ Slot(t) \in Nat
  <2>1. h.last_up \in Nat /\ t \in Nat
    BY <1>0, HeadTyped, AccessAssumption
  <2> HIDE DEF h
  <2> QED BY <2>1, SlotNat
<1>2. proc[p].pc \in Holding \ Working /\ q.pc \in Holding /\ q.pc \in Working
  BY <1>1 DEF Holding, Working
<1>3. \A r \in Procs \ {p} : proc[r].pc \notin Holding
  BY <1>0, <1>2, Alone
<1>4. ASSUME ~trace'.broken PROVE ViewSound(p)' /\ (build = "copy" => FileSound(proc[p].wrote)')
  <2>1. ViewSound(p) /\ (build = "copy" => FileSound(proc[p].wrote))
    BY <1>1, <1>2, <1>4, <1>5 DEF RowsInv
  <2>2. h.prep.sound \/ trace.since > Slot(h.last_up)
    BY <1>2, <2>1 DEF ViewSound, ViewPrep, PrepSound
  <2>3. g.prep.sound = (Fits(p) /\ (e = 0 => h.prep.sound))
    BY <1>1
  <2>8. Slot(t) = Slot(h.last_up) + e
    BY <1>6
  <2> HIDE DEF h, g, e, q
  <2>4. /\ q.sound \/ trace'.since > Slot(g.last_up)
        /\ g.prep.sound \/ trace'.since > Slot(g.last_up) + q.steps
    <3>1. CASE Fits(p)
      <4>1. Slot(g.last_up) = Slot(h.last_up) /\ q.steps = e /\ e \in Nat
        BY <1>1
      <4>2. q.sound = h.prep.sound /\ g.prep.sound = (e = 0 => h.prep.sound)
        <5>1. h.prep.sound \in BOOLEAN
          BY <1>0, HeadTyped DEF h, Preps
        <5> QED BY <1>1, <2>3, <3>1, <5>1
      <4>3. CASE h.prep.sound
        BY <4>2, <4>3
      <4>4. CASE ~h.prep.sound
        <5>1. trace'.since > Slot(g.last_up)
          BY <1>5, <1>6, <2>2, <4>1, <4>4
        <5>2. CASE e = 0
          BY <1>6, <4>1, <5>1, <5>2
        <5>3. CASE e # 0
          BY <4>2, <5>1, <5>3
        <5> QED BY <5>2, <5>3
      <4> QED BY <4>3, <4>4
    <3>2. CASE ~Fits(p)
      BY <1>1, <1>5, <1>6, <2>8, <3>2
    <3> QED BY <3>1, <3>2
  <2>5. ViewPrep(p)'
    BY <1>2, <2>4 DEF ViewPrep, g, q, Slot
  <2>6. ASSUME NEW a \in Archives PROVE ViewRows(p, a)'
    <3>1. Written(proc[p], a) = 0 /\ Pending(proc[p], a) = 0
      BY <1>0, <1>2, BetweenArguments
    <3>2. Written(q, a) = 0 /\ Pending(q, a) = 0
      <4>1. a \in Nat \ {0}
        BY AccessAssumption
      <4> QED BY <1>1, <4>1 DEF Written, Pending
    <3>3. ViewRows(p, a)
      BY <2>1 DEF ViewSound
    <3> DEFINE top == Slot(h.last_up) + Written(proc[p], a)
               from == top - RowCnt + trace.lost[a] - proc[p].wrote[a]
    <3>4. Shown(file.rows[a], h.cur[a], top + Pending(proc[p], a), from, trace.since, top)
      BY <3>3 DEF ViewRows, h
    <3>5. /\ Slot(g.last_up) + Written(q, a) = top
          /\ top - RowCnt + trace'.lost[a] - q.wrote[a] = from
      BY <1>1, <1>5, <3>1, <3>2
    <3>7. top \in Int /\ from \in Int /\ top + Pending(proc[p], a) \in Int
      <4>1. RowCnt \in Nat /\ trace.lost[a] \in Nat /\ proc[p].wrote[a] \in Nat
        BY <1>0, ViewTyped
      <4> QED BY <1>6, <3>1, <4>1
    <3> HIDE DEF top, from
    <3>8. Shown(file.rows[a], h.cur[a], top + Pending(proc[p], a), from, trace'.since, top)
      BY <1>5, <3>4, <3>7, ShownLess
    <3>6. Shown(file'.rows[a], g.cur[a], top + Pending(q, a), from, trace'.since, top)
      BY <1>1, <3>1, <3>2, <3>8
    <3> QED BY <3>5, <3>6 DEF ViewRows, g, q, Slot
  <2>7. ASSUME build = "copy" PROVE FileSound(proc[p].wrote)'
    <3>1. PrepSound(file.last_up, file.prep, trace.since)'
      <4>1. PrepSound(file.last_up, file.prep, trace.since) /\ Slot(file.last_up) \in Nat
        BY <1>0, <2>1, <2>7, SlotNat DEF FileSound, TypeOK, Files
      <4> QED BY <1>1, <1>5, <2>7, <4>1 DEF PrepSound
    <3>2. ASSUME NEW a \in Archives PROVE FileRows(proc[p].wrote[a], a)'
      <4> DEFINE top == Slot(file.last_up)
                 gone == IF proc[p].wrote[a] > trace.lost[a] THEN proc[p].wrote[a] ELSE trace.lost[a]
                 from == top - RowCnt + gone
      <4>1. Shown(file.rows[a], file.cur[a], top, from, trace.since, top)
        BY <2>1, <2>7 DEF FileSound, FileRows
      <4>2. top \in Int /\ from \in Int
        <5>1. RowCnt \in Nat /\ trace.lost[a] \in Nat /\ proc[p].wrote[a] \in Nat /\ top \in Nat
          BY <1>0, ViewTyped
        <5> QED BY <5>1
      <4>3. /\ file' = file /\ q.wrote[a] = proc[p].wrote[a] /\ trace'.lost[a] = trace.lost[a]
        BY <1>1, <1>5, <2>7
      <4> HIDE DEF top, from
      <4>4. Shown(file.rows[a], file.cur[a], top, from, trace'.since, top)
        BY <1>5, <4>1, <4>2, ShownLess
      <4> QED BY <4>3, <4>4 DEF FileRows, q, top, from
    <3> QED BY <3>1, <3>2 DEF FileSound
  <2> QED BY <2>5, <2>6, <2>7 DEF ViewSound
<1> QED BY <1>1, <1>2, <1>3, <1>4, RowsByHolder

(* The row pointer moves: the row it reaches is that of the oldest step.   *)
LEMMA RowsAdvance ==
    ASSUME AccessInv, AccessInv', ~trace.tainted, RowsInv, NEW p \in Procs, Advance(p)
    PROVE  RowsInv'
<1> DEFINE h == HeadOf(p)
           g == HeadOf(p)'
           q == proc'[p]
           b == proc[p].arch
<1>0. /\ TypeOK /\ Exclusive /\ WorkSound(p) /\ HeadSound(p) /\ proc[p] \in UpdaterStates
      /\ proc[p].pc = "row" /\ b \in Archives /\ h.cur \in [Archives -> Rows]
      /\ trace \in Traces
  BY HeadTyped DEF AccessInv, TypeOK, WorkSound, Advance
<1>1. /\ StepOf(p) /\ q.pc = "write" /\ q.arch = b /\ q.left = proc[p].left
      /\ q.steps = proc[p].steps /\ q.wrote = proc[p].wrote /\ q.sound = proc[p].sound
      /\ g.last_up = h.last_up /\ g.prep = h.prep
      /\ g.cur = [h.cur EXCEPT ![b] = (@ + 1) % RowCnt]
      /\ file'.last_up = file.last_up /\ file'.prep = file.prep /\ file'.rows = file.rows
      /\ build = "copy" => file' = file
      /\ trace' = [trace EXCEPT !.newest[b] = IF build = "copy" THEN @ ELSE @ + 1]
  BY <1>0, AdvanceIs
<1>2. proc[p].pc \in Holding /\ proc[p].pc \in Working /\ q.pc \in Holding /\ q.pc \in Working
  BY <1>0, <1>1 DEF Holding, Working
<1>3. \A r \in Procs \ {p} : proc[r].pc \notin Holding
  BY <1>0, <1>2, Alone
<1>4. trace'.broken = trace.broken /\ trace'.since = trace.since /\ trace'.lost = trace.lost
  BY <1>0, <1>1 DEF Traces
<1>5. ASSUME ~trace'.broken PROVE ViewSound(p)' /\ (build = "copy" => FileSound(proc[p].wrote)')
  <2>1. ViewSound(p) /\ (build = "copy" => FileSound(proc[p].wrote))
    BY <1>0, <1>2, <1>4, <1>5 DEF RowsInv
  <2> HIDE DEF h, g, q
  <2>2. ViewPrep(p)'
    <3>1. /\ proc[p].sound \/ trace.since > Slot(h.last_up)
          /\ h.prep.sound \/ trace.since > Slot(h.last_up) + proc[p].steps
      BY <1>2, <2>1 DEF ViewSound, ViewPrep, h
    <3>2. /\ q.sound \/ trace'.since > Slot(g.last_up)
          /\ g.prep.sound \/ trace'.since > Slot(g.last_up) + q.steps
      BY <1>1, <1>4, <3>1
    <3> QED BY <1>2, <3>2 DEF ViewPrep, g, q, Slot
  <2>3. ASSUME NEW a \in Archives PROVE ViewRows(p, a)'
    <3> DEFINE top == Slot(h.last_up) + Written(proc[p], a)
               from == top - RowCnt + trace.lost[a] - proc[p].wrote[a]
    <3>1. Written(q, a) = Written(proc[p], a) /\ Pending(proc[p], a) = 0
          /\ Pending(q, a) = IF a = b THEN 1 ELSE 0
      BY <1>0, <1>1 DEF Written, Pending
    <3>2. top \in Int /\ from \in Int /\ trace.since \in Int /\ h.cur[a] \in Rows
      BY <1>0, ViewTyped DEF h
    <3>3. Shown(file.rows[a], h.cur[a], top + 0, from, trace.since, top)
      BY <2>1, <3>1 DEF ViewSound, ViewRows, h
    <3>4. /\ Slot(g.last_up) + Written(q, a) = top
          /\ top - RowCnt + trace'.lost[a] - q.wrote[a] = from
      BY <1>1, <1>4, <3>1
    <3> HIDE DEF top, from
    <3>5. Shown(file'.rows[a], g.cur[a], top + Pending(q, a), from, trace'.since, top)
      <4>0. Shown(file.rows[a], h.cur[a], top, from, trace.since, top)
        <5>1. top + 0 = top
          BY <3>2
        <5> QED BY <3>3, <5>1
      <4>1. CASE a = b
        <5>1. g.cur[a] = (h.cur[a] + 1) % RowCnt
          BY <1>0, <1>1, <4>1
        <5>2. Shown(file.rows[a], (h.cur[a] + 1) % RowCnt, top + 1, from, trace.since, top)
          BY <3>2, <4>0, ShownAdvance
        <5> QED BY <1>1, <1>4, <3>1, <4>1, <5>1, <5>2
      <4>2. CASE a # b
        <5>1. g.cur[a] = h.cur[a] /\ Pending(q, a) = 0
          BY <1>0, <1>1, <3>1, <4>2
        <5> QED BY <1>1, <1>4, <3>3, <5>1
      <4> QED BY <4>1, <4>2
    <3> QED BY <3>4, <3>5 DEF ViewRows, g, q, Slot
  <2>4. build = "copy" => FileSound(proc[p].wrote)'
    BY <1>1, <1>4, <2>1 DEF FileSound, FileRows, q
  <2> QED BY <2>2, <2>3, <2>4 DEF ViewSound
<1> QED BY <1>1, <1>2, <1>3, <1>5, RowsByHolder


(* What is written of each archive after a row.                            *)
LEMMA WrittenNext ==
    ASSUME NEW p \in Procs, WorkSound(p), proc[p] \in UpdaterStates, proc[p].pc = "write",
           proc'[p].pc \in {"row", "stamp"}, proc'[p].steps = proc[p].steps,
           proc'[p].arch = (IF proc[p].left = 1 THEN proc[p].arch + 1 ELSE proc[p].arch),
           proc'[p].left = (IF proc[p].left = 1 THEN proc[p].steps ELSE proc[p].left - 1),
           NEW a \in Archives
    PROVE  /\ Pending(proc'[p], a) = 0
           /\ Pending(proc[p], a) = IF a = proc[p].arch THEN 1 ELSE 0
           /\ a = proc[p].arch => /\ Written(proc'[p], a) = Written(proc[p], a) + 1
                                  /\ Written(proc[p], a) = proc[p].steps - proc[p].left
           /\ a # proc[p].arch => Written(proc'[p], a) = Written(proc[p], a)
<1>1. /\ proc[p].left \in 1 .. proc[p].steps /\ proc[p].steps \in Nat /\ proc[p].left \in Nat
      /\ proc[p].arch \in Archives
  BY DEF WorkSound, UpdaterStates
<1>2. a \in Nat /\ proc[p].arch \in Nat
  BY <1>1, AccessAssumption
<1> QED BY <1>1, <1>2 DEF Written, Pending

(* A row is written: for the process it is that of the next step; for who  *)
(* reads the header in the file (without mmap) it was that of an old one.  *)
LEMMA RowsWriteRow ==
    ASSUME AccessInv, AccessInv', ~trace.tainted, RowsInv, NEW p \in Procs, WriteRow(p)
    PROVE  RowsInv'
<1> DEFINE h == HeadOf(p)
           g == HeadOf(p)'
           q == proc'[p]
           b == proc[p].arch
           k == proc[p].steps - proc[p].left + 1
           v == RowValue(p)
<1>0. /\ TypeOK /\ Exclusive /\ WorkSound(p) /\ HeadSound(p) /\ proc[p] \in UpdaterStates
      /\ proc[p].pc = "write" /\ b \in Archives /\ h.cur \in [Archives -> Rows]
      /\ proc[p].left \in 1 .. proc[p].steps /\ proc[p].steps \in Nat
  BY HeadTyped DEF AccessInv, TypeOK, WorkSound, WriteRow, UpdaterStates
<1>1. /\ StepOf(p) /\ trace' = trace
      /\ q.pc \in {"row", "stamp"} /\ q.steps = proc[p].steps
      /\ q.arch = (IF proc[p].left = 1 THEN b + 1 ELSE b)
      /\ q.left = (IF proc[p].left = 1 THEN proc[p].steps ELSE proc[p].left - 1)
      /\ q.wrote = [proc[p].wrote EXCEPT ![b] = IF build = "copy" THEN @ + 1 ELSE @]
      /\ q.sound = proc[p].sound /\ g = h
      /\ file'.last_up = file.last_up /\ file'.prep = file.prep /\ file'.cur = file.cur
      /\ file'.rows = [file.rows EXCEPT ![b] = [@ EXCEPT ![h.cur[b]] = v]]
  BY <1>0, WriteRowIs
<1>2. proc[p].pc \in Holding /\ proc[p].pc \in Working /\ q.pc \in Holding /\ q.pc \in Working
  BY <1>0, <1>1 DEF Holding, Working
<1>3. \A r \in Procs \ {p} : proc[r].pc \notin Holding
  BY <1>0, <1>2, Alone
<1>4. \A a \in Archives : a # b => file'.rows[a] = file.rows[a] /\ q.wrote[a] = proc[p].wrote[a]
  BY <1>0, <1>1 DEF TypeOK, Files, UpdaterStates
<1>5. /\ file'.rows[b] = [file.rows[b] EXCEPT ![h.cur[b]] = v]
      /\ q.wrote[b] = IF build = "copy" THEN proc[p].wrote[b] + 1 ELSE proc[p].wrote[b]
  BY <1>0, <1>1 DEF TypeOK, Files, UpdaterStates
<1>6. ASSUME ~trace'.broken PROVE ViewSound(p)' /\ (build = "copy" => FileSound(proc[p].wrote)')
  <2>1. ViewSound(p) /\ (build = "copy" => FileSound(proc[p].wrote))
    BY <1>0, <1>1, <1>2, <1>6 DEF RowsInv
  <2>2. /\ proc[p].sound \/ trace.since > Slot(h.last_up)
        /\ h.prep.sound \/ trace.since > Slot(h.last_up) + proc[p].steps
    BY <1>2, <2>1 DEF ViewSound, ViewPrep, h
  <2>3. v = Slot(h.last_up) + k \/ Slot(h.last_up) + k <= trace.since
    <3> DEFINE s == Slot(h.last_up)
    <3>1. s \in Nat /\ trace.since \in Nat
      BY <1>0, ViewTyped
    <3>2. v = IF IF k = 1 THEN proc[p].sound ELSE h.prep.sound THEN s + k ELSE 0
      BY DEF RowValue
    <3> HIDE DEF v, s, h
    <3>3. CASE k = 1
      BY <1>0, <2>2, <3>1, <3>2, <3>3 DEF s
    <3>4. CASE k # 1
      <4>1. h.prep.sound \/ s + k <= trace.since
        BY <1>0, <2>2, <3>1 DEF s
      <4> QED BY <3>2, <3>4, <4>1 DEF s
    <3> QED BY <3>3, <3>4
  <2> HIDE DEF h, g, q, v
  <2>4. ViewPrep(p)'
    <3>1. /\ q.sound \/ trace'.since > Slot(g.last_up)
          /\ g.prep.sound \/ trace'.since > Slot(g.last_up) + q.steps
      BY <1>1, <2>2
    <3> QED BY <1>2, <3>1 DEF ViewPrep, g, q, Slot
  <2>5. ASSUME NEW a \in Archives PROVE ViewRows(p, a)'
    <3> DEFINE top == Slot(h.last_up) + Written(proc[p], a)
               from == top - RowCnt + trace.lost[a] - proc[p].wrote[a]
    <3>1. /\ Pending(q, a) = 0 /\ Pending(proc[p], a) = IF a = b THEN 1 ELSE 0
          /\ a = b => Written(q, a) = Written(proc[p], a) + 1
                      /\ Written(proc[p], a) = proc[p].steps - proc[p].left
          /\ a # b => Written(q, a) = Written(proc[p], a)
      BY <1>0, <1>1, WrittenNext DEF q
    <3>2. /\ Slot(h.last_up) \in Nat /\ Written(proc[p], a) \in Int /\ RowCnt \in Nat
          /\ trace.lost[a] \in Nat /\ proc[p].wrote[a] \in Nat /\ trace.since \in Int
          /\ h.cur[a] \in Rows /\ file.rows[a] \in [Rows -> Nat]
      BY <1>0, ViewTyped DEF h
    <3>3. top \in Int /\ from \in Int
      BY <3>2
    <3>4. Shown(file.rows[a], h.cur[a], top + Pending(proc[p], a), from, trace.since, top)
      BY <2>1 DEF ViewSound, ViewRows, h
    <3>5. CASE a = b
      <4> DEFINE new == top + 1
                 from2 == new - RowCnt + trace.lost[a] - q.wrote[a]
      <4>1. new = Slot(h.last_up) + k /\ new \in Int /\ new - 1 = top
        BY <1>0, <3>1, <3>2, <3>3, <3>5
      <4>2. from2 \in Int /\ from <= from2
        BY <1>5, <3>2, <3>3, <3>5
      <4>3. Slot(g.last_up) + Written(q, a) = new
        BY <1>1, <3>1, <3>2, <3>5
      <4>4. Shown(file.rows[a], h.cur[a], new, from, trace.since, new - 1)
        BY <3>1, <3>4, <3>5, <4>1
      <4> HIDE DEF top, from, new, from2
      <4>5. Shown([file.rows[a] EXCEPT ![h.cur[a]] = v], h.cur[a], new, from, trace.since, new)
        BY <2>3, <3>2, <3>3, <4>1, <4>4, ShownWrite
      <4>6. Shown([file.rows[a] EXCEPT ![h.cur[a]] = v], h.cur[a], new, from2, trace.since, new)
        BY <3>2, <3>3, <4>1, <4>2, <4>5, ShownLess
      <4>7. new + 0 = new
        BY <4>1
      <4>8. Shown(file'.rows[a], g.cur[a], new + Pending(q, a), from2, trace'.since, new)
        BY <1>1, <1>5, <3>1, <3>5, <4>6, <4>7
      <4> QED BY <1>1, <4>3, <4>8 DEF ViewRows, g, q, Slot, from2
    <3>6. CASE a # b
      <4>1. /\ Slot(g.last_up) + Written(q, a) = top
            /\ top - RowCnt + trace'.lost[a] - q.wrote[a] = from
        BY <1>1, <1>4, <3>1, <3>6
      <4> HIDE DEF top, from
      <4>2. /\ file'.rows[a] = file.rows[a] /\ g.cur[a] = h.cur[a] /\ trace'.since = trace.since
            /\ Pending(q, a) = Pending(proc[p], a)
        BY <1>1, <1>4, <3>1, <3>6
      <4>3. Shown(file'.rows[a], g.cur[a], top + Pending(q, a), from, trace'.since, top)
        BY <3>4, <4>2
      <4> QED BY <4>1, <4>3 DEF ViewRows, g, q, Slot
    <3> QED BY <3>5, <3>6
  <2>6. ASSUME build = "copy", NEW a \in Archives PROVE FileRows(proc[p].wrote[a], a)'
    <3> DEFINE top == Slot(file.last_up)
               gone == IF proc[p].wrote[a] > trace.lost[a] THEN proc[p].wrote[a] ELSE trace.lost[a]
               from == top - RowCnt + gone
               w == proc[p].wrote[a]
    <3>1. Shown(file.rows[a], file.cur[a], top, from, trace.since, top)
      BY <2>1, <2>6 DEF FileSound, FileRows
    <3>2. CASE a = b
      <4> DEFINE gone2 == IF q.wrote[a] > trace.lost[a] THEN q.wrote[a] ELSE trace.lost[a]
                 from2 == top - RowCnt + gone2
                 c == file.cur[a]
      <4>1. /\ w \in Nat /\ top \in Nat /\ c \in Rows /\ trace.lost[a] \in Nat
            /\ trace.since \in Int /\ file.rows[a] \in [Rows -> Nat] /\ RowCnt \in Nat \ {0}
        BY <1>0, ViewTyped
      <4>2. q.wrote[a] = w + 1
        BY <1>5, <2>6, <3>2
      <4>3. /\ from \in Int /\ from2 \in Int /\ from <= from2
            /\ from2 >= top - RowCnt + w + 1
        BY <4>1, <4>2
      <4>4. h.cur[a] = (c + w + 1) % RowCnt
        <5>1. Pending(proc[p], a) = 1
          BY <1>0, <3>2 DEF Pending
        <5>2. h.cur[a] = (c + w + Pending(proc[p], a)) % RowCnt
          BY <1>0, <1>2, <2>6 DEF HeadSound, h, HeadOf
        <5> QED BY <5>1, <5>2
      <4> HIDE DEF top, from, from2, w, gone, c
      <4>5. Shown(file.rows[a], c, top, from2, trace.since, top)
        BY <3>1, <4>1, <4>3, ShownLess DEF c
      <4>6. Shown([file.rows[a] EXCEPT ![h.cur[a]] = v], c, top, from2, trace.since, top)
        <5> DEFINE r == file.rows[a]
                   z == h.cur[a]
                   since == trace.since
        <5>1. /\ r \in [Rows -> Nat] /\ c \in Rows /\ top \in Int /\ from2 \in Int
              /\ since \in Int /\ w \in Nat /\ from2 >= top - RowCnt + w + 1
              /\ z = (c + w + 1) % RowCnt /\ Shown(r, c, top, from2, since, top)
          BY <4>1, <4>3, <4>4, <4>5
        <5> HIDE DEF r, z, since
        <5>2. Shown([r EXCEPT ![z] = v], c, top, from2, since, top)
          BY <5>1, ShownOver, Zenon
        <5> QED BY <5>2 DEF r, z, since
      <4>7. Shown(file'.rows[a], file'.cur[a], top, from2, trace'.since, top)
        BY <1>1, <1>5, <3>2, <4>6 DEF c
      <4> QED BY <1>1, <4>7 DEF FileRows, q, top, from2, Slot
    <3>3. CASE a # b
      BY <1>1, <1>4, <3>1, <3>3 DEF FileRows, q, Slot
    <3> QED BY <3>2, <3>3
  <2>7. PrepSound(file.last_up, file.prep, trace.since)' \/ build # "copy"
    BY <1>1, <2>1 DEF FileSound
  <2> QED BY <2>4, <2>5, <2>6, <2>7 DEF ViewSound, FileSound
<1> QED BY <1>1, <1>2, <1>3, <1>6, RowsByHolder


(* Nothing is shown of steps after the last one.                           *)
LEMMA ShownNothing ==
    ASSUME NEW r, NEW c, NEW top, NEW from, NEW since \in Int, NEW last \in Int, since >= last
    PROVE  Shown(r, c, top, from, since, last)
BY DEF Shown

(* last_up moves to the step whose rows have been written.                 *)
LEMMA RowsStamp ==
    ASSUME AccessInv, AccessInv', ~trace.tainted, RowsInv, NEW p \in Procs, Stamp(p)
    PROVE  RowsInv'
<1> DEFINE h == HeadOf(p)
           g == HeadOf(p)'
           q == proc'[p]
           t == proc[p].t
<1>0. /\ TypeOK /\ TypeOK' /\ Exclusive /\ WorkSound(p) /\ HeadSound(p)
      /\ proc[p] \in UpdaterStates /\ trace \in Traces
      /\ proc[p].pc = "stamp" /\ h.last_up \in Nat /\ t \in Nat /\ proc[p].steps \in Nat
  BY HeadTyped DEF AccessInv, TypeOK, Stamp, Stampable, UpdaterStates
<1>1. /\ StepOf(p) /\ q.pc = "ready" /\ q.wrote = proc[p].wrote
      /\ q.steps = 0 /\ q.left = 0 /\ q.arch = 1
      /\ g.last_up = t /\ g.prep = h.prep /\ g.cur = h.cur
      /\ file'.rows = file.rows
      /\ build = "copy" => file' = file /\ trace' = trace
      /\ build # "copy" => /\ file'.last_up = t
                           /\ trace' = Settled(trace, file', NoneWritten)
  BY <1>0, StampIs
<1>2. proc[p].pc \in Holding /\ proc[p].pc \in Working /\ q.pc \in Holding /\ q.pc \notin Working
  BY <1>0, <1>1 DEF Holding, Working
<1>3. \A r \in Procs \ {p} : proc[r].pc \notin Holding
  BY <1>0, <1>2, Alone
<1>4. /\ Slot(t) = Slot(h.last_up) + proc[p].steps /\ h.prep.time = t
      /\ Slot(t) \in Nat /\ Slot(h.last_up) \in Nat
  BY <1>0, SlotNat DEF WorkSound, Working
<1>5. /\ build # "copy" /\ trace.broken => trace'.since = Slot(t) + 1
      /\ ~trace.broken => /\ trace'.since = trace.since
                          /\ \A a \in Archives : trace'.lost[a] = trace.lost[a]
      /\ build = "copy" => trace'.broken = trace.broken
  <2>1. CASE build = "copy"
    BY <1>1, <2>1
  <2>2. CASE build # "copy"
    <3>1. NoneWritten \in [Archives -> Nat] /\ file' \in Files
          /\ \A a \in Archives : NoneWritten[a] = 0
      BY <1>0, IdleTyped DEF TypeOK
    <3>2. /\ trace'.since = (IF trace.broken THEN Slot(file'.last_up) + 1 ELSE trace.since)
          /\ \A a \in Archives : trace'.lost[a] =
                 IF trace.lost[a] > NoneWritten[a] THEN trace.lost[a] - NoneWritten[a] ELSE 0
      BY <1>0, <1>1, <2>2, <3>1, SettledIs
    <3>3. \A a \in Archives : trace.lost[a] \in Nat
      BY <1>0 DEF Traces
    <3> QED BY <1>1, <2>2, <3>1, <3>2, <3>3
  <2> QED BY <2>1, <2>2
<1> HIDE DEF h, g, q, t
<1>6. ASSUME NEW a \in Archives PROVE Written(q, a) = 0 /\ Pending(q, a) = 0
  <2>1. a \in Nat \ {0}
    BY AccessAssumption
  <2> QED BY <1>1, <2>1 DEF Written, Pending
<1>7. ASSUME ~trace'.broken PROVE ViewSound(p)' /\ (build = "copy" => FileSound(proc[p].wrote)')
  <2>1. CASE trace.broken
    <3>1. build # "copy" /\ trace'.since = Slot(t) + 1
      BY <1>5, <1>7, <2>1
    <3>2. ViewPrep(p)'
      <4>1. PrepSound(g.last_up, g.prep, trace'.since)
        BY <1>1, <1>4, <3>1 DEF PrepSound
      <4> QED BY <1>2, <4>1 DEF ViewPrep, PrepSound, g, q, Slot
    <3>3. ASSUME NEW a \in Archives PROVE ViewRows(p, a)'
      <4> DEFINE top == Slot(g.last_up) + Written(q, a)
      <4>1. top \in Int /\ trace'.since \in Int /\ trace'.since >= top
        BY <1>1, <1>4, <1>6, <3>1
      <4> HIDE DEF top
      <4>2. Shown(file'.rows[a], g.cur[a], top + Pending(q, a),
                  top - RowCnt + trace'.lost[a] - q.wrote[a], trace'.since, top)
        BY <4>1, ShownNothing
      <4> QED BY <4>2 DEF ViewRows, g, q, Slot, top
    <3> QED BY <3>1, <3>2, <3>3 DEF ViewSound
  <2>2. CASE ~trace.broken
    <3>1. ViewSound(p) /\ (build = "copy" => FileSound(proc[p].wrote))
      BY <1>0, <1>2, <2>2 DEF RowsInv
    <3>2. ViewPrep(p)'
      <4>1. h.prep.sound \/ trace.since > Slot(h.last_up) + proc[p].steps
        BY <1>2, <3>1 DEF ViewSound, ViewPrep, h
      <4>2. PrepSound(g.last_up, g.prep, trace'.since)
        BY <1>1, <1>4, <1>5, <2>2, <4>1 DEF PrepSound
      <4> QED BY <1>2, <4>2 DEF ViewPrep, PrepSound, g, q, Slot
    <3>3. ASSUME NEW a \in Archives PROVE ViewRows(p, a)'
      <4> DEFINE top == Slot(h.last_up) + Written(proc[p], a)
                 from == top - RowCnt + trace.lost[a] - proc[p].wrote[a]
      <4>1. Shown(file.rows[a], h.cur[a], top + Pending(proc[p], a), from, trace.since, top)
        BY <3>1 DEF ViewSound, ViewRows, h
      <4>2. Written(proc[p], a) = proc[p].steps /\ Pending(proc[p], a) = 0
        BY <1>0 DEF WorkSound, Pending
      <4>3. Slot(g.last_up) + Written(q, a) = top
        BY <1>1, <1>4, <1>6, <4>2
      <4>4. top - RowCnt + trace'.lost[a] - q.wrote[a] = from
        BY <1>1, <1>5, <2>2
      <4> HIDE DEF top, from
      <4>5. Shown(file'.rows[a], g.cur[a], top + Pending(q, a), from, trace'.since, top)
        BY <1>1, <1>5, <1>6, <2>2, <4>1, <4>2
      <4> QED BY <4>3, <4>4, <4>5 DEF ViewRows, g, q, Slot
    <3>4. build = "copy" => FileSound(proc[p].wrote)'
      BY <1>1, <3>1 DEF FileSound, FileRows, q
    <3> QED BY <3>2, <3>3, <3>4 DEF ViewSound
  <2> QED BY <2>1, <2>2
<1> QED BY <1>1, <1>2, <1>3, <1>7, RowsByHolder DEF q

(* The header is written, field by field.                                  *)
LEMMA RowsWriteHeader ==
    ASSUME AccessInv, AccessInv', ~trace.tainted, RowsInv, NEW p \in Procs, WriteHeader(p)
    PROVE  RowsInv'
<1> DEFINE h == proc[p].head
           q == proc'[p]
<1>0. /\ TypeOK /\ TypeOK' /\ Exclusive /\ WorkSound(p) /\ HeadSound(p)
      /\ proc[p] \in UpdaterStates /\ trace \in Traces
      /\ proc[p].pc \in {"last_up", "prep", "cur"} /\ h.last_up \in Nat
      /\ proc[p].wrote \in [Archives -> Nat]
  BY DEF AccessInv, TypeOK, WriteHeader, UpdaterStates, Heads
<1>1. /\ StepOf(p) /\ file'.rows = file.rows
      /\ q.wrote = proc[p].wrote /\ q.head = h
      /\ q.steps = proc[p].steps /\ q.left = proc[p].left /\ q.arch = proc[p].arch
      /\ \/ /\ proc[p].pc = "last_up" /\ q.pc = "prep" /\ trace' = trace
         \/ /\ proc[p].pc = "prep" /\ q.pc = "cur" /\ trace' = trace
         \/ /\ proc[p].pc = "cur" /\ q.pc = "close"
            /\ file'.last_up = file.last_up /\ file'.prep = file.prep /\ file'.cur = h.cur
            /\ trace' = [Settled(trace, file', proc[p].wrote) EXCEPT
                           !.newest = [a \in Archives |-> @[a] + proc[p].wrote[a]]]
  BY <1>0, WriteHeaderIs
<1>2. build' = build /\ build = "copy" /\ proc[p].n > 0
  BY <1>0, <1>1 DEF StepOf, HeadSound, Holding
<1>3. proc[p].pc \in Holding \ Working
  BY <1>0 DEF Holding, Working
<1>4. \A r \in Procs \ {p} : proc[r].pc \notin Holding
  BY <1>0, <1>3, Alone
<1>5. /\ HeadOf(p).last_up = h.last_up /\ HeadOf(p).prep = h.prep /\ HeadOf(p).cur = h.cur
      /\ h.prep.time = h.last_up
  BY <1>2, <1>0, <1>3 DEF HeadOf, WorkSound
<1>6. CASE q.pc \in {"prep", "cur"}
  <2>1. trace' = trace
    BY <1>1, <1>6
  <2>2. /\ HeadOf(p)'.last_up = h.last_up /\ HeadOf(p)'.prep = h.prep /\ HeadOf(p)'.cur = h.cur
    BY <1>1, <1>2 DEF HeadOf
  <2>3. ASSUME ~trace'.broken PROVE ViewSound(p)'
    <3>1. ViewSound(p)
      BY <1>3, <2>1, <2>3 DEF RowsInv
    <3>2. ViewPrep(p)'
      BY <1>3, <1>5, <1>6, <2>1, <2>2, <3>1 DEF ViewSound, ViewPrep, PrepSound, Working, Slot
    <3>3. ASSUME NEW a \in Archives PROVE ViewRows(p, a)'
      <4>1. Written(proc[p], a)' = Written(proc[p], a) /\ Pending(proc[p], a)' = Pending(proc[p], a)
        BY <1>0, <1>1, <1>6 DEF Written, Pending
      <4>2. ViewRows(p, a)
        BY <3>1 DEF ViewSound
      <4>3. Slot(HeadOf(p).last_up)' = Slot(HeadOf(p).last_up) /\ HeadOf(p)'.cur = HeadOf(p).cur
        BY <1>5, <2>2 DEF Slot
      <4> QED BY <1>1, <2>1, <4>1, <4>2, <4>3 DEF ViewRows
    <3> QED BY <3>2, <3>3 DEF ViewSound
  <2>4. q.pc \in Holding
    BY <1>6 DEF Holding
  <2> QED BY <1>1, <1>4, <1>6, <2>3, <2>4, RowsByHolder
<1>7. CASE /\ proc[p].pc = "cur" /\ q.pc = "close"
           /\ file'.last_up = file.last_up /\ file'.prep = file.prep /\ file'.cur = h.cur
           /\ trace' = [Settled(trace, file', proc[p].wrote) EXCEPT
                           !.newest = [a \in Archives |-> @[a] + proc[p].wrote[a]]]
  <2>1. /\ trace'.since = (IF trace.broken THEN Slot(file'.last_up) + 1 ELSE trace.since)
        /\ \A a \in Archives : trace'.lost[a] =
             IF trace.lost[a] > proc[p].wrote[a] THEN trace.lost[a] - proc[p].wrote[a] ELSE 0
    <3> DEFINE tr == Settled(trace, file', proc[p].wrote)
               new == [a \in Archives |-> tr.newest[a] + proc[p].wrote[a]]
    <3>1. /\ tr \in Traces
          /\ tr.since = (IF trace.broken THEN Slot(file'.last_up) + 1 ELSE trace.since)
          /\ \A a \in Archives : tr.lost[a] =
               IF trace.lost[a] > proc[p].wrote[a] THEN trace.lost[a] - proc[p].wrote[a] ELSE 0
      BY <1>0, SettledIs DEF TypeOK
    <3> HIDE DEF tr
    <3>2. trace' = [tr EXCEPT !.newest = new]
      BY <1>7, <3>1 DEF Traces, tr
    <3> HIDE DEF new
    <3>3. trace'.since = tr.since /\ trace'.lost = tr.lost
      BY <3>1, <3>2 DEF Traces
    <3> QED BY <3>1, <3>3
  <2>2. h.last_up = file.last_up /\ h.prep = file.prep
    BY <1>0, <1>2, <1>3, <1>7 DEF HeadSound
  <2>3. Slot(file.last_up) \in Nat /\ Slot(file'.last_up) = Slot(file.last_up)
    BY <1>0, <1>7, <2>2, SlotNat
  <2>4. FileSound(NoneWritten)'
    <3>1. CASE trace.broken
      <4>1. trace'.since = Slot(file.last_up) + 1
        BY <2>1, <2>3, <3>1
      <4>2. PrepSound(file.last_up, file.prep, trace.since)'
        BY <1>5, <1>7, <2>2, <2>3, <4>1 DEF PrepSound, Slot
      <4>3. ASSUME NEW a \in Archives PROVE FileRows(NoneWritten[a], a)'
        <5> DEFINE top == Slot(file.last_up)
        <5>1. top \in Int /\ trace'.since \in Int /\ trace'.since >= top
          BY <2>3, <4>1
        <5> HIDE DEF top
        <5>2. \A from : Shown(file'.rows[a], file'.cur[a], top, from, trace'.since, top)
          BY <5>1, ShownNothing
        <5> QED BY <1>7, <5>2 DEF FileRows, top, Slot
      <4> QED BY <4>2, <4>3 DEF FileSound
    <3>2. CASE ~trace.broken
      <4>1. ViewSound(p) /\ trace'.since = trace.since
        BY <1>3, <2>1, <3>2 DEF RowsInv
      <4>2. PrepSound(file.last_up, file.prep, trace.since)'
        <5>1. PrepSound(h.last_up, h.prep, trace.since)
          BY <1>3, <1>5, <4>1 DEF ViewSound, ViewPrep
        <5> QED BY <1>7, <2>2, <4>1, <5>1
      <4>3. ASSUME NEW a \in Archives PROVE FileRows(NoneWritten[a], a)'
        <5> DEFINE top == Slot(file.last_up)
                   lost == trace.lost[a]
                   w == proc[p].wrote[a]
                   lost2 == IF lost > w THEN lost - w ELSE 0
                   from == top - RowCnt + lost - w
                   from2 == top - RowCnt + lost2
        <5>1. Written(proc[p], a) = 0 /\ Pending(proc[p], a) = 0
          BY <1>0, <1>3, BetweenArguments
        <5>2. top \in Int /\ lost \in Nat /\ w \in Nat /\ RowCnt \in Nat /\ trace.since \in Int
          BY <1>0, ViewTyped
        <5>3. from \in Int /\ from2 \in Int /\ from <= from2 /\ top + 0 = top
          BY <5>2
        <5>4. Slot(HeadOf(p).last_up) = top
          BY <1>5, <2>2
        <5>5. ViewRows(p, a)
          BY <4>1 DEF ViewSound
        <5>6. trace'.lost[a] = lost2 /\ (IF NoneWritten[a] > lost2 THEN NoneWritten[a] ELSE lost2) = lost2
          BY <2>1, <5>2, IdleTyped
        <5> HIDE DEF top, lost, w, lost2
        <5>7. Shown(file.rows[a], h.cur[a], top, from, trace.since, top)
          BY <1>5, <5>1, <5>3, <5>4, <5>5 DEF ViewRows, lost, w
        <5> HIDE DEF from, from2
        <5>8. Shown(file.rows[a], h.cur[a], top, from2, trace.since, top)
          BY <5>2, <5>3, <5>7, ShownLess
        <5>9. Shown(file'.rows[a], file'.cur[a], top, from2, trace'.since, top)
          BY <1>1, <1>7, <4>1, <5>8
        <5>10. FileRows(NoneWritten[a], a)' =
                 Shown(file'.rows[a], file'.cur[a], Slot(file'.last_up), Slot(file'.last_up) - RowCnt
                  + (IF NoneWritten[a] > trace'.lost[a] THEN NoneWritten[a] ELSE trace'.lost[a]),
                  trace'.since, Slot(file'.last_up))
          BY DEF FileRows, NoneWritten, Slot
        <5> QED BY <2>3, <5>6, <5>9, <5>10 DEF top, from2
      <4> QED BY <4>2, <4>3 DEF FileSound
    <3> QED BY <3>1, <3>2
  <2>5. q.pc \notin Holding
    BY <1>7 DEF Holding, Working
  <2> QED BY <1>1, <1>4, <2>4, <2>5, RowsByHolder
<1> QED BY <1>1, <1>6, <1>7

(* A process opens or closes the file.                                     *)
LEMMA RowsIdleSteps ==
    ASSUME TypeOK, RowsInv, NEW p \in Procs, Open(p) \/ Close(p)
    PROVE  RowsInv'
<1>1. CASE Open(p)
  <2>1. /\ StepOf(p) /\ file' = file /\ trace' = trace
        /\ proc[p].pc = "idle" /\ proc'[p].pc = "opened"
    BY <1>1, OpenIs
  <2> QED BY <2>1, RowsBystander DEF Holding, Working
<1>2. CASE Close(p)
  <2>1. /\ StepOf(p) /\ file' = file /\ trace' = trace
        /\ proc[p].pc = "close" /\ proc'[p].pc = "idle"
    BY <1>2, CloseIs
  <2> QED BY <2>1, RowsBystander DEF Holding, Working
<1> QED BY <1>1, <1>2

(* Nothing that RowsInv speaks of changes.                                 *)
LEMMA RowsSame ==
    ASSUME RowsInv, UNCHANGED <<build, file, lock, proc, trace>>
    PROVE  RowsInv'
<1>1. Free' = Free
  BY DEF Free
<1>2. FileSound(NoneWritten)' = FileSound(NoneWritten)
  BY DEF FileSound, FileRows, NoneWritten
<1>3. ASSUME NEW p \in Procs
      PROVE  ViewSound(p)' = ViewSound(p) /\ FileSound(proc[p].wrote)' = FileSound(proc[p].wrote)
  <2>1. HeadOf(p)' = HeadOf(p)
    BY DEF HeadOf
  <2>2. ViewPrep(p)' = ViewPrep(p)
    BY <2>1 DEF ViewPrep
  <2>3. \A a \in Archives : ViewRows(p, a)' = ViewRows(p, a)
    BY <2>1 DEF ViewRows, Written, Pending
  <2>4. FileSound(proc[p].wrote)' = FileSound(proc[p].wrote)
    BY DEF FileSound, FileRows
  <2> QED BY <2>2, <2>3, <2>4 DEF ViewSound
<1> QED BY <1>1, <1>2, <1>3 DEF RowsInv

(* In a new file no row is claimed to hold anything.                       *)
LEMMA RowsInit ==
    ASSUME Init
    PROVE  RowsInv
<1>1. /\ file.last_up = 0 /\ file.prep.time = 0 /\ file.prep.sound /\ trace.since = 0
      /\ \A p \in Procs : proc[p].pc = "idle"
  BY DEF Init, Idle
<1>2. Slot(file.last_up) = 0
  BY <1>1 DEF Slot
<1>3. ASSUME NEW a \in Archives PROVE FileRows(NoneWritten[a], a)
  BY <1>1, <1>2 DEF FileRows, Shown
<1>4. FileSound(NoneWritten)
  BY <1>1, <1>3 DEF FileSound, PrepSound
<1> QED BY <1>1, <1>4 DEF RowsInv, Holding, Working

(* Every step keeps RowsInv.                                               *)
LEMMA RowsStep ==
    ASSUME AccessInv, AccessInv', RowsInv, [Next]_vars
    PROVE  RowsInv'
<1>0. TypeOK
  BY DEF AccessInv
<1>1. CASE UNCHANGED vars
  BY <1>1, RowsSame DEF vars
<1>2. CASE Next
  <2>0. ~trace.tainted
    BY <1>2 DEF Next
  <2>1. ASSUME NEW p \in Procs, Updater(p)
        PROVE  RowsInv'
    <3>1. \/ Open(p) \/ Close(p)
          \/ Lock(p) \/ BadArg(p) \/ Kill(p) \/ Advance(p) \/ WriteRow(p) \/ Stamp(p)
          \/ End(p) \/ WriteHeader(p) \/ \E t \in 1 .. MaxTime : Arg(p, t)
      BY <2>1 DEF Updater
    <3> QED BY <1>0, <2>0, <3>1, RowsIdleSteps, RowsLock, RowsAbort, RowsAdvance,
               RowsWriteRow, RowsStamp, RowsEnd, RowsWriteHeader, RowsArg
  <2>2. ASSUME ReaderStep PROVE RowsInv'
    BY <1>0, <2>2, ReaderTyped, RowsSame
  <2> QED BY <1>2, <2>1, <2>2 DEF Next, ReaderStep
<1> QED BY <1>1, <1>2

(* RowsInv is an invariant, together with AccessInv.                       *)
LEMMA RowsHolds == Spec => []RowsInv
<1>1. Init => RowsInv
  BY RowsInit
<1>2. AccessInv /\ AccessInv' /\ RowsInv /\ [Next]_vars => RowsInv'
  BY RowsStep
<1> QED BY <1>1, <1>2, AccessHolds, PTL DEF Spec

(* RowsInv is what is claimed of the archives, if nobody holds the lock.   *)
LEMMA RowsRight ==
    ASSUME AccessInv, RowsInv
    PROVE  ArchivesRight
<1> SUFFICES ASSUME lock = "none", ~trace.broken, ~trace.tainted,
                    NEW a \in Archives, NEW s \in Reliable(a)
             PROVE  file.rows[a][(file.cur[a] - (Slot(file.last_up) - s)) % RowCnt] = s
  BY DEF ArchivesRight
<1>1. Free
  BY AccessAssumption DEF AccessInv, Exclusive, Free
<1>2. FileRows(NoneWritten[a], a)
  BY <1>1 DEF RowsInv, FileSound
<1> DEFINE top == Slot(file.last_up)
<1>3. top \in Nat /\ trace.lost[a] \in Nat /\ trace.since \in Nat /\ RowCnt \in Nat
      /\ NoneWritten[a] = 0
  <2>1. file.last_up \in Nat /\ trace.lost[a] \in Nat /\ trace.since \in Nat
    BY DEF AccessInv, TypeOK, Files, Traces
  <2>2. top \in Nat
    BY <2>1, SlotNat
  <2> QED BY <2>1, <2>2, IdleTyped, AccessAssumption
<1>4. Shown(file.rows[a], file.cur[a], top, top - RowCnt + trace.lost[a], trace.since, top)
  BY <1>2, <1>3 DEF FileRows
<1>5. s \in (IF top - RowCnt + 1 + trace.lost[a] > trace.since
             THEN top - RowCnt + 1 + trace.lost[a] ELSE trace.since + 1) .. top
  BY DEF Reliable
<1> HIDE DEF top
<1>6. /\ s \in Int /\ top - RowCnt + trace.lost[a] < s /\ trace.since < s /\ s <= top
      /\ top - s < RowCnt
  BY <1>3, <1>5
<1>7. file.rows[a][(file.cur[a] - (top - s)) % RowCnt] = s
  BY <1>4, <1>6 DEF Shown
<1> QED BY <1>7 DEF top

(* Whenever nobody holds the lock every archive shows each step it covers  *)
(* at the place where a fetch looks for it, for any number of processes,   *)
(* archives and rows, in every build: after an update that was killed, or  *)
(* refused after it had changed the last readings of a mapped file, for    *)
(* the steps after the next one, and but for as many of the oldest rows as *)
(* an update wrote before it failed without writing its header             *)
(* (update_pdp_prep, write_to_rras, process_arg, write_changes_to_disk).   *)
THEOREM AccessArchivesRight == Spec => []ArchivesRight
<1>1. AccessInv /\ RowsInv => ArchivesRight
  BY RowsRight
<1> QED BY <1>1, AccessHolds, RowsHolds, PTL


-----------------------------------------------------------------------------
(* The places of the rows, and what a reader gets                          *)

(* What was spoiled stays so: the last readings of a killed update are     *)
(* never used again, or the rows after them are known to be off.           *)
LEMMA SpoiledStays ==
    ASSUME TypeOK, ~trace.tainted, NEW p \in Procs, Updater(p), WorkSound(p)
    PROVE  /\ Unspoiled' => Unspoiled
           /\ trace'.since = 0 => trace.since = 0
<1>0. trace \in Traces /\ trace.since \in Nat
  BY DEF TypeOK, Traces
<1>1. CASE Open(p) \/ Close(p) \/ End(p) \/ WriteRow(p)
  <2>1. trace' = trace
    BY <1>1 DEF Open, Close, End, WriteRow
  <2> QED BY <2>1 DEF Unspoiled
<1>7. CASE \E t \in 1 .. MaxTime : Arg(p, t)
  <2>1. PICK t \in 1 .. MaxTime : Arg(p, t)
    BY <1>7
  <2>2. ArgTrace(p, t)
    BY <2>1, ArgIs
  <2>3. /\ trace'.since \in Nat /\ trace'.since >= trace.since
        /\ trace'.broken = trace.broken /\ trace'.tainted = trace.tainted
    BY <2>2 DEF ArgTrace, Traces
  <2> QED BY <1>0, <2>3 DEF Unspoiled
<1>2. CASE Lock(p)
  <2>1. trace'.broken = trace.broken /\ trace'.since = trace.since
    BY <1>0, <1>2 DEF Lock, Traces
  <2> QED BY <2>1 DEF Unspoiled
<1>3. CASE BadArg(p) \/ Kill(p)
  <2>1. trace'.since = trace.since /\ (trace.broken => trace'.broken)
    BY <1>3, LostIs
  <2> QED BY <2>1 DEF Unspoiled
<1>4. CASE Advance(p)
  <2>1. trace'.broken = trace.broken /\ trace'.since = trace.since
    BY <1>0, <1>4 DEF Advance, Traces
  <2> QED BY <2>1 DEF Unspoiled
<1>5. CASE Stamp(p)
  <2>1. build = "copy" => trace' = trace
    BY <1>5, StampIs
  <2>2. ASSUME build # "copy"
        PROVE  trace'.since = (IF trace.broken THEN Slot(file'.last_up) + 1 ELSE trace.since)
               /\ Slot(file'.last_up) \in Nat
    <3>1. trace' = Settled(trace, file', NoneWritten) /\ file' \in Files
      BY <1>5, <2>2, StampIs DEF StepOf
    <3>2. file'.last_up \in Nat
      BY <3>1 DEF Files
    <3>3. Slot(file'.last_up) \in Nat
      BY <3>2, SlotNat
    <3> QED BY <1>0, <3>1, <3>3, SettledIs, IdleTyped
  <2> QED BY <1>0, <2>1, <2>2 DEF Unspoiled
<1>6. CASE WriteHeader(p)
  <2>1. \/ trace' = trace
        \/ trace' = [Settled(trace, file', proc[p].wrote) EXCEPT
                        !.newest = [a \in Archives |-> @[a] + proc[p].wrote[a]]]
    BY <1>6, WriteHeaderIs
  <2>2. CASE trace' = trace
    BY <2>2 DEF Unspoiled
  <2>3. CASE trace' = [Settled(trace, file', proc[p].wrote) EXCEPT
                        !.newest = [a \in Archives |-> @[a] + proc[p].wrote[a]]]
    <3> DEFINE tr == Settled(trace, file', proc[p].wrote)
               new == [a \in Archives |-> tr.newest[a] + proc[p].wrote[a]]
    <3>1. file' \in Files /\ proc[p].wrote \in [Archives -> Nat]
      BY <1>6, WriteHeaderIs DEF StepOf, TypeOK, UpdaterStates
    <3>2. file'.last_up \in Nat
      BY <3>1 DEF Files
    <3>3. Slot(file'.last_up) \in Nat
      BY <3>2, SlotNat
    <3>4. /\ tr \in Traces
          /\ tr.since = (IF trace.broken THEN Slot(file'.last_up) + 1 ELSE trace.since)
      BY <1>0, <3>1, SettledIs
    <3> HIDE DEF tr
    <3>5. trace' = [tr EXCEPT !.newest = new]
      BY <2>3, <3>4 DEF Traces, tr
    <3> HIDE DEF new
    <3>6. trace'.since = tr.since
      BY <3>4, <3>5 DEF Traces
    <3> QED BY <1>0, <3>3, <3>4, <3>6 DEF Unspoiled
  <2> QED BY <2>1, <2>2, <2>3
<1> QED BY <1>1, <1>2, <1>3, <1>4, <1>5, <1>6, <1>7 DEF Updater

(* What is left to show of a step of the process that holds the lock.      *)
LEMMA PlaceByHolder ==
    ASSUME NEW p \in Procs, StepOf(p), \A r \in Procs \ {p} : proc[r].pc \notin Holding,
           Unspoiled' => \A a \in Archives :
             /\ PlacedRows(a)' /\ file'.cur[a] = trace'.newest[a] % RowCnt
             /\ proc'[p].pc \notin Holding => PlacedFile(a)'
             /\ proc'[p].pc \in Holding =>
                  /\ PlacedView(p, a)'
                  /\ build = "copy" /\ proc'[p].pc \notin {"prep", "cur"} => PlacedFile(a)'
    PROVE  PlaceInv'
<1>1. \A r \in Procs : r # p => proc'[r].pc \notin Holding
  BY DEF StepOf
<1>2. build' = build
  BY DEF StepOf
<1>3. Free' => proc'[p].pc \notin Holding
  BY DEF Free
<1> QED BY <1>1, <1>2, <1>3 DEF PlaceInv

(* A process without the lock does not move anything.                      *)
LEMMA PlaceBystander ==
    ASSUME PlaceInv, NEW p \in Procs, StepOf(p), file' = file,
           proc[p].pc \notin Holding, proc'[p].pc \notin Holding,
           Unspoiled' => Unspoiled, trace'.newest = trace.newest
    PROVE  PlaceInv'
<1> SUFFICES ASSUME Unspoiled', NEW a \in Archives
             PROVE  /\ PlacedRows(a)' /\ file'.cur[a] = trace'.newest[a] % RowCnt
                    /\ Free' => PlacedFile(a)'
                    /\ \A r \in Procs : proc'[r].pc \in Holding =>
                         /\ PlacedView(r, a)'
                         /\ build' = "copy" /\ proc'[r].pc \notin {"prep", "cur"} => PlacedFile(a)'
  BY DEF PlaceInv
<1>1. /\ PlacedRows(a) /\ file.cur[a] = trace.newest[a] % RowCnt
      /\ Free => PlacedFile(a)
      /\ \A r \in Procs : proc[r].pc \in Holding =>
           /\ PlacedView(r, a)
           /\ build = "copy" /\ proc[r].pc \notin {"prep", "cur"} => PlacedFile(a)
  BY DEF PlaceInv
<1>2. Free' => Free
  BY DEF Free, StepOf
<1>3. PlacedRows(a)' = PlacedRows(a) /\ PlacedFile(a)' = PlacedFile(a)
  BY DEF PlacedRows, PlacedFile, Slot
<1>4. ASSUME NEW r \in Procs, proc'[r].pc \in Holding
      PROVE  /\ PlacedView(r, a)'
             /\ build' = "copy" /\ proc'[r].pc \notin {"prep", "cur"} => PlacedFile(a)'
  <2>1. /\ r # p /\ build' = build /\ proc'[r].pc = proc[r].pc /\ proc'[r].head = proc[r].head
        /\ proc'[r].arch = proc[r].arch /\ proc'[r].left = proc[r].left
        /\ proc'[r].steps = proc[r].steps
    BY <1>4 DEF StepOf
  <2>2. HeadOf(r)' = HeadOf(r)
    BY <2>1 DEF HeadOf
  <2>3. Moved(proc[r], a)' = Moved(proc[r], a)
    BY <2>1 DEF Moved, Written, Pending
  <2>4. PlacedView(r, a)' = PlacedView(r, a)
    BY <2>2, <2>3 DEF PlacedView, Slot
  <2> QED BY <1>1, <1>3, <1>4, <2>1, <2>4
<1> QED BY <1>1, <1>2, <1>3, <1>4


(* Between two arguments the row pointer has not moved.                    *)
LEMMA NotMoved ==
    ASSUME NEW p \in Procs, WorkSound(p), proc[p].pc \notin Working, NEW a \in Archives
    PROVE  Moved(proc[p], a) = 0
BY BetweenArguments DEF Moved

(* The numbers in the claims about places.                                 *)
LEMMA MovedTyped ==
    ASSUME TypeOK, NEW p \in Procs, NEW a \in Archives
    PROVE  /\ Moved(proc[p], a) \in Int /\ trace.newest[a] \in Nat /\ RowCnt \in Nat \ {0}
           /\ Slot(HeadOf(p).last_up) \in Nat
BY ViewTyped DEF Moved, TypeOK, Traces

(* A process opens or closes the file.                                     *)
LEMMA PlaceIdleSteps ==
    ASSUME TypeOK, PlaceInv, NEW p \in Procs, Open(p) \/ Close(p)
    PROVE  PlaceInv'
<1>1. CASE Open(p)
  <2>1. /\ StepOf(p) /\ file' = file /\ trace' = trace
        /\ proc[p].pc = "idle" /\ proc'[p].pc = "opened"
    BY <1>1, OpenIs
  <2> QED BY <2>1, PlaceBystander DEF Holding, Working, Unspoiled
<1>2. CASE Close(p)
  <2>1. /\ StepOf(p) /\ file' = file /\ trace' = trace
        /\ proc[p].pc = "close" /\ proc'[p].pc = "idle"
    BY <1>2, CloseIs
  <2> QED BY <2>1, PlaceBystander DEF Holding, Working, Unspoiled
<1> QED BY <1>1, <1>2

(* A process reads the header and gets the lock.                           *)
LEMMA PlaceLock ==
    ASSUME AccessInv, AccessInv', ~trace.tainted, PlaceInv, NEW p \in Procs, Lock(p)
    PROVE  PlaceInv'
<1>0. /\ TypeOK /\ TypeOK' /\ Exclusive /\ OpenedSound(p) /\ proc[p] \in UpdaterStates
      /\ trace \in Traces
  BY DEF AccessInv, TypeOK
<1>1. /\ StepOf(p) /\ file' = file /\ proc[p].pc = "opened"
      /\ \/ /\ lock # "none" /\ lock' = lock /\ trace' = trace
            /\ proc'[p].pc = "close" /\ Blank(proc'[p])
         \/ /\ lock = "none" /\ lock' = p
            /\ proc'[p] = [proc[p] EXCEPT !.pc = "ready", !.fresh = TRUE]
            /\ trace' = [trace EXCEPT !.tainted = @ \/ (build # "mmap" /\ ~proc[p].fresh)]
  BY <1>0, LockIs
<1>2. CASE trace' = trace /\ proc'[p].pc = "close"
  <2>1. proc[p].pc \notin Holding /\ proc'[p].pc \notin Holding
    BY <1>1, <1>2 DEF Holding, Working
  <2> QED BY <1>1, <1>2, <2>1, PlaceBystander DEF Unspoiled
<1>3. CASE /\ lock = "none" /\ proc'[p] = [proc[p] EXCEPT !.pc = "ready", !.fresh = TRUE]
           /\ trace' = [trace EXCEPT !.tainted = @ \/ (build # "mmap" /\ ~proc[p].fresh)]
  <2>1. proc'[p].pc = "ready" /\ proc'[p].head = proc[p].head /\ build' = build
    BY <1>0, <1>1, <1>3 DEF UpdaterStates, StepOf
  <2>2. /\ trace'.since = trace.since /\ trace'.broken = trace.broken
        /\ trace'.newest = trace.newest
        /\ trace'.tainted = (trace.tainted \/ (build # "mmap" /\ ~proc[p].fresh))
    BY <1>0, <1>3 DEF Traces
  <2>3. Free
    BY <1>0, <1>3, AccessAssumption DEF Free, Exclusive
  <2>4. ASSUME Unspoiled', NEW a \in Archives
        PROVE  /\ PlacedRows(a)' /\ file'.cur[a] = trace'.newest[a] % RowCnt
               /\ PlacedFile(a)' /\ PlacedView(p, a)'
    <3>1. PlacedRows(a) /\ file.cur[a] = trace.newest[a] % RowCnt /\ PlacedFile(a)
      BY <2>2, <2>3, <2>4 DEF PlaceInv, Unspoiled
    <3>2. PlacedRows(a)' /\ file'.cur[a] = trace'.newest[a] % RowCnt /\ PlacedFile(a)'
      BY <1>1, <2>2, <3>1 DEF PlacedRows, PlacedFile, Slot
    <3>3. build # "mmap" => proc[p].head.last_up = file.last_up /\ proc[p].head.cur = file.cur
      BY <1>0, <1>1, <2>2, <2>4 DEF OpenedSound, Unspoiled
    <3>4. HeadOf(p)'.last_up = file'.last_up /\ HeadOf(p)'.cur = file'.cur
      BY <1>1, <2>1, <3>3 DEF HeadOf
    <3>5. Moved(proc[p], a)' = 0
      <4>1. WorkSound(p)' /\ proc'[p].pc \notin Working
        BY <2>1, <2>4 DEF AccessInv, Working, Unspoiled
      <4> QED BY <2>1, <4>1 DEF WorkSound, Moved, Written, Pending
    <3>6. Slot(file'.last_up) \in Nat
      BY <1>0, <1>1, ViewTyped
    <3>7. Slot(HeadOf(p)'.last_up) + Moved(proc[p], a)' = Slot(file'.last_up)
      BY <3>4, <3>5, <3>6
    <3>8. HeadOf(p)'.cur[a] = (Slot(HeadOf(p)'.last_up) + Moved(proc[p], a)') % RowCnt
      BY <3>2, <3>4, <3>7 DEF PlacedFile, Slot
    <3> QED BY <3>2, <3>8 DEF PlacedView, Slot
  <2>5. proc'[p].pc \in Holding
    BY <2>1 DEF Holding
  <2> QED BY <1>1, <2>3, <2>4, <2>5, PlaceByHolder DEF Free
<1> QED BY <1>1, <1>2, <1>3

(* Between two arguments, or without mmap until the header is written, the *)
(* row pointer in the file is where last_up says.                          *)
LEMMA PlacedWhenLeft ==
    ASSUME TypeOK, Unspoiled, PlaceInv, NEW p \in Procs, proc[p].pc \in Holding,
           WorkSound(p), HeadSound(p), NEW a \in Archives,
           IF build = "copy" THEN proc[p].pc \notin {"prep", "cur"} ELSE proc[p].pc \notin Working
    PROVE  PlacedFile(a)
<1>1. CASE build = "copy"
  BY <1>1 DEF PlaceInv
<1>2. CASE build # "copy"
  <2>1. PlacedView(p, a) /\ Moved(proc[p], a) = 0 /\ Slot(HeadOf(p).last_up) \in Nat
    BY <1>2, NotMoved, MovedTyped DEF PlaceInv
  <2>2. HeadOf(p).last_up = file.last_up /\ HeadOf(p).cur = file.cur
    BY <1>2 DEF HeadSound, HeadOf
  <2> QED BY <2>1, <2>2 DEF PlacedView, PlacedFile
<1> QED BY <1>1, <1>2

(* An update ends with an argument that cannot be used, or is killed.      *)
LEMMA PlaceAbort ==
    ASSUME AccessInv, ~trace.tainted, PlaceInv, NEW p \in Procs, BadArg(p) \/ Kill(p)
    PROVE  PlaceInv'
<1>0. TypeOK /\ Exclusive /\ WorkSound(p) /\ HeadSound(p)
  BY DEF AccessInv
<1>1. /\ StepOf(p) /\ proc'[p].pc \in {"idle", "close"}
      /\ file'.last_up = file.last_up /\ file'.cur = file.cur /\ file'.rows = file.rows
      /\ BadArg(p) => proc[p].pc = "ready"
      /\ Kill(p) => file' = file
  BY <1>0, BadArgIs, KillIs
<1>2. /\ trace'.newest = trace.newest
      /\ Unspoiled' => Unspoiled
      /\ Kill(p) => trace'.broken = (trace.broken \/ proc[p].pc \in
                       (IF build = "copy" THEN {"prep", "cur"} ELSE Working))
  BY <1>0, LostIs DEF Unspoiled
<1>3. proc'[p].pc \notin Holding
  BY <1>1 DEF Holding, Working
<1>4. CASE proc[p].pc \notin Holding
  <2>1. file' = file
    BY <1>1, <1>4 DEF Holding
  <2> QED BY <1>1, <1>2, <1>3, <1>4, <2>1, PlaceBystander
<1>5. CASE proc[p].pc \in Holding
  <2>1. \A r \in Procs \ {p} : proc[r].pc \notin Holding
    BY <1>0, <1>5, Alone
  <2>2. ASSUME Unspoiled', NEW a \in Archives
        PROVE  PlacedRows(a)' /\ file'.cur[a] = trace'.newest[a] % RowCnt /\ PlacedFile(a)'
    <3>1. Unspoiled /\ PlacedRows(a) /\ file.cur[a] = trace.newest[a] % RowCnt
      BY <1>2, <2>2 DEF PlaceInv
    <3>2. IF build = "copy" THEN proc[p].pc \notin {"prep", "cur"} ELSE proc[p].pc \notin Working
      BY <1>1, <1>2, <2>2 DEF Unspoiled, Working
    <3>3. PlacedFile(a)
      BY <1>0, <1>5, <3>1, <3>2, PlacedWhenLeft
    <3> QED BY <1>1, <1>2, <3>1, <3>3 DEF PlacedRows, PlacedFile, Slot
  <2> QED BY <1>1, <1>3, <2>1, <2>2, PlaceByHolder
<1> QED BY <1>4, <1>5

(* The arguments are used up.                                              *)
LEMMA PlaceEnd ==
    ASSUME AccessInv, ~trace.tainted, PlaceInv, NEW p \in Procs, End(p)
    PROVE  PlaceInv'
<1>0. TypeOK /\ Exclusive /\ WorkSound(p) /\ HeadSound(p) /\ proc[p] \in UpdaterStates
  BY DEF AccessInv, TypeOK
<1>1. /\ StepOf(p) /\ file' = file /\ trace' = trace /\ proc[p].pc = "ready"
      /\ build = "copy" => proc'[p] = [proc[p] EXCEPT !.pc = "last_up"]
      /\ build # "copy" => proc'[p].pc = "close"
  BY <1>0, EndIs
<1>2. proc[p].pc \in Holding \ Working /\ build' = build
  BY <1>1 DEF Holding, Working, StepOf
<1>3. \A r \in Procs \ {p} : proc[r].pc \notin Holding
  BY <1>0, <1>2, Alone
<1>4. ASSUME Unspoiled', NEW a \in Archives
      PROVE  /\ PlacedRows(a)' /\ file'.cur[a] = trace'.newest[a] % RowCnt /\ PlacedFile(a)'
             /\ build = "copy" => PlacedView(p, a)'
  <2>1. /\ Unspoiled /\ PlacedRows(a) /\ file.cur[a] = trace.newest[a] % RowCnt
        /\ PlacedView(p, a)
    BY <1>1, <1>2, <1>4 DEF PlaceInv, Unspoiled
  <2>2. PlacedFile(a)
    BY <1>0, <1>1, <1>2, <2>1, PlacedWhenLeft
  <2>3. PlacedRows(a)' /\ file'.cur[a] = trace'.newest[a] % RowCnt /\ PlacedFile(a)'
    BY <1>1, <2>1, <2>2 DEF PlacedRows, PlacedFile, Slot
  <2>4. ASSUME build = "copy" PROVE PlacedView(p, a)'
    <3>1. /\ proc'[p].pc = "last_up" /\ proc'[p].head = proc[p].head
          /\ proc'[p].arch = proc[p].arch /\ proc'[p].left = proc[p].left
          /\ proc'[p].steps = proc[p].steps
      BY <1>0, <1>1, <2>4 DEF UpdaterStates
    <3>2. Moved(proc[p], a)' = Moved(proc[p], a)
      BY <1>1, <3>1 DEF Moved, Written, Pending
    <3>3. HeadOf(p)' = HeadOf(p)
      BY <1>1, <1>2, <3>1 DEF HeadOf
    <3> QED BY <2>1, <3>2, <3>3 DEF PlacedView, Slot
  <2> QED BY <2>3, <2>4
<1>5. proc'[p].pc \in Holding => build = "copy"
  BY <1>1 DEF Holding, Working
<1> QED BY <1>1, <1>3, <1>4, <1>5, PlaceByHolder


(* process_arg up to the rows moves nothing.                               *)
LEMMA PlaceArg ==
    ASSUME AccessInv, ~trace.tainted, PlaceInv, NEW p \in Procs,
           NEW t \in 1 .. MaxTime, Arg(p, t)
    PROVE  PlaceInv'
<1>0. TypeOK /\ Exclusive /\ WorkSound(p)
  BY DEF AccessInv
<1> DEFINE e == Slot(t) - Slot(HeadOf(p).last_up)
<1>1. /\ StepOf(p) /\ ArgTrace(p, t) /\ proc[p].pc = "ready"
      /\ e \in Nat /\ proc'[p].pc \in {"stamp", "row"}
      /\ proc'[p].arch = 1 /\ proc'[p].left = e /\ proc'[p].steps = e
      /\ HeadOf(p)'.last_up = HeadOf(p).last_up /\ HeadOf(p)'.cur = HeadOf(p).cur
      /\ file'.last_up = file.last_up /\ file'.cur = file.cur /\ file'.rows = file.rows
  BY <1>0, ArgIs
<1> HIDE DEF e
<1>2. proc[p].pc \in Holding \ Working /\ proc'[p].pc \in Holding
  BY <1>1 DEF Holding, Working
<1>3. \A r \in Procs \ {p} : proc[r].pc \notin Holding
  BY <1>0, <1>2, Alone
<1>4. ASSUME Unspoiled', NEW a \in Archives
      PROVE  /\ PlacedRows(a)' /\ file'.cur[a] = trace'.newest[a] % RowCnt
             /\ PlacedView(p, a)' /\ (build = "copy" => PlacedFile(a)')
  <2>0. Unspoiled /\ trace'.newest = trace.newest
    <3>1. /\ trace'.since \in Nat /\ trace.since \in Nat /\ trace'.since >= trace.since
          /\ trace'.broken = trace.broken /\ trace'.tainted = trace.tainted
          /\ trace'.newest = trace.newest
      BY <1>0, <1>1 DEF ArgTrace, TypeOK, Traces
    <3> QED BY <1>4, <3>1 DEF Unspoiled
  <2>1. /\ PlacedRows(a) /\ file.cur[a] = trace.newest[a] % RowCnt
        /\ PlacedView(p, a) /\ (build = "copy" => PlacedFile(a))
    BY <1>1, <1>2, <2>0 DEF PlaceInv
  <2>2. /\ PlacedRows(a)' /\ file'.cur[a] = trace'.newest[a] % RowCnt
        /\ build = "copy" => PlacedFile(a)'
    BY <1>1, <2>0, <2>1 DEF PlacedRows, PlacedFile, Slot
  <2>3. Moved(proc[p], a) = 0
    BY <1>0, <1>2, NotMoved
  <2>4. Moved(proc[p], a)' = 0
    <3>1. a \in Nat \ {0}
      BY AccessAssumption
    <3> QED BY <1>1, <3>1 DEF Moved, Written, Pending
  <2> QED BY <1>1, <2>1, <2>2, <2>3, <2>4 DEF PlacedView, Slot
<1> QED BY <1>1, <1>2, <1>3, <1>4, PlaceByHolder

(* The row pointer of one archive moves by one.                            *)
LEMMA PlaceAdvance ==
    ASSUME AccessInv, ~trace.tainted, PlaceInv, NEW p \in Procs, Advance(p)
    PROVE  PlaceInv'
<1> DEFINE h == HeadOf(p)
           g == HeadOf(p)'
           q == proc'[p]
           b == proc[p].arch
<1>0. /\ TypeOK /\ Exclusive /\ WorkSound(p) /\ HeadSound(p) /\ proc[p].pc = "row"
      /\ b \in Archives /\ h.cur \in [Archives -> Rows] /\ trace \in Traces
  BY HeadTyped DEF AccessInv, TypeOK, WorkSound, Advance
<1>1. /\ StepOf(p) /\ q.pc = "write" /\ q.arch = b /\ q.left = proc[p].left
      /\ q.steps = proc[p].steps /\ g.last_up = h.last_up
      /\ g.cur = [h.cur EXCEPT ![b] = (@ + 1) % RowCnt]
      /\ file'.last_up = file.last_up /\ file'.rows = file.rows
      /\ build = "copy" => file' = file
      /\ build # "copy" => file'.cur = g.cur
      /\ trace' = [trace EXCEPT !.newest[b] = IF build = "copy" THEN @ ELSE @ + 1]
  BY <1>0, AdvanceIs
<1>2. proc[p].pc \in Holding /\ q.pc \in Holding
  BY <1>0, <1>1 DEF Holding, Working
<1>3. \A r \in Procs \ {p} : proc[r].pc \notin Holding
  BY <1>0, <1>2, Alone
<1>4. /\ trace'.broken = trace.broken /\ trace'.since = trace.since
      /\ trace'.tainted = trace.tainted
      /\ trace'.newest = [trace.newest EXCEPT ![b] = IF build = "copy" THEN @ ELSE @ + 1]
      /\ trace.newest \in [Archives -> Nat]
  BY <1>0, <1>1 DEF Traces
<1>5. build # "copy" => h.cur = file.cur
  BY DEF HeadOf
<1>6. ASSUME Unspoiled', NEW a \in Archives
      PROVE  /\ PlacedRows(a)' /\ file'.cur[a] = trace'.newest[a] % RowCnt
             /\ PlacedView(p, a)' /\ (build = "copy" => PlacedFile(a)')
  <2>1. /\ PlacedRows(a) /\ file.cur[a] = trace.newest[a] % RowCnt
        /\ PlacedView(p, a) /\ (build = "copy" => PlacedFile(a))
    BY <1>0, <1>2, <1>4, <1>6 DEF PlaceInv, Unspoiled
  <2>2. PlacedRows(a)' /\ (build = "copy" => PlacedFile(a)')
    BY <1>1, <2>1 DEF PlacedRows, PlacedFile, Slot
  <2> DEFINE x == Slot(h.last_up) + Moved(proc[p], a)
             n == trace.newest[a]
  <2>3. x \in Int /\ n \in Int /\ RowCnt \in Nat \ {0}
    BY <1>0, MovedTyped
  <2>4. h.cur[a] = x % RowCnt
    BY <2>1 DEF PlacedView
  <2>5. Slot(g.last_up) + Moved(q, a) = IF a = b THEN x + 1 ELSE x
    <3>1. /\ Written(q, a) = Written(proc[p], a) /\ Pending(proc[p], a) = 0
          /\ Pending(q, a) = IF a = b THEN 1 ELSE 0
      BY <1>0, <1>1 DEF Written, Pending
    <3>2. Written(proc[p], a) \in Int /\ Slot(h.last_up) \in Int
      BY <1>0, ViewTyped
    <3> QED BY <1>1, <3>1, <3>2 DEF Moved
  <2>6. g.cur[a] = IF a = b THEN (h.cur[a] + 1) % RowCnt ELSE h.cur[a]
    BY <1>0, <1>1
  <2>7. trace'.newest[a] = IF build # "copy" /\ a = b THEN n + 1 ELSE n
    BY <1>0, <1>4
  <2> HIDE DEF x, n, h, g, q
  <2>8. /\ ((x % RowCnt) + 1) % RowCnt = (x + 1) % RowCnt
        /\ ((n % RowCnt) + 1) % RowCnt = (n + 1) % RowCnt
    <3>1. 1 \in Int
      OBVIOUS
    <3> QED BY <2>3, <3>1, ModAdd, Zenon
  <2>9. g.cur[a] = (Slot(g.last_up) + Moved(q, a)) % RowCnt
    BY <2>4, <2>5, <2>6, <2>8
  <2>10. file'.cur[a] = trace'.newest[a] % RowCnt
    <3>1. file.cur[a] = n % RowCnt
      BY <2>1 DEF n
    <3>2. CASE build = "copy"
      BY <1>1, <2>7, <3>1, <3>2
    <3>3. CASE build # "copy"
      BY <1>1, <1>5, <2>6, <2>7, <2>8, <3>1, <3>3
    <3> QED BY <3>2, <3>3
  <2> QED BY <2>2, <2>9, <2>10 DEF PlacedView, g, q, Slot
<1> QED BY <1>1, <1>2, <1>3, <1>6, PlaceByHolder

(* The row that is written is that of its place.                           *)
LEMMA PlaceWriteRow ==
    ASSUME AccessInv, ~trace.tainted, PlaceInv, NEW p \in Procs, WriteRow(p)
    PROVE  PlaceInv'
<1> DEFINE h == HeadOf(p)
           q == proc'[p]
           b == proc[p].arch
           v == RowValue(p)
<1>0. /\ TypeOK /\ Exclusive /\ WorkSound(p) /\ proc[p].pc = "write" /\ proc[p] \in UpdaterStates
      /\ b \in Archives /\ proc[p].left \in 1 .. proc[p].steps
      /\ h.cur \in [Archives -> Rows] /\ file.rows \in [Archives -> [Rows -> Nat]]
  BY HeadTyped DEF AccessInv, TypeOK, WorkSound, WriteRow, Files
<1>1. /\ StepOf(p) /\ trace' = trace /\ q.pc \in {"row", "stamp"}
      /\ q.steps = proc[p].steps
      /\ q.arch = (IF proc[p].left = 1 THEN b + 1 ELSE b)
      /\ q.left = (IF proc[p].left = 1 THEN proc[p].steps ELSE proc[p].left - 1)
      /\ HeadOf(p)' = h /\ v \in Nat
      /\ file'.last_up = file.last_up /\ file'.cur = file.cur
      /\ file'.rows = [file.rows EXCEPT ![b] = [@ EXCEPT ![h.cur[b]] = v]]
  BY <1>0, WriteRowIs
<1>2. proc[p].pc \in Holding /\ q.pc \in Holding
  BY <1>0, <1>1 DEF Holding, Working
<1>3. \A r \in Procs \ {p} : proc[r].pc \notin Holding
  BY <1>0, <1>2, Alone
<1>4. ASSUME Unspoiled', NEW a \in Archives
      PROVE  /\ PlacedRows(a)' /\ file'.cur[a] = trace'.newest[a] % RowCnt
             /\ PlacedView(p, a)' /\ (build = "copy" => PlacedFile(a)')
  <2>1. /\ PlacedRows(a) /\ file.cur[a] = trace.newest[a] % RowCnt
        /\ PlacedView(p, a) /\ (build = "copy" => PlacedFile(a))
    BY <1>0, <1>1, <1>2, <1>4 DEF PlaceInv, Unspoiled
  <2>2. file'.cur[a] = trace'.newest[a] % RowCnt /\ (build = "copy" => PlacedFile(a)')
    BY <1>1, <2>1 DEF PlacedFile, Slot
  <2>3. /\ Pending(q, a) = 0 /\ Pending(proc[p], a) = IF a = b THEN 1 ELSE 0
        /\ a = b => /\ Written(q, a) = Written(proc[p], a) + 1
                    /\ Written(proc[p], a) = proc[p].steps - proc[p].left
        /\ a # b => Written(q, a) = Written(proc[p], a)
    BY <1>0, <1>1, WrittenNext
  <2>4. /\ Written(proc[p], a) \in Int /\ Slot(h.last_up) \in Int /\ h.cur[a] \in Rows
        /\ file.rows[a] \in [Rows -> Nat]
    BY <1>0, ViewTyped
  <2>5. Moved(q, a) = Moved(proc[p], a)
    BY <2>3, <2>4 DEF Moved
  <2>6. h.cur[a] = (Slot(h.last_up) + Moved(proc[p], a)) % RowCnt
    BY <2>1 DEF PlacedView
  <2>7. PlacedView(p, a)'
    BY <1>1, <2>5, <2>6 DEF PlacedView, Slot
  <2>8. PlacedRows(a)'
    <3>1. CASE a # b
      <4>1. file'.rows[a] = file.rows[a]
        BY <1>0, <1>1, <3>1
      <4> QED BY <2>1, <4>1 DEF PlacedRows
    <3>2. CASE a = b
      <4>1. file'.rows[a] = [file.rows[a] EXCEPT ![h.cur[a]] = v]
        BY <1>0, <1>1, <3>2
      <4>2. v # 0 => v = Slot(h.last_up) + (proc[p].steps - proc[p].left + 1)
        BY DEF RowValue
      <4>3. Moved(proc[p], a) = proc[p].steps - proc[p].left + 1
        BY <2>3, <2>4, <3>2 DEF Moved
      <4>4. v # 0 => v % RowCnt = h.cur[a]
        BY <2>6, <4>2, <4>3
      <4> HIDE DEF v, h
      <4> QED BY <2>1, <2>4, <4>1, <4>4 DEF PlacedRows
    <3> QED BY <3>1, <3>2
  <2> QED BY <2>2, <2>7, <2>8
<1> QED BY <1>1, <1>2, <1>3, <1>4, PlaceByHolder


(* last_up reaches the argument: the pointers have moved that far.         *)
LEMMA PlaceStamp ==
    ASSUME AccessInv, AccessInv', ~trace.tainted, PlaceInv, NEW p \in Procs, Stamp(p)
    PROVE  PlaceInv'
<1> DEFINE h == HeadOf(p)
           t == proc[p].t
<1>0. /\ TypeOK /\ Exclusive /\ WorkSound(p) /\ proc[p].pc = "stamp"
      /\ trace \in Traces /\ proc[p].steps \in Nat
  BY DEF AccessInv, TypeOK, Stamp, Stampable, UpdaterStates
<1>1. /\ StepOf(p) /\ proc'[p].pc = "ready"
      /\ proc'[p].steps = 0 /\ proc'[p].left = 0 /\ proc'[p].arch = 1
      /\ HeadOf(p)'.last_up = t /\ HeadOf(p)'.cur = h.cur
      /\ file'.cur = file.cur /\ file'.rows = file.rows
      /\ build = "copy" => file' = file /\ trace' = trace
      /\ build # "copy" => trace' = Settled(trace, file', NoneWritten)
  BY <1>0, StampIs
<1>2. proc[p].pc \in Holding /\ proc'[p].pc \in Holding
  BY <1>0, <1>1 DEF Holding, Working
<1>3. \A r \in Procs \ {p} : proc[r].pc \notin Holding
  BY <1>0, <1>2, Alone
<1>4. Slot(t) = Slot(h.last_up) + proc[p].steps
  BY <1>0 DEF WorkSound, Working
<1>5. trace'.newest = trace.newest
  <2>1. file' \in Files /\ NoneWritten \in [Archives -> Nat]
    BY <1>1, IdleTyped DEF StepOf
  <2> QED BY <1>0, <1>1, <2>1, SettledIs
<1>6. Unspoiled' => Unspoiled
  BY <1>0, SpoiledStays DEF Updater
<1>7. ASSUME Unspoiled', NEW a \in Archives
      PROVE  /\ PlacedRows(a)' /\ file'.cur[a] = trace'.newest[a] % RowCnt
             /\ PlacedView(p, a)' /\ (build = "copy" => PlacedFile(a)')
  <2>1. /\ PlacedRows(a) /\ file.cur[a] = trace.newest[a] % RowCnt
        /\ PlacedView(p, a) /\ (build = "copy" => PlacedFile(a))
    BY <1>0, <1>2, <1>6, <1>7 DEF PlaceInv
  <2>2. /\ PlacedRows(a)' /\ file'.cur[a] = trace'.newest[a] % RowCnt
        /\ build = "copy" => PlacedFile(a)'
    BY <1>1, <1>5, <2>1 DEF PlacedRows, PlacedFile, Slot
  <2>3. Moved(proc[p], a) = proc[p].steps
    BY <1>0 DEF WorkSound, Moved, Pending
  <2>4. Moved(proc[p], a)' = 0
    <3>1. a \in Nat \ {0}
      BY AccessAssumption
    <3> QED BY <1>1, <3>1 DEF Moved, Written, Pending
  <2>5. Slot(h.last_up) \in Nat
    BY <1>0, MovedTyped
  <2>6. Slot(t) + 0 = Slot(h.last_up) + Moved(proc[p], a)
    BY <1>0, <1>4, <2>3, <2>5
  <2>7. HeadOf(p)'.cur[a] = (Slot(HeadOf(p)'.last_up) + Moved(proc[p], a)') % RowCnt
    BY <1>1, <2>1, <2>4, <2>6 DEF PlacedView
  <2> QED BY <2>2, <2>7 DEF PlacedView, Slot
<1> QED BY <1>1, <1>2, <1>3, <1>7, PlaceByHolder

(* The header is written, field by field; the row pointer comes last.      *)
LEMMA PlaceWriteHeader ==
    ASSUME AccessInv, AccessInv', ~trace.tainted, PlaceInv, NEW p \in Procs, WriteHeader(p)
    PROVE  PlaceInv'
<1> DEFINE h == proc[p].head
           q == proc'[p]
<1>0. /\ TypeOK /\ Exclusive /\ WorkSound(p) /\ HeadSound(p) /\ trace \in Traces
      /\ proc[p].pc \in {"last_up", "prep", "cur"} /\ proc[p].wrote \in [Archives -> Nat]
      /\ file' \in Files
  BY DEF AccessInv, TypeOK, WriteHeader, UpdaterStates
<1>1. /\ StepOf(p) /\ file'.rows = file.rows /\ q.head = h
      /\ q.steps = proc[p].steps /\ q.left = proc[p].left /\ q.arch = proc[p].arch
      /\ \/ /\ q.pc \in {"prep", "cur"} /\ trace' = trace /\ file'.cur = file.cur
         \/ /\ proc[p].pc = "cur" /\ q.pc = "close"
            /\ file'.last_up = file.last_up /\ file'.cur = h.cur
            /\ trace' = [Settled(trace, file', proc[p].wrote) EXCEPT
                           !.newest = [a \in Archives |-> @[a] + proc[p].wrote[a]]]
  BY <1>0, WriteHeaderIs
<1>2. proc[p].pc \in Holding \ Working /\ build = "copy" /\ build' = build
  BY <1>0, <1>1 DEF Holding, Working, HeadSound, StepOf
<1>3. \A r \in Procs \ {p} : proc[r].pc \notin Holding
  BY <1>0, <1>2, Alone
<1>4. Unspoiled' => Unspoiled
  BY <1>0, SpoiledStays DEF Updater
<1>5. HeadOf(p).last_up = h.last_up /\ HeadOf(p).cur = h.cur
  BY <1>2 DEF HeadOf
<1>6. CASE q.pc \in {"prep", "cur"} /\ trace' = trace /\ file'.cur = file.cur
  <2>1. ASSUME Unspoiled', NEW a \in Archives
        PROVE  /\ PlacedRows(a)' /\ file'.cur[a] = trace'.newest[a] % RowCnt /\ PlacedView(p, a)'
    <3>1. PlacedRows(a) /\ file.cur[a] = trace.newest[a] % RowCnt /\ PlacedView(p, a)
      BY <1>2, <1>4, <2>1 DEF PlaceInv
    <3>2. PlacedRows(a)' /\ file'.cur[a] = trace'.newest[a] % RowCnt
      BY <1>1, <1>6, <3>1 DEF PlacedRows
    <3>3. HeadOf(p)'.last_up = h.last_up /\ HeadOf(p)'.cur = h.cur
      BY <1>1, <1>2 DEF HeadOf
    <3>4. Moved(proc[p], a)' = Moved(proc[p], a)
      BY <1>0, <1>1, <1>6 DEF Moved, Written, Pending
    <3> QED BY <1>5, <3>1, <3>2, <3>3, <3>4 DEF PlacedView, Slot
  <2>2. q.pc \in Holding
    BY <1>6 DEF Holding
  <2> QED BY <1>1, <1>3, <1>6, <2>1, <2>2, PlaceByHolder
<1>7. CASE /\ proc[p].pc = "cur" /\ q.pc = "close"
           /\ file'.last_up = file.last_up /\ file'.cur = h.cur
           /\ trace' = [Settled(trace, file', proc[p].wrote) EXCEPT
                           !.newest = [a \in Archives |-> @[a] + proc[p].wrote[a]]]
  <2>1. \A a \in Archives : trace'.newest[a] = trace.newest[a] + proc[p].wrote[a]
    <3> DEFINE tr == Settled(trace, file', proc[p].wrote)
               new == [a \in Archives |-> tr.newest[a] + proc[p].wrote[a]]
    <3>1. tr \in Traces /\ tr.newest = trace.newest
      BY <1>0, SettledIs
    <3> HIDE DEF tr
    <3>2. trace' = [tr EXCEPT !.newest = new]
      BY <1>7, <3>1 DEF Traces, tr
    <3>3. trace'.newest = new
      <4> HIDE DEF new
      <4> QED BY <3>1, <3>2 DEF Traces
    <3> QED BY <3>1, <3>3
  <2>2. h.last_up = file.last_up
        /\ \A a \in Archives : h.cur[a] = (file.cur[a] + proc[p].wrote[a] + Pending(proc[p], a)) % RowCnt
    BY <1>0, <1>2, <1>7 DEF HeadSound
  <2>3. ASSUME Unspoiled', NEW a \in Archives
        PROVE  PlacedRows(a)' /\ file'.cur[a] = trace'.newest[a] % RowCnt /\ PlacedFile(a)'
    <3>1. PlacedRows(a) /\ file.cur[a] = trace.newest[a] % RowCnt /\ PlacedView(p, a)
      BY <1>2, <1>4, <2>3 DEF PlaceInv
    <3>2. PlacedRows(a)'
      BY <1>1, <3>1 DEF PlacedRows
    <3> DEFINE n == trace.newest[a]
               w == proc[p].wrote[a]
    <3>3. n \in Int /\ w \in Int /\ RowCnt \in Nat \ {0} /\ file.cur[a] \in Int
      BY <1>0, MovedTyped, ViewTyped DEF Rows
    <3>4. file'.cur[a] = trace'.newest[a] % RowCnt
      <4>1. Pending(proc[p], a) = 0
        BY <1>0, <1>2, BetweenArguments
      <4>2. file.cur[a] + w + Pending(proc[p], a) = (n % RowCnt) + w
        BY <3>1, <3>3, <4>1
      <4>3. file'.cur[a] = ((n % RowCnt) + w) % RowCnt
        BY <1>7, <2>2, <4>2
      <4>4. trace'.newest[a] = n + w
        BY <2>1
      <4> HIDE DEF n, w
      <4>5. ((n % RowCnt) + w) % RowCnt = (n + w) % RowCnt
        BY <3>3, ModAdd, Zenon
      <4> QED BY <4>3, <4>4, <4>5
    <3>5. PlacedFile(a)'
      <4>1. Moved(proc[p], a) = 0 /\ Slot(HeadOf(p).last_up) \in Nat
        BY <1>0, <1>2, NotMoved, MovedTyped
      <4>2. file'.cur[a] = Slot(file'.last_up) % RowCnt
        BY <1>5, <1>7, <2>2, <3>1, <4>1 DEF PlacedView
      <4> QED BY <4>2 DEF PlacedFile, Slot
    <3> QED BY <3>2, <3>4, <3>5
  <2>4. q.pc \notin Holding
    BY <1>7 DEF Holding, Working
  <2> QED BY <1>1, <1>3, <2>3, <2>4, PlaceByHolder
<1> QED BY <1>1, <1>6, <1>7

(* Nothing that PlaceInv speaks of changes.                                *)
LEMMA PlaceSame ==
    ASSUME PlaceInv, UNCHANGED <<build, file, lock, proc, trace>>
    PROVE  PlaceInv'
<1>1. Free' = Free /\ Unspoiled' = Unspoiled
  BY DEF Free, Unspoiled
<1>2. ASSUME NEW a \in Archives
      PROVE  PlacedRows(a)' = PlacedRows(a) /\ PlacedFile(a)' = PlacedFile(a)
  BY DEF PlacedRows, PlacedFile
<1>3. ASSUME NEW p \in Procs, NEW a \in Archives
      PROVE  PlacedView(p, a)' = PlacedView(p, a)
  BY DEF PlacedView, HeadOf, Moved, Written, Pending
<1> QED BY <1>1, <1>2, <1>3 DEF PlaceInv

(* In a new file all row pointers are 0.                                   *)
LEMMA PlaceInit ==
    ASSUME Init
    PROVE  PlaceInv
<1>1. /\ file.last_up = 0 /\ file.cur = [a \in Archives |-> 0]
      /\ file.rows = [a \in Archives |-> [i \in 0 .. RowCnt - 1 |-> 0]]
      /\ trace.newest = [a \in Archives |-> 0]
      /\ \A p \in Procs : proc[p].pc = "idle"
  BY DEF Init, Idle
<1>2. RowCnt \in Nat \ {0}
  BY AccessAssumption
<1>3. Slot(file.last_up) = 0 /\ 0 % RowCnt = 0
  <2>1. 0 \in 0 .. RowCnt - 1 /\ 0 \in Int
    BY <1>2
  <2>2. 0 % RowCnt = 0
    BY <1>2, <2>1, ModNear
  <2> QED BY <1>1, <2>2 DEF Slot
<1>4. ASSUME NEW a \in Archives
      PROVE  PlacedRows(a) /\ file.cur[a] = trace.newest[a] % RowCnt /\ PlacedFile(a)
  BY <1>1, <1>3 DEF PlacedRows, PlacedFile, Rows
<1> QED BY <1>1, <1>4 DEF PlaceInv, Holding, Working

(* Every step keeps PlaceInv.                                              *)
LEMMA PlaceStep ==
    ASSUME AccessInv, AccessInv', PlaceInv, [Next]_vars
    PROVE  PlaceInv'
<1>0. TypeOK
  BY DEF AccessInv
<1>1. CASE UNCHANGED vars
  BY <1>1, PlaceSame DEF vars
<1>2. CASE Next
  <2>0. ~trace.tainted
    BY <1>2 DEF Next
  <2>1. ASSUME NEW p \in Procs, Updater(p)
        PROVE  PlaceInv'
    <3>1. \/ Open(p) \/ Close(p)
          \/ Lock(p) \/ BadArg(p) \/ Kill(p) \/ Advance(p) \/ WriteRow(p) \/ Stamp(p)
          \/ End(p) \/ WriteHeader(p) \/ \E t \in 1 .. MaxTime : Arg(p, t)
      BY <2>1 DEF Updater
    <3> QED BY <1>0, <2>0, <3>1, PlaceIdleSteps, PlaceLock, PlaceAbort, PlaceAdvance,
               PlaceWriteRow, PlaceStamp, PlaceEnd, PlaceWriteHeader, PlaceArg
  <2>2. ASSUME ReaderStep PROVE PlaceInv'
    BY <1>0, <2>2, ReaderTyped, PlaceSame
  <2> QED BY <1>2, <2>1, <2>2 DEF Next, ReaderStep
<1> QED BY <1>1, <1>2


(* While a reader is not disturbed the file does not change, no process    *)
(* starts to write its header, and nothing more is given up as lost.       *)
LEMMA QuietStep ==
    ASSUME AccessInv, ~trace.tainted, NEW p \in Procs, Updater(p), file' = file,
           proc[p].pc \notin {"prep", "cur"}, NEW a \in Archives
    PROVE  /\ proc'[p].pc \notin {"prep", "cur"}
           /\ trace'.lost[a] = 0 => trace.lost[a] = 0
<1>0. /\ TypeOK /\ WorkSound(p) /\ HeadSound(p) /\ file.last_up \in Nat /\ trace \in Traces
      /\ proc[p].head.last_up \in Nat /\ proc[p].t \in Nat /\ proc[p] \in UpdaterStates
      /\ trace.lost[a] \in Nat /\ proc[p].wrote[a] \in Nat
  BY DEF AccessInv, TypeOK, Files, UpdaterStates, Heads, Traces
<1>1. CASE Open(p) \/ Close(p)
  BY <1>0, <1>1, OpenIs, CloseIs
<1>2. CASE Lock(p)
  <2>1. proc'[p].pc = "close" \/ proc'[p] = [proc[p] EXCEPT !.pc = "ready", !.fresh = TRUE]
    BY <1>0, <1>2, LockIs
  <2>2. proc'[p].pc \in {"close", "ready"}
    BY <1>0, <2>1 DEF UpdaterStates
  <2>3. trace'.lost = trace.lost
    BY <1>0, <1>2 DEF Lock, Traces
  <2> QED BY <2>2, <2>3
<1>3. CASE BadArg(p) \/ Kill(p)
  <2>1. proc'[p].pc \in {"close", "idle"}
    BY <1>0, <1>3, BadArgIs, KillIs
  <2> DEFINE w == IF build = "copy" /\ proc[p].pc # "close" THEN proc[p].wrote[a] ELSE 0
  <2>2. trace'.lost[a] = IF w > trace.lost[a] THEN w ELSE trace.lost[a]
    BY <1>0, <1>3, LostIs
  <2>3. w \in Nat
    BY <1>0
  <2> HIDE DEF w
  <2> QED BY <1>0, <2>1, <2>2, <2>3
<1>4. CASE End(p)
  <2>1. trace' = trace /\ (proc'[p] = [proc[p] EXCEPT !.pc = "last_up"] \/ proc'[p].pc = "close")
    BY <1>0, <1>4, EndIs
  <2>2. proc'[p].pc \in {"last_up", "close"}
    BY <1>0, <2>1 DEF UpdaterStates
  <2> QED BY <2>1, <2>2
<1>5. CASE \E t \in 1 .. MaxTime : Arg(p, t)
  <2>1. trace'.lost = trace.lost /\ proc'[p].pc \in {"stamp", "row"}
    BY <1>0, <1>5, ArgIs DEF ArgTrace
  <2> QED BY <2>1
<1>6. CASE Advance(p)
  <2>1. proc[p].arch \in Archives
    BY <1>0, <1>6 DEF WorkSound, Advance
  <2>2. proc'[p].pc = "write"
    BY <1>0, <1>6, <2>1, AdvanceIs
  <2>3. trace'.lost = trace.lost
    BY <1>0, <1>6 DEF Advance, Traces
  <2> QED BY <2>2, <2>3
<1>7. CASE WriteRow(p)
  <2>1. proc[p].arch \in Archives /\ proc[p].left \in 1 .. proc[p].steps
    BY <1>0, <1>7 DEF WorkSound, WriteRow
  <2>2. trace' = trace /\ proc'[p].pc \in {"stamp", "row"}
    BY <1>0, <1>7, <2>1, WriteRowIs
  <2> QED BY <2>2
<1>8. CASE Stamp(p)
  <2>1. /\ proc[p].pc = "stamp" /\ proc'[p].pc = "ready"
        /\ build = "copy" => trace' = trace
        /\ build # "copy" => file'.last_up = proc[p].t
    BY <1>0, <1>8, StampIs
  <2>2. build # "copy" => proc[p].t > file.last_up
    BY <1>0, <2>1 DEF WorkSound, HeadSound, Holding, Working
  <2> QED BY <1>0, <2>1, <2>2
<1>9. CASE WriteHeader(p)
  <2>1. proc[p].pc = "last_up" /\ file'.last_up = proc[p].head.last_up
    BY <1>0, <1>9, WriteHeaderIs
  <2>2. proc[p].head.last_up > file.last_up
    BY <1>0, <2>1 DEF HeadSound, Holding
  <2> QED BY <1>0, <2>1, <2>2
<1> QED BY <1>1, <1>2, <1>3, <1>4, <1>5, <1>6, <1>7, <1>8, <1>9 DEF Updater

(* A step of a process leaves the reader with what it has seen, and        *)
(* disturbs it if the file changes.                                        *)
LEMMA ReadUpdater ==
    ASSUME AccessInv, AccessInv', ~trace.tainted, ReadInv, NEW p \in Procs, Updater(p), StepOf(p)
    PROVE  ReadInv'
<1> SUFFICES ASSUME ~trace'.tainted, reader'.pc # "idle"
             PROVE  SeenSound(reader)' /\ (reader'.quiet => QuietSound(reader)')
  BY DEF ReadInv
<1>0. TypeOK /\ WorkSound(p) /\ file.last_up \in Nat /\ file'.last_up \in Nat
  BY DEF AccessInv, TypeOK, Files
<1>1. /\ reader' = IF file' = file \/ reader.pc = "idle" THEN reader
                   ELSE [reader EXCEPT !.quiet = FALSE]
      /\ build' = build
  BY DEF StepOf
<1>2. reader \in Readers /\ reader.pc # "idle"
  BY <1>0, <1>1 DEF TypeOK, Readers
<1>3. /\ reader'.pc = reader.pc /\ reader'.a = reader.a /\ reader'.want = reader.want
      /\ reader'.last_up = reader.last_up /\ reader'.cur = reader.cur
      /\ reader'.newest = reader.newest /\ reader'.got = reader.got
      /\ reader'.quiet => reader' = reader /\ file' = file
  BY <1>1, <1>2 DEF Readers
<1>4. SeenSound(reader) /\ (reader.quiet => QuietSound(reader))
  BY <1>2 DEF ReadInv
<1>5. /\ file'.last_up >= file.last_up /\ (Unspoiled' => Unspoiled)
      /\ trace'.since = 0 => trace.since = 0
  BY <1>0, TimeStep, SpoiledStays
<1>6. Offset(reader)' = Offset(reader)
  BY <1>3 DEF Offset, Slot
<1>7. SeenSound(reader)'
  <2>1. reader.last_up \in Nat
    BY <1>2 DEF Readers
  <2> QED BY <1>0, <1>1, <1>3, <1>4, <1>5, <1>6, <2>1 DEF SeenSound
<1>8. ASSUME reader'.quiet PROVE QuietSound(reader)'
  <2>1. reader.quiet /\ QuietSound(reader) /\ reader' = reader /\ file' = file
        /\ reader.a \in Archives
    BY <1>2, <1>3, <1>4, <1>8 DEF Readers
  <2>2. proc[p].pc \notin {"prep", "cur"}
    BY <2>1 DEF QuietSound
  <2>3. /\ proc'[p].pc \notin {"prep", "cur"}
        /\ trace'.lost[reader.a] = 0 => trace.lost[reader.a] = 0
    BY <2>1, <2>2, QuietStep
  <2>4. \A r \in Procs : proc'[r].pc \notin {"prep", "cur"}
    BY <2>1, <2>3 DEF QuietSound, StepOf
  <2> QED BY <1>5, <1>6, <2>1, <2>3, <2>4 DEF QuietSound
<1> QED BY <1>7, <1>8


(* Every action of a process is a step of it.                              *)
LEMMA UpdaterIs ==
    ASSUME AccessInv, ~trace.tainted, NEW p \in Procs, Updater(p)
    PROVE  StepOf(p)
<1>0. TypeOK /\ WorkSound(p)
  BY DEF AccessInv
<1>1. Advance(p) => proc[p].arch \in Archives
  BY <1>0 DEF Advance, WorkSound
<1>2. WriteRow(p) => proc[p].arch \in Archives /\ proc[p].left \in 1 .. proc[p].steps
  BY <1>0 DEF WriteRow, WorkSound
<1> QED BY <1>0, <1>1, <1>2, OpenIs, LockIs, BadArgIs, AdvanceIs, WriteRowIs, StampIs, EndIs,
           WriteHeaderIs, CloseIs, KillIs, ArgIs DEF Updater

(* A reader starts: if nobody holds the lock its row is where it will look *)
(* for it.                                                                 *)
LEMMA ReadHeadSound ==
    ASSUME AccessInv, RowsInv, NEW a \in Archives, NEW s \in 1 .. Slot(MaxTime), ReadHead(a, s)
    PROVE  ReadInv'
<1> SUFFICES ASSUME ~trace'.tainted
             PROVE  SeenSound(reader)' /\ (reader'.quiet => QuietSound(reader)')
  BY DEF ReadInv
<1>0. /\ TypeOK /\ Exclusive /\ file.last_up \in Nat /\ RowCnt \in Nat \ {0} /\ MaxTime \in Nat
      /\ trace.lost[a] \in Nat /\ trace.since \in Nat
  BY AccessAssumption DEF AccessInv, TypeOK, Files, Traces
<1>1. Slot(file.last_up) \in Nat /\ Slot(MaxTime) \in Nat
  BY <1>0, SlotNat
<1> DEFINE top == Slot(file.last_up)
<1>2. /\ reader'.pc = "head" /\ reader'.a = a /\ reader'.want = s
      /\ reader'.last_up = file.last_up
      /\ reader'.quiet = (lock = "none" /\ ~trace.broken)
      /\ s \in top - RowCnt + 1 .. top
      /\ UNCHANGED <<build, file, lock, proc, events, trace>>
  BY DEF ReadHead
<1>3. Offset(reader)' = top - s
  BY <1>2 DEF Offset, Slot
<1>4. s \in Int /\ s > 0 /\ top - s \in 0 .. RowCnt - 1
  <2> HIDE DEF top
  <2>1. top \in Nat
    BY <1>1 DEF top
  <2> QED BY <1>0, <1>1, <1>2, <2>1
<1>5. SeenSound(reader)'
  BY <1>0, <1>2, <1>3, <1>4 DEF SeenSound
<1>6. ASSUME reader'.quiet PROVE QuietSound(reader)'
  <2>1. lock = "none" /\ ~trace.broken
    BY <1>2, <1>6
  <2>2. \A p \in Procs : proc'[p].pc \notin {"prep", "cur"}
    BY <1>0, <1>2, <2>1, AccessAssumption DEF Exclusive, Holding
  <2>3. ASSUME trace.since = 0, trace.lost[a] = 0
        PROVE  file.rows[a][(file.cur[a] - (top - s)) % RowCnt] = s
    <3>1. s \in Reliable(a)
      <4>1. s \in (IF top - RowCnt + 1 + 0 > 0 THEN top - RowCnt + 1 + 0 ELSE 0 + 1) .. top
        <5> HIDE DEF top
        <5>1. top \in Nat
          BY <1>1 DEF top
        <5> QED BY <1>0, <1>2, <1>4, <5>1
      <4> QED BY <2>3, <4>1 DEF Reliable
    <3>2. ArchivesRight
      BY RowsRight
    <3> QED BY <1>2, <2>1, <3>1, <3>2 DEF ArchivesRight
  <2> QED BY <1>2, <1>3, <2>2, <2>3 DEF QuietSound
<1> QED BY <1>5, <1>6

(* A reader goes on.                                                       *)
LEMMA ReadGoesOn ==
    ASSUME AccessInv, PlaceInv, ReadInv, ReadCur \/ ReadRow \/ ReadPrep
    PROVE  ReadInv'
<1> SUFFICES ASSUME ~trace'.tainted
             PROVE  SeenSound(reader)' /\ (reader'.quiet => QuietSound(reader)')
  BY DEF ReadInv
<1>0. UNCHANGED <<build, file, lock, proc, events, trace>>
  BY DEF ReadCur, ReadRow, ReadPrep
<1>1. TypeOK /\ PrepAhead /\ reader.pc \in {"head", "cur"} /\ reader \in Readers
  BY <1>0 DEF AccessInv, TypeOK, ReadCur, ReadRow, ReadPrep
<1>2. SeenSound(reader) /\ (reader.quiet => QuietSound(reader))
  BY <1>0, <1>1 DEF ReadInv
<1>3. reader.a \in Archives
  BY <1>1 DEF Readers
<1>4. /\ reader'.a = reader.a /\ reader'.want = reader.want /\ reader'.last_up = reader.last_up
      /\ reader'.quiet => reader.quiet
  BY <1>1 DEF ReadCur, ReadRow, ReadPrep, Readers
<1>5. Offset(reader)' = Offset(reader)
  BY <1>4 DEF Offset, Slot
<1>6. Unspoiled' = Unspoiled
  BY <1>0 DEF Unspoiled
<1>7. CASE ReadCur
  <2>1. /\ reader.pc = "head" /\ reader'.pc = "cur" /\ reader'.cur = file.cur[reader.a]
        /\ reader'.newest = trace.newest[reader.a]
    BY <1>1, <1>7 DEF ReadCur, Readers
  <2>2. Unspoiled => file.cur[reader.a] = trace.newest[reader.a] % RowCnt
    BY <1>3 DEF PlaceInv
  <2>3. SeenSound(reader)'
    BY <1>0, <1>2, <1>4, <1>5, <1>6, <2>1, <2>2 DEF SeenSound
  <2>4. ASSUME reader'.quiet PROVE QuietSound(reader)'
    <3>1. QuietSound(reader)
      BY <1>2, <1>4, <2>4
    <3> QED BY <1>0, <1>4, <1>5, <2>1, <3>1 DEF QuietSound
  <2> QED BY <2>3, <2>4
<1>8. CASE ReadRow
  <2> DEFINE i == (reader.cur - Offset(reader)) % RowCnt
  <2>1. /\ reader.pc = "cur" /\ reader'.pc = "done" /\ reader'.cur = reader.cur
        /\ reader'.newest = reader.newest /\ reader'.got = file.rows[reader.a][i]
    BY <1>1, <1>8 DEF ReadRow, Readers
  <2>2. i \in Rows
    BY <1>1, ReadPlace
  <2>3. Unspoiled /\ file.rows[reader.a][i] # 0 => file.rows[reader.a][i] % RowCnt = i
    <3> HIDE DEF i
    <3> QED BY <1>3, <2>2 DEF PlaceInv, PlacedRows
  <2>4. SeenSound(reader)'
    BY <1>0, <1>2, <1>4, <1>5, <1>6, <2>1, <2>3 DEF SeenSound
  <2>5. ASSUME reader'.quiet PROVE QuietSound(reader)'
    <3>1. QuietSound(reader)
      BY <1>2, <1>4, <2>5
    <3> QED BY <1>0, <1>4, <1>5, <2>1, <3>1 DEF QuietSound
  <2> QED BY <2>4, <2>5
<1>9. CASE ReadPrep
  <2>1. reader'.pc = "lastupdate" /\ reader'.got = file.prep.time /\ ~reader'.quiet
    BY <1>1, <1>9 DEF ReadPrep, Readers
  <2>2. file.prep.time \in Nat /\ file.last_up \in Nat /\ reader.last_up \in Nat
    BY <1>1 DEF TypeOK, Files, Preps, Readers
  <2>3. build # "copy" => file.prep.time >= file.last_up
    BY <1>1 DEF PrepAhead
  <2>4. SeenSound(reader)'
    BY <1>0, <1>2, <1>4, <1>5, <2>1, <2>2, <2>3 DEF SeenSound
  <2> QED BY <2>1, <2>4
<1> QED BY <1>7, <1>8, <1>9

(* Every step keeps ReadInv.                                               *)
LEMMA ReadStep ==
    ASSUME AccessInv, AccessInv', RowsInv, PlaceInv, ReadInv, [Next]_vars
    PROVE  ReadInv'
<1>1. CASE UNCHANGED vars
  <2>1. Offset(reader)' = Offset(reader)
    BY <1>1 DEF vars, Offset
  <2> QED BY <1>1, <2>1 DEF vars, ReadInv, SeenSound, QuietSound, Unspoiled
<1>2. CASE Next
  <2>0. ~trace.tainted
    BY <1>2 DEF Next
  <2>1. ASSUME NEW p \in Procs, Updater(p) PROVE ReadInv'
    <3>1. StepOf(p)
      BY <2>0, <2>1, UpdaterIs
    <3> QED BY <2>0, <2>1, <3>1, ReadUpdater
  <2>2. ASSUME NEW a \in Archives, NEW s \in 1 .. Slot(MaxTime), ReadHead(a, s) PROVE ReadInv'
    BY <2>2, ReadHeadSound
  <2>3. ReadCur \/ ReadRow \/ ReadPrep => ReadInv'
    BY ReadGoesOn
  <2>4. ReadEnd => ReadInv'
    BY DEF ReadEnd, ReadInv
  <2> QED BY <1>2, <2>1, <2>2, <2>3, <2>4 DEF Next
<1> QED BY <1>1, <1>2

(* What a reader that takes no lock gets, for any number of processes that *)
(* update the file while it reads, of archives and of rows: the row of a   *)
(* step as much later than the wanted one as the row pointer was ahead of  *)
(* last_up when it read them, up to whole rounds of the archive, and its   *)
(* own row if no update ran meanwhile (rrd_fetch_fn); and in a mapped file *)
(* never readings older than last_up (rrd_lastupdate_r).                   *)
THEOREM AccessFetchShift == Spec => []FetchShift
<1>1. Init => PlaceInv /\ ReadInv
  BY PlaceInit DEF Init, ReadInv
<1>2. AccessInv /\ AccessInv' /\ PlaceInv /\ [Next]_vars => PlaceInv'
  BY PlaceStep
<1>3. AccessInv /\ AccessInv' /\ RowsInv /\ PlaceInv /\ ReadInv /\ [Next]_vars => ReadInv'
  BY ReadStep
<1>4. AccessInv /\ ReadInv => FetchShift
  <2> SUFFICES ASSUME AccessInv, ReadInv, ~trace.tainted, reader.pc \in {"done", "lastupdate"}
               PROVE  FetchShift
    BY DEF FetchShift
  <2> DEFINE off == Offset(reader)
  <2>1. reader \in Readers /\ RowCnt \in Nat \ {0}
    BY AccessAssumption DEF AccessInv, TypeOK
  <2>2. SeenSound(reader) /\ (reader.quiet => QuietSound(reader))
    BY DEF ReadInv
  <2>3. /\ reader.got \in Int /\ reader.newest \in Int /\ reader.want \in Int
        /\ off = Slot(reader.last_up) - reader.want /\ Slot(reader.last_up) \in Int /\ off \in Int
    <3>1. reader.got \in Nat /\ reader.newest \in Nat /\ reader.want \in Int /\ reader.last_up \in Nat
      BY <2>1 DEF Readers
    <3>2. Slot(reader.last_up) \in Nat
      BY <3>1, SlotNat
    <3> QED BY <3>1, <3>2 DEF Offset
  <2> DEFINE s == reader.want + reader.newest - Slot(reader.last_up)
             n == reader.newest
             g == reader.got
  <2>4. ASSUME reader.pc = "done", Unspoiled, trace.lost[reader.a] = 0, reader.got # 0
        PROVE  (g - s) % RowCnt = 0 /\ (reader.quiet => reader.got = reader.want)
    <3>1. g % RowCnt = ((n % RowCnt) - off) % RowCnt
      BY <2>2, <2>4 DEF SeenSound
    <3>2. (n % RowCnt) - off = (n % RowCnt) + (-off) /\ s = n + (-off)
          /\ s \in Int /\ -off \in Int /\ n \in Int /\ g \in Int
      <4>1. n % RowCnt \in 0 .. RowCnt - 1
        BY <2>1, <2>3, DivMod, Zenon
      <4> HIDE DEF off
      <4> QED BY <2>1, <2>3, <4>1
    <3>3. reader.quiet => reader.got = reader.want
      BY <2>2, <2>4 DEF QuietSound, Unspoiled
    <3> HIDE DEF s, n, g, off
    <3>4. ((n % RowCnt) + (-off)) % RowCnt = (n + (-off)) % RowCnt
      BY <2>1, <3>2, ModAdd, Zenon
    <3>5. g % RowCnt = s % RowCnt
      BY <3>1, <3>2, <3>4
    <3>6. (g - s) % RowCnt = 0
      BY <2>1, <3>2, <3>5, ModEqual, Zenon
    <3> QED BY <3>3, <3>6
  <2>5. reader.pc = "lastupdate" /\ build # "copy" => reader.got >= reader.last_up
    BY <2>2 DEF SeenSound
  <2> QED BY <2>4, <2>5 DEF FetchShift, Unspoiled
<1> QED BY <1>1, <1>2, <1>3, <1>4, AccessHolds, RowsHolds, PTL DEF Spec

=============================================================================
