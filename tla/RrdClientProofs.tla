-------------------------- MODULE RrdClientProofs ---------------------------
(***************************************************************************)
(* Threads that share the connection of rrd_client.c: each reads its own   *)
(* answer and believes it only if its request was accepted, for any number *)
(* of threads, daemons and calls, whenever a daemon goes away.             *)
(*                                                                         *)
(* The words of a request arrive as they were sent, and a script gets its  *)
(* answers in order, with the failures of each batch, for words and        *)
(* scripts of any length.                                                  *)
(***************************************************************************)
EXTENDS RrdClient, FiniteSetTheorems, WellFoundedInduction, TLAPS

-----------------------------------------------------------------------------
(* The inductive invariant                                                 *)

Verbs == {"UPDATE", "STATS", "FLUSH"}
Units == [id : Nat, name : Verbs, eol : BOOLEAN]
Lines == [kind : {"status", "info"}, id : Nat, num : Int]

\* The library sends no BATCH, so the write buffer is empty between commands.
Connections == [open : BOOLEAN, peer : BOOLEAN, in : Seq(Units), rbuf : Seq(Units),
                batch : {FALSE}, cmds : {0}, wbuf : {<<>>}, out : Seq(Lines)]
CallStates == [op : Calls \cup {"none"}, addr : Addresses \cup {"none"}, id : Nat,
               want : Int, left : Nat, status : Int]
Unsent == {"connect", "connecting", "check", "compare", "request"}
Waiting == {"status", "lines"}
Holding == Waiting \cup {"connecting"}
Resting == {"idle", "gone"}
Places == Resting \cup Unsent \cup Waiting

TypeOK ==
    /\ conn \in [Servers -> Connections] /\ failed \in SUBSET Nat
    /\ lock \in Threads \cup {"none"} /\ sd_path \in Servers \cup {"none"} /\ ids \in Nat
    /\ pc \in [Threads -> Places] /\ call \in [Threads -> CallStates]

\* The requests that the daemon at the other end has not looked at yet.
UnitIds(c) == {c.in[i].id : i \in DOMAIN c.in} \cup {c.rbuf[i].id : i \in DOMAIN c.rbuf}

\* Request x has not been refused, and is not on its way to any daemon but s.
CleanBut(x, s) == x \notin failed /\ \A r \in Servers \ {s} : x \notin UnitIds(conn[r])

\* Request x is neither on its way nor refused.
Clean(x) == CleanBut(x, "none")

\* Nothing is on the way to the daemon.
Quiet(c) == c.peer /\ c.in = <<>> /\ c.rbuf = <<>>

\* A request of one unit is on its way to the daemon, ...
OnItsWay(c, k) ==
    /\ c.open /\ c.out = <<>> /\ CleanBut(k.id, sd_path)
    /\ \/ c.in = <<Unit(k.id, Verb(k.op), TRUE)>> /\ c.rbuf = <<>>
       \/ c.rbuf = <<Unit(k.id, Verb(k.op), TRUE)>> /\ c.in = <<>>

\* ... its answer is complete, ...
AnswerThere(c, k) ==
    /\ Quiet(c) /\ c.out # <<>>
    /\ c.out[1].kind = "status" /\ \A i \in DOMAIN c.out : c.out[i].id = k.id
    /\ Len(c.out) = 1 + (IF c.out[1].num > 0 THEN c.out[1].num ELSE 0)
    /\ c.out[1].num >= 0 => Clean(k.id)

\* ... or none will come.
Gone(c) == Quiet(c) /\ ~c.open /\ c.out = <<>>

\* The lines that the status line has announced are there.
LinesThere(c, k) ==
    /\ Quiet(c) /\ Clean(k.id)
    /\ k.want > 0 /\ Len(c.out) = k.want /\ \A i \in DOMAIN c.out : c.out[i].id = k.id

\* The thread that holds the lock waits for the one answer on the connection.
Flow(t) ==
    /\ sd_path # "none" /\ conn[sd_path].peer
    /\ pc[t] = "status" =>
          OnItsWay(conn[sd_path], call[t]) \/ AnswerThere(conn[sd_path], call[t]) \/ Gone(conn[sd_path])
    /\ pc[t] = "lines" => LinesThere(conn[sd_path], call[t])

\* The numbers of the requests of a call.
Requests(t) == call[t].id .. call[t].id + call[t].left

\* No two calls share a request, and a number that is not given out is clean.
Numbered ==
    /\ \A t \in Threads : call[t].id + call[t].left <= ids
    /\ \A t \in Threads : pc[t] \notin Resting => call[t].id # 0
    /\ \A t, u \in Threads : t # u /\ call[t].id # 0 /\ call[u].id # 0 =>
          Requests(t) \cap Requests(u) = {}
    /\ \A x \in Nat : x > ids => Clean(x)

\* What is not sent yet, and what has succeeded, is clean.
CallClean(t) ==
    /\ pc[t] = "idle" /\ call[t].id # 0 /\ call[t].status = 0 => Clean(call[t].id)
    /\ pc[t] \in Unsent => \A x \in Requests(t) : Clean(x)
    /\ pc[t] \in Waiting => \A x \in Requests(t) : x > call[t].id => Clean(x)

Locked ==
    /\ \A t \in Threads : pc[t] \in Holding <=> lock = t
    /\ \A t \in Threads : pc[t] \in Waiting => Flow(t)
    /\ lock = "none" /\ sd_path # "none" => Quiet(conn[sd_path]) /\ conn[sd_path].out = <<>>

LibraryInv == TypeOK /\ Numbered /\ (\A t \in Threads : CallClean(t)) /\ Locked

ClientInv ==
    /\ mode = "library" => LibraryInv
    /\ mode # "library" => \A t \in Threads : pc[t] = "idle" /\ call[t].id = 0

-----------------------------------------------------------------------------
(* The daemon                                                              *)

(* A STATS answer has a number of lines.                                   *)
LEMMA StatsLines == Cardinality(StatsKeys) \in Nat
<1> DEFINE A == {"QueueLength", "UpdatesReceived", "FlushesReceived"}
           B == {"UpdatesWritten", "DataSetsWritten", "TreeNodesNumber"}
           C == {"TreeDepth", "JournalBytes", "JournalRotate"}
<1>1. ASSUME NEW x, NEW y, NEW z PROVE IsFiniteSet({x, y, z})
  <2>1. IsFiniteSet({x})
    BY FS_Singleton
  <2>2. IsFiniteSet({x} \cup {y})
    BY <2>1, FS_AddElement, Zenon
  <2>3. IsFiniteSet(({x} \cup {y}) \cup {z})
    BY <2>2, FS_AddElement, Zenon
  <2>4. ({x} \cup {y}) \cup {z} = {x, y, z}
    OBVIOUS
  <2> QED
    BY <2>3, <2>4
<1>2. IsFiniteSet(A) /\ IsFiniteSet(B) /\ IsFiniteSet(C)
  BY <1>1
<1>3. StatsKeys = (A \cup B) \cup C
  BY DEF StatsKeys
<1> HIDE DEF A, B, C
<1>4. IsFiniteSet(A \cup B)
  BY <1>2, FS_Union, Zenon
<1>5. IsFiniteSet((A \cup B) \cup C)
  BY <1>2, <1>4, FS_Union, Zenon
<1> QED
  BY <1>3, <1>5, FS_CardinalityType

\* Lines are written behind the ones the peer has not read.
Written(c, new) == [c EXCEPT !.out = @ \o new]

\* A request is refused with one line, or answered with a line that counts the
\* lines behind it.
Refusal(id) == <<Line("status", id, -1)>>
Answer(id, n) == <<Line("status", id, n)>> \o [i \in 1 .. n |-> Line("info", id, i)]

(* What the two answers look like.                                         *)
LEMMA AnswerLines ==
    ASSUME NEW id \in Nat, NEW n \in Nat
    PROVE  /\ Refusal(id) \in Seq(Lines) /\ Len(Refusal(id)) = 1
           /\ Refusal(id)[1] = Line("status", id, -1)
           /\ Answer(id, n) \in Seq(Lines) /\ Len(Answer(id, n)) = n + 1
           /\ Answer(id, n)[1] = Line("status", id, n)
           /\ \A i \in DOMAIN Answer(id, n) : Answer(id, n)[i].id = id
<1>1. Line("status", id, -1) \in Lines /\ Line("status", id, n) \in Lines
  BY DEF Line, Lines
<1>2. Refusal(id) \in Seq(Lines) /\ Len(Refusal(id)) = 1 /\ Refusal(id)[1] = Line("status", id, -1)
  BY <1>1 DEF Refusal
<1> DEFINE st == <<Line("status", id, n)>>
           info == [i \in 1 .. n |-> Line("info", id, i)]
<1>3. st \in Seq(Lines) /\ Len(st) = 1 /\ st[1] = Line("status", id, n)
  BY <1>1
<1>4. /\ info \in Seq(Lines) /\ Len(info) = n
      /\ \A i \in 1 .. n : info[i].id = id
  BY DEF Line, Lines
<1>5. Line("status", id, n).id = id
  BY DEF Line
<1>6. Answer(id, n) = st \o info
  BY DEF Answer
<1> HIDE DEF st, info
<1>7. /\ st \o info \in Seq(Lines) /\ Len(st \o info) = n + 1
      /\ (st \o info)[1] = st[1]
      /\ \A i \in 2 .. n + 1 : (st \o info)[i] = info[i - 1]
  <2>3. ASSUME NEW a \in Seq(Lines), NEW b \in Seq(Lines), Len(a) = 1, Len(b) = n
        PROVE  /\ a \o b \in Seq(Lines) /\ Len(a \o b) = n + 1
               /\ (a \o b)[1] = a[1]
               /\ \A i \in 2 .. n + 1 : (a \o b)[i] = b[i - 1]
    <3>1. a \o b \in Seq(Lines) /\ Len(a \o b) = Len(a) + Len(b)
      OBVIOUS
    <3>2. \A i \in 1 .. Len(a) + Len(b) :
             (a \o b)[i] = IF i <= Len(a) THEN a[i] ELSE b[i - Len(a)]
      OBVIOUS
    <3> DEFINE ab == a \o b
    <3> HIDE DEF ab
    <3>3. \A i \in 1 .. 1 + n : ab[i] = IF i <= 1 THEN a[i] ELSE b[i - 1]
      BY <2>3, <3>2 DEF ab
    <3>4. ab[1] = a[1] /\ \A i \in 2 .. n + 1 : ab[i] = b[i - 1]
      BY <3>3
    <3> QED
      BY <2>3, <3>1, <3>4 DEF ab
  <2> QED
    BY <1>3, <1>4, <2>3
<1>8. \A i \in DOMAIN (st \o info) : (st \o info)[i].id = id
  BY <1>3, <1>4, <1>5, <1>7
<1> QED
  BY <1>2, <1>3, <1>6, <1>7, <1>8

(* The answers to a request of the library: the connection is closed, one  *)
(* status line refuses it, or a status line counts the lines behind it.    *)
LEMMA Handled ==
    ASSUME NEW c \in Connections, NEW id \in Nat, NEW name \in Verbs,
           NEW r \in HandleRequest(c, id, name)
    PROVE  \/ r.rc = 0 /\ r.conn = Closed(c)
           \/ r.rc # 0 /\ r.conn = Written(c, Refusal(id))
           \/ r.rc = 0 /\ \E n \in Nat : r.conn = Written(c, Answer(id, n))
<1>1. CountCommand(c) = c
  BY DEF CountCommand, Connections
<1>2. SendResponse(c, id, -1) = Written(c, Refusal(id))
  <2> DEFINE st == <<Line("status", id, -1)>>
  <2>1. c.out \in Seq(Lines) /\ st \in Seq(Lines) /\ c.batch = FALSE /\ c.wbuf = <<>>
    <3>1. Line("status", id, -1) \in Lines
      BY DEF Lines, Line
    <3>2. st \in Seq(Lines)
      BY <3>1
    <3> HIDE DEF st
    <3> QED
      BY <3>2 DEF Connections
  <2>2. SendResponse(c, id, -1) = [c EXCEPT !.wbuf = <<>>, !.out = (c.out \o st) \o <<>>]
    BY <2>1 DEF SendResponse
  <2> HIDE DEF st
  <2>3. (c.out \o st) \o <<>> = c.out \o st
    BY <2>1
  <2>4. [c EXCEPT !.wbuf = <<>>, !.out = c.out \o st] = [c EXCEPT !.out = c.out \o st]
    BY <2>1 DEF Connections
  <2> QED
    BY <2>2, <2>3, <2>4 DEF st, Refusal, Written
<1>3. ASSUME NEW n \in Nat
      PROVE  SendResponse(AddResponseInfo(c, id, n), id, 0) =
                Written(c, Answer(id, n))
  <2> DEFINE info == [i \in 1 .. n |-> Line("info", id, i)]
  <2>1. info \in Seq(Lines) /\ Len(info) = n
    BY DEF Line, Lines
  <2>2. AddResponseInfo(c, id, n) = [c EXCEPT !.wbuf = info]
    <3>1. c.batch = FALSE /\ c.wbuf = <<>>
      BY DEF Connections
    <3>2. AddResponseInfo(c, id, n) = [c EXCEPT !.wbuf = c.wbuf \o info]
      BY <3>1 DEF AddResponseInfo
    <3> HIDE DEF info
    <3> QED
      BY <2>1, <3>1, <3>2
  <2>3. [c EXCEPT !.wbuf = info].batch = FALSE /\ [c EXCEPT !.wbuf = info].wbuf = info
    BY DEF Connections
  <2> HIDE DEF info
  <2>4. c.out \in Seq(Lines) /\ <<Line("status", id, n)>> \in Seq(Lines)
    <3>1. Line("status", id, n) \in Lines
      BY DEF Lines, Line
    <3> QED
      BY <3>1 DEF Connections
  <2>5. (c.out \o <<Line("status", id, n)>>) \o info = c.out \o (<<Line("status", id, n)>> \o info)
    <3> DEFINE st == <<Line("status", id, n)>>
    <3>1. c.out \in Seq(Lines) /\ st \in Seq(Lines) /\ info \in Seq(Lines)
      BY <2>1, <2>4
    <3> HIDE DEF st
    <3>0. \A a, b, e \in Seq(Lines) : (a \o b) \o e = a \o (b \o e)
      OBVIOUS
    <3>2. (c.out \o st) \o info = c.out \o (st \o info)
      BY <3>0, <3>1
    <3> QED
      BY <3>2 DEF st
  <2> DEFINE d == [c EXCEPT !.wbuf = info]
             all == (c.out \o <<Line("status", id, n)>>) \o info
  <2>6. SendResponse(d, id, 0) = [d EXCEPT !.wbuf = <<>>, !.out = all]
    <3>1. d.out = c.out /\ Len(d.wbuf) = n
      BY <2>1, <2>3 DEF Connections
    <3> QED
      BY <2>3, <3>1 DEF SendResponse
  <2>7. [d EXCEPT !.wbuf = <<>>, !.out = all] = [c EXCEPT !.out = all]
    <3> HIDE DEF all
    <3> QED
      BY DEF Connections
  <2> QED
    BY <2>2, <2>5, <2>6, <2>7 DEF info, Answer, Written
<1>4. SendResponse(AddResponseInfo(c, id, 0), id, -1) = SendResponse(c, id, -1)
  <2>1. c.batch = FALSE /\ c.wbuf = <<>>
    BY DEF Connections
  <2>2. AddResponseInfo(c, id, 0) = [c EXCEPT !.wbuf = <<>>]
    BY <2>1 DEF AddResponseInfo
  <2>3. [c EXCEPT !.wbuf = <<>>] = c
    BY <2>1 DEF Connections
  <2> QED
    BY <2>2, <2>3
<1>5. \/ r = Result(SendResponse(c, id, -1), -1)
      \/ \E o \in Outcomes(name) :
           r = Result(SendResponse(AddResponseInfo(c, id, o[2]), id, o[1]), o[1])
      \/ r = Result(Closed(c), 0)
  BY <1>1 DEF HandleRequest, Verbs
<1>6. CASE r = Result(SendResponse(c, id, -1), -1) \/ r = Result(Closed(c), 0)
  BY <1>2, <1>6 DEF Result
<1>7. CASE \E o \in Outcomes(name) :
             r = Result(SendResponse(AddResponseInfo(c, id, o[2]), id, o[1]), o[1])
  <2>1. PICK o \in Outcomes(name) :
             r = Result(SendResponse(AddResponseInfo(c, id, o[2]), id, o[1]), o[1])
    BY <1>7
  <2>2. \/ o[1] = -1 /\ o[2] = 0
        \/ o[1] = 0 /\ o[2] \in Nat
    BY StatsLines DEF Outcomes, Verbs
  <2> HIDE DEF Result
  <2>3. CASE o[1] = -1 /\ o[2] = 0
    BY <1>2, <1>4, <2>1, <2>3 DEF Result
  <2>4. CASE o[1] = 0 /\ o[2] \in Nat
    <3>1. r = Result(Written(c, Answer(id, o[2])), 0)
      BY <1>3, <2>1, <2>4
    <3>2. r.rc = 0 /\ r.conn = Written(c, Answer(id, o[2]))
      BY <3>1 DEF Result
    <3> QED
      BY <2>4, <3>2
  <2> QED
    BY <2>2, <2>3, <2>4
<1> QED
  BY <1>5, <1>6, <1>7

(* Every set of numbers that is not empty has a least element.             *)
LEMMA NatLeast ==
    ASSUME NEW E \in SUBSET Nat, NEW i \in E
    PROVE  \E m \in E : \A j \in E : m <= j
<1>1. PICK m \in E : \A j \in E : ~(<<j, m>> \in OpToRel(<, Nat))
  BY NatLessThanWellFounded, WFMin
<1>2. ASSUME NEW j \in E PROVE m <= j
  <2>1. <<j, m>> \notin {ss \in Nat \X Nat : ss[1] < ss[2]}
    BY <1>1 DEF OpToRel
  <2> QED
    BY <2>1
<1> QED
  BY <1>2

(* The first complete command of a buffer.                                 *)
LEMMA FirstCommand ==
    ASSUME NEW c \in Connections, NextCmd(c) # 0
    PROVE  NextCmd(c) \in DOMAIN c.rbuf /\ c.rbuf[NextCmd(c)].eol
<1> DEFINE E == {i \in DOMAIN c.rbuf : c.rbuf[i].eol}
<1>1. PICK i \in E : TRUE
  BY DEF NextCmd
<1>2. c.rbuf \in Seq(Units) /\ DOMAIN c.rbuf = 1 .. Len(c.rbuf)
  BY DEF Connections
<1>3. E \subseteq Nat
  BY <1>2
<1>4. PICK m \in E : \A j \in E : m <= j
  BY <1>1, <1>3, NatLeast
<1>5. \A j \in 1 .. m - 1 : ~c.rbuf[j].eol
  BY <1>2, <1>3, <1>4
<1> QED
  BY <1>4, <1>5 DEF NextCmd

(* Whatever is served, the commands that wait become fewer, and only one   *)
(* of them can be refused.                                                 *)
LEMMA ServeUnits ==
    ASSUME conn \in [Servers -> Connections], NEW s \in Servers, Serve(s)
    PROVE  /\ conn' \in [Servers -> Connections]
           /\ \A r \in Servers : r # s => conn'[r] = conn[r]
           /\ UnitIds(conn'[s]) \subseteq UnitIds(conn[s])
           /\ failed' \subseteq failed \cup UnitIds(conn[s])
           /\ conn'[s].peer = conn[s].peer
<1> DEFINE c == conn[s]
<1>0. c \in Connections
  OBVIOUS
<1>1. ASSUME NEW d \in Connections
      PROVE  Closed(d) \in Connections /\ UnitIds(Closed(d)) = {} /\ Closed(d).peer = d.peer
  <2>1. Closed(d).in = <<>> /\ Closed(d).rbuf = <<>> /\ Closed(d).peer = d.peer
    BY DEF Closed, Connections
  <2>2. Closed(d) \in Connections
    <3>1. <<>> \in Seq(Units)
      OBVIOUS
    <3> QED
      BY <3>1 DEF Closed, Connections
  <2> QED
    BY <2>1, <2>2 DEF UnitIds
<1>2. SUFFICES \E d \in Connections :
                  /\ conn' = [conn EXCEPT ![s] = d] /\ UnitIds(d) \subseteq UnitIds(c)
                  /\ d.peer = c.peer /\ failed' \subseteq failed \cup UnitIds(c)
  <2>1. PICK d \in Connections :
                  /\ conn' = [conn EXCEPT ![s] = d] /\ UnitIds(d) \subseteq UnitIds(c)
                  /\ d.peer = c.peer /\ failed' \subseteq failed \cup UnitIds(c)
    BY <1>2
  <2>2. conn'[s] = d
    BY <2>1
  <2>3. conn' \in [Servers -> Connections] /\ \A r \in Servers : r # s => conn'[r] = conn[r]
    BY <2>1
  <2> QED
    BY <2>1, <2>2, <2>3
<1>3. CASE ServeCommand(s)
  <2> DEFINE p == NextCmd(c)
             d == [c EXCEPT !.rbuf = SubSeq(@, p + 1, Len(@))]
             id == c.rbuf[p].id
  <2>1. PICK r \in HandleRequest(d, id, c.rbuf[p].name) :
              /\ conn' = [conn EXCEPT ![s] =
                            IF ~c.peer /\ Len(r.conn.out) > Len(c.out) THEN Closed(r.conn)
                            ELSE r.conn]
              /\ failed' = IF r.rc = 0 THEN failed ELSE failed \cup {id}
    BY <1>3 DEF ServeCommand
  <2>2. p \in DOMAIN c.rbuf
    BY <1>0, <1>3, FirstCommand DEF ServeCommand
  <2>3. c.rbuf \in Seq(Units) /\ id \in Nat /\ c.rbuf[p].name \in Verbs
    <3> HIDE DEF c, p
    <3>1. c.rbuf \in Seq(Units)
      BY <1>0 DEF Connections
    <3>2. c.rbuf[p] \in Units
      BY <2>2, <3>1
    <3> QED
      BY <3>1, <3>2 DEF Units
  <2>4. id \in UnitIds(c)
    BY <2>2 DEF UnitIds
  <2>5. SubSeq(c.rbuf, p + 1, Len(c.rbuf)) \in Seq(Units)
    BY <2>2, <2>3
  <2>6. d \in Connections /\ d.in = c.in /\ d.rbuf = SubSeq(c.rbuf, p + 1, Len(c.rbuf))
           /\ d.peer = c.peer
    BY <1>0, <2>5 DEF Connections
  <2>7. \A i \in DOMAIN d.rbuf : p + i \in DOMAIN c.rbuf /\ d.rbuf[i] = c.rbuf[p + i]
    BY <2>2, <2>3, <2>6
  <2>8. UnitIds(d) \subseteq UnitIds(c)
    <3> HIDE DEF d, p, c
    <3> QED
      BY <2>6, <2>7 DEF UnitIds
  <2> HIDE DEF d, p, id, c
  <2>9. r.conn \in Connections /\ UnitIds(r.conn) \subseteq UnitIds(d) /\ r.conn.peer = d.peer
    <3>1. CASE r.conn = Closed(d)
      BY <1>1, <2>6, <3>1
    <3>2. ASSUME NEW new \in Seq(Lines), r.conn = Written(d, new)
          PROVE  r.conn \in Connections /\ UnitIds(r.conn) \subseteq UnitIds(d)
                    /\ r.conn.peer = d.peer
      <4>1. d.out \o new \in Seq(Lines)
        BY <2>6 DEF Connections
      <4> QED
        BY <2>6, <3>2, <4>1 DEF Connections, UnitIds, Written
    <3>3. \/ r.conn = Closed(d)
          \/ r.conn = Written(d, Refusal(id))
          \/ \E n \in Nat : r.conn = Written(d, Answer(id, n))
      <4> DEFINE name == c.rbuf[p].name
      <4>1. name \in Verbs /\ id \in Nat /\ d \in Connections /\ r \in HandleRequest(d, id, name)
        BY <2>3, <2>6
      <4> HIDE DEF name
      <4> QED
        BY <4>1, Handled
    <3>4. CASE r.conn = Written(d, Refusal(id))
      BY <2>3, <3>2, <3>4, AnswerLines
    <3>5. CASE \E n \in Nat : r.conn = Written(d, Answer(id, n))
      BY <2>3, <3>2, <3>5, AnswerLines
    <3> QED
      BY <3>1, <3>3, <3>4, <3>5
  <2>10. CASE ~c.peer /\ Len(r.conn.out) > Len(c.out)
    <3>1. conn' = [conn EXCEPT ![s] = Closed(r.conn)]
      BY <2>1, <2>10
    <3> QED
      BY <1>1, <2>1, <2>4, <2>6, <2>9, <3>1
  <2>11. CASE ~(~c.peer /\ Len(r.conn.out) > Len(c.out))
    <3>1. conn' = [conn EXCEPT ![s] = r.conn]
      BY <2>1, <2>11
    <3> QED
      BY <2>1, <2>4, <2>6, <2>8, <2>9, <3>1
  <2> QED
    BY <2>10, <2>11
<1>4. CASE ServeRead(s)
  <2>1. PICK d \in Reads(c) : conn' = [conn EXCEPT ![s] = d] /\ failed' = failed
    BY <1>4 DEF ServeRead
  <2>2. CASE d = Closed(c)
    BY <1>0, <1>1, <2>1, <2>2
  <2>3. CASE d # Closed(c)
    <3>1. PICK n \in 1 .. Len(c.in) : d = [c EXCEPT !.rbuf = @ \o SubSeq(c.in, 1, n),
                                                    !.in = SubSeq(@, n + 1, Len(@))]
      BY <2>1, <2>3 DEF Reads, ReadFull
    <3> DEFINE a == SubSeq(c.in, 1, n)
               b == SubSeq(c.in, n + 1, Len(c.in))
    <3>2. c.in \in Seq(Units) /\ c.rbuf \in Seq(Units)
      BY <1>0 DEF Connections
    <3>3. a \in Seq(Units) /\ b \in Seq(Units) /\ c.rbuf \o a \in Seq(Units)
      BY <3>2
    <3>4. \A i \in DOMAIN a : i \in DOMAIN c.in /\ a[i] = c.in[i]
      BY <3>2
    <3>5. \A i \in DOMAIN b : n + i \in DOMAIN c.in /\ b[i] = c.in[n + i]
      BY <3>2
    <3> HIDE DEF a, b, c
    <3>6. \A i \in DOMAIN (c.rbuf \o a) :
             \/ i \in DOMAIN c.rbuf /\ (c.rbuf \o a)[i] = c.rbuf[i]
             \/ i - Len(c.rbuf) \in DOMAIN a /\ (c.rbuf \o a)[i] = a[i - Len(c.rbuf)]
      BY <3>2, <3>3
    <3>7. d \in Connections /\ d.rbuf = c.rbuf \o a /\ d.in = b /\ d.peer = c.peer
      BY <1>0, <3>1, <3>3 DEF a, b, Connections
    <3>8. UnitIds(d) \subseteq UnitIds(c)
      BY <3>4, <3>5, <3>6, <3>7 DEF UnitIds
    <3> QED
      BY <2>1, <3>7, <3>8
  <2> QED
    BY <2>2, <2>3
<1>5. CASE ServeStop(s)
  BY <1>0, <1>1, <1>5 DEF ServeStop
<1> QED
  BY <1>3, <1>4, <1>5 DEF Serve

(* What is clean stays clean while a daemon works.                         *)
LEMMA ServeClean ==
    ASSUME conn \in [Servers -> Connections], NEW s \in Servers, Serve(s),
           NEW x, NEW r \in Servers \cup {"none"}, r # s, CleanBut(x, r)
    PROVE  CleanBut(x, r)'
BY ServeUnits DEF CleanBut

(* A daemon that nothing has been sent to can only hang up.                *)
LEMMA ServeQuiet ==
    ASSUME conn \in [Servers -> Connections], NEW s \in Servers, Serve(s), Quiet(conn[s])
    PROVE  /\ failed' = failed /\ conn' = [conn EXCEPT ![s] = Closed(@)]
           /\ conn'[s].out = conn[s].out /\ Quiet(conn'[s]) /\ ~conn'[s].open
<1>1. NextCmd(conn[s]) = 0
  BY DEF Quiet, NextCmd
<1>2. ~ServeCommand(s)
  BY <1>1 DEF ServeCommand
<1>3. Len(conn[s].rbuf) # RbufSize
  BY ClientAssumption DEF Quiet
<1>4. ~ServeRead(s)
  BY <1>3 DEF ServeRead, Reads, Quiet
<1>5. ServeStop(s)
  BY <1>2, <1>4 DEF Serve
<1> QED
  BY <1>5 DEF ServeStop, Closed, Connections, Quiet

(* A daemon reads the request of the thread that waits, answers it, or     *)
(* hangs up.                                                               *)
LEMMA ServeRequest ==
    ASSUME conn \in [Servers -> Connections], sd_path \in Servers, sd_path' = sd_path, NEW k \in CallStates,
           conn[sd_path].peer, OnItsWay(conn[sd_path], k), Serve(sd_path)
    PROVE  OnItsWay(conn[sd_path], k)' \/ AnswerThere(conn[sd_path], k)' \/ Gone(conn[sd_path])'
<1> DEFINE c == conn[sd_path]
           u == Unit(k.id, Verb(k.op), TRUE)
<1>1. c \in Connections /\ c.peer /\ c.open /\ c.out = <<>> /\ c.wbuf = <<>>
  BY DEF OnItsWay, Connections
<1>2. u \in Units /\ u.id = k.id /\ u.name = Verb(k.op) /\ u.eol = TRUE
  BY DEF Unit, Units, Verbs, Verb, CallStates
<1>3. (c.in = <<u>> /\ c.rbuf = <<>>) \/ (c.rbuf = <<u>> /\ c.in = <<>>)
  BY DEF OnItsWay
<1>4. CleanBut(k.id, sd_path)
  BY DEF OnItsWay
<1>5. ASSUME NEW d \in Connections, conn' = [conn EXCEPT ![sd_path] = d]
      PROVE  /\ conn'[sd_path] = d
             /\ failed' = failed => CleanBut(k.id, sd_path)'
             /\ failed' = failed /\ UnitIds(d) = {} => Clean(k.id)'
  <2>1. conn'[sd_path] = d /\ \A r \in Servers : r # sd_path => conn'[r] = conn[r]
    BY <1>5
  <2> QED
    BY <1>4, <2>1 DEF CleanBut, Clean
<1> HIDE DEF u
<1>6. Closed(c) \in Connections /\ Quiet(Closed(c)) /\ ~Closed(c).open /\ Closed(c).out = <<>>
  <2>1. <<>> \in Seq(Units)
    OBVIOUS
  <2> QED
    BY <1>1, <2>1 DEF Closed, Quiet, Connections
<1>7. CASE ServeCommand(sd_path)
  <2> DEFINE p == NextCmd(c)
  <2>1. p \in DOMAIN c.rbuf
    BY <1>1, <1>7, FirstCommand DEF ServeCommand
  <2>2. c.rbuf = <<u>> /\ c.in = <<>> /\ p = 1
    BY <1>3, <2>1
  <2>3. c.rbuf[p] = u
    BY <2>2
  <2> DEFINE d == [c EXCEPT !.rbuf = SubSeq(@, p + 1, Len(@))]
  <2>4. SubSeq(c.rbuf, p + 1, Len(c.rbuf)) = <<>>
    BY <1>2, <2>2
  <2>5. d \in Connections /\ Quiet(d) /\ d.out = <<>>
    <3>1. d = [c EXCEPT !.rbuf = <<>>]
      BY <2>4
    <3>2. <<>> \in Seq(Units)
      OBVIOUS
    <3> HIDE DEF d
    <3> QED
      BY <1>1, <2>2, <3>1, <3>2 DEF Quiet, Connections
  <2>6. PICK r \in HandleRequest(d, k.id, Verb(k.op)) :
              /\ conn' = [conn EXCEPT ![sd_path] = r.conn]
              /\ failed' = IF r.rc = 0 THEN failed ELSE failed \cup {k.id}
    BY <1>1, <1>2, <1>7, <2>3 DEF ServeCommand
  <2> HIDE DEF d, p, c
  <2> DEFINE name == Verb(k.op)
             id == k.id
  <2>7. name \in Verbs /\ id \in Nat /\ r \in HandleRequest(d, id, name)
    BY DEF Verbs, Verb, CallStates
  <2> HIDE DEF name
  <2>8. \/ r.rc = 0 /\ r.conn = Closed(d)
        \/ r.rc # 0 /\ r.conn = Written(d, Refusal(id))
        \/ r.rc = 0 /\ \E n \in Nat : r.conn = Written(d, Answer(id, n))
    BY <2>5, <2>7, Handled
  <2>9. CASE r.conn = Closed(d)
    <3>1. <<>> \in Seq(Units)
      OBVIOUS
    <3>2. Closed(d) \in Connections /\ Quiet(Closed(d)) /\ ~Closed(d).open /\ Closed(d).out = <<>>
      BY <2>5, <3>1 DEF Closed, Quiet, Connections
    <3> QED
      BY <1>5, <2>6, <2>9, <3>2 DEF Gone
  <2>10. ASSUME NEW new \in Seq(Lines)
         PROVE  Written(d, new) \in Connections /\ Quiet(Written(d, new))
                   /\ Written(d, new).out = new
    <3>1. d.out \o new = new
      BY <2>5
    <3> QED
      BY <2>5, <3>1 DEF Written, Quiet, Connections
  <2>11. CASE r.conn = Written(d, Refusal(id))
    <3> DEFINE e == Written(d, Refusal(id))
    <3>1. e \in Connections /\ Quiet(e) /\ e.out = Refusal(id)
      BY <2>7, <2>10, AnswerLines
    <3>2. conn'[sd_path] = e
      BY <1>5, <2>6, <2>11, <3>1
    <3>3. /\ Refusal(id) # <<>> /\ Len(Refusal(id)) = 1 /\ DOMAIN Refusal(id) = {1}
          /\ Refusal(id)[1] = Line("status", id, -1)
      BY <2>7, AnswerLines
    <3> HIDE DEF e, id
    <3>4. Refusal(id)[1].kind = "status" /\ Refusal(id)[1].id = id /\ Refusal(id)[1].num = -1
      BY <3>3 DEF Line
    <3>5. ~(-1 > 0) /\ ~(-1 >= 0) /\ 1 = 1 + 0
      OBVIOUS
    <3> QED
      BY <3>1, <3>2, <3>3, <3>4, <3>5 DEF AnswerThere, id
  <2>12. CASE r.rc = 0 /\ \E n \in Nat : r.conn = Written(d, Answer(id, n))
    <3>1. PICK n \in Nat : r.conn = Written(d, Answer(id, n))
      BY <2>12
    <3> DEFINE e == Written(d, Answer(id, n))
    <3>2. e \in Connections /\ Quiet(e) /\ e.out = Answer(id, n)
      BY <2>7, <2>10, AnswerLines
    <3>3. UnitIds(e) = {}
      BY <3>2 DEF UnitIds, Quiet
    <3>4. conn'[sd_path] = e /\ Clean(k.id)'
      BY <1>5, <2>6, <2>12, <3>1, <3>2, <3>3
    <3>5. /\ Answer(id, n) # <<>> /\ Len(Answer(id, n)) = n + 1
          /\ Answer(id, n)[1] = Line("status", id, n)
          /\ \A i \in DOMAIN Answer(id, n) : Answer(id, n)[i].id = id
      <4>1. /\ Len(Answer(id, n)) = n + 1
            /\ Answer(id, n)[1] = Line("status", id, n)
            /\ \A i \in DOMAIN Answer(id, n) : Answer(id, n)[i].id = id
        BY <2>7, AnswerLines
      <4>2. n + 1 # 0
        OBVIOUS
      <4> QED
        BY <4>1, <4>2
    <3>6. Answer(id, n)[1].kind = "status" /\ Answer(id, n)[1].num = n
      BY <3>5 DEF Line
    <3>7. n + 1 = 1 + (IF n > 0 THEN n ELSE 0)
      OBVIOUS
    <3> HIDE DEF e, id
    <3> QED
      BY <3>2, <3>4, <3>5, <3>6, <3>7 DEF AnswerThere, id
  <2> QED
    BY <2>8, <2>9, <2>11, <2>12
<1>8. CASE ServeRead(sd_path)
  <2>1. NextCmd(c) = 0 /\ \E e \in Reads(c) : conn' = [conn EXCEPT ![sd_path] = e]
    BY <1>8 DEF ServeRead
  <2>2. failed' = failed
    BY <1>8 DEF ServeRead
  <2>3. c.rbuf # <<u>>
    <3>1. SUFFICES ASSUME c.rbuf = <<u>> PROVE FALSE
      OBVIOUS
    <3>2. 1 \in DOMAIN c.rbuf /\ c.rbuf[1].eol /\ \A j \in 1 .. 1 - 1 : ~c.rbuf[j].eol
      BY <1>2, <3>1
    <3>3. NextCmd(c) = CHOOSE i \in DOMAIN c.rbuf :
                          c.rbuf[i].eol /\ \A j \in 1 .. i - 1 : ~c.rbuf[j].eol
      BY <3>2 DEF NextCmd
    <3>4. NextCmd(c) \in DOMAIN c.rbuf
      BY <3>2, <3>3
    <3> QED
      BY <2>1, <3>1, <3>4
  <2>4. c.in = <<u>> /\ c.rbuf = <<>>
    BY <1>3, <2>3
  <2>5. PICK e \in Reads(c) : conn' = [conn EXCEPT ![sd_path] = e]
    BY <2>1
  <2>6. e = [c EXCEPT !.rbuf = <<>> \o SubSeq(<<u>>, 1, 1), !.in = SubSeq(<<u>>, 2, 1)]
    <3>1. Len(c.rbuf) # RbufSize /\ Len(c.in) = 1 /\ c.in # <<>>
      BY <2>4, ClientAssumption
    <3>2. PICK n \in 1 .. Len(c.in) : e = [c EXCEPT !.rbuf = @ \o SubSeq(c.in, 1, n),
                                                    !.in = SubSeq(@, n + 1, Len(@))]
      BY <2>5, <3>1 DEF Reads
    <3>3. n = 1
      BY <3>1, <3>2
    <3> QED
      BY <2>4, <3>1, <3>2, <3>3
  <2>7. <<>> \o SubSeq(<<u>>, 1, 1) = <<u>> /\ SubSeq(<<u>>, 2, 1) = <<>>
    <3>1. SubSeq(<<u>>, 2, 1) = <<>>
      BY <1>2
    <3>2. SubSeq(<<u>>, 1, 1) = <<u>>
      <4>1. \A w \in Seq(Units) : SubSeq(w, 1, Len(w)) = w
        OBVIOUS
      <4>2. <<u>> \in Seq(Units) /\ Len(<<u>>) = 1
        BY <1>2
      <4> QED
        BY <4>1, <4>2
    <3>3. <<>> \o <<u>> = <<u>>
      BY <1>2
    <3> QED
      BY <3>1, <3>2, <3>3
  <2>8. e = [c EXCEPT !.rbuf = <<u>>, !.in = <<>>]
    BY <2>6, <2>7
  <2>9. <<u>> \in Seq(Units) /\ <<>> \in Seq(Units)
    BY <1>2
  <2>10. e \in Connections /\ e.open /\ e.out = <<>> /\ e.rbuf = <<u>> /\ e.in = <<>>
    <3> DEFINE v == <<u>>
    <3> HIDE DEF v
    <3> QED
      BY <1>1, <2>8, <2>9 DEF v, Connections
  <2>11. conn'[sd_path] = e /\ CleanBut(k.id, sd_path)'
    BY <1>5, <2>2, <2>5, <2>10
  <2> QED
    BY <2>10, <2>11 DEF OnItsWay, u
<1>9. CASE ServeStop(sd_path)
  BY <1>5, <1>6, <1>9 DEF ServeStop, Gone
<1> QED
  BY <1>7, <1>8, <1>9 DEF Serve

(* A daemon that works disturbs no call.                                   *)
LEMMA ServeInv ==
    ASSUME LibraryInv, NEW s \in Servers, Serve(s), UNCHANGED libVars
    PROVE  LibraryInv'
<1>1. lock' = lock /\ sd_path' = sd_path /\ pc' = pc /\ call' = call /\ ids' = ids
  BY DEF libVars
<1>2. conn \in [Servers -> Connections] /\ sd_path \in Servers \cup {"none"}
  BY DEF LibraryInv, TypeOK
<1>3. ASSUME NEW x, Clean(x) PROVE Clean(x)'
  BY <1>2, <1>3, ServeClean, ClientAssumption DEF Clean
<1>4. TypeOK'
  <2>1. UnitIds(conn[s]) \subseteq Nat
    <3> DEFINE c == conn[s]
    <3>1. c.in \in Seq(Units) /\ c.rbuf \in Seq(Units)
      BY <1>2 DEF Connections
    <3> HIDE DEF c
    <3>2. \A i \in DOMAIN c.in : c.in[i] \in Units
      BY <3>1
    <3>3. \A i \in DOMAIN c.rbuf : c.rbuf[i] \in Units
      BY <3>1
    <3>4. \A x \in Units : x.id \in Nat
      BY DEF Units
    <3> QED
      BY <3>2, <3>3, <3>4 DEF UnitIds, c
  <2> QED
    BY <1>1, <1>2, <2>1, ServeUnits DEF LibraryInv, TypeOK
<1>5. Numbered'
  BY <1>1, <1>3 DEF LibraryInv, Numbered, Requests
<1>6. \A t \in Threads : CallClean(t)'
  BY <1>1, <1>3 DEF LibraryInv, CallClean, Requests
<1>7. ASSUME NEW t \in Threads, pc[t] \in Waiting PROVE Flow(t)'
  <2>1. Flow(t) /\ sd_path \in Servers /\ call[t] \in CallStates
    BY <1>2, <1>7 DEF LibraryInv, Locked, Flow, TypeOK
  <2>2. conn'[sd_path].peer
    BY <1>2, <2>1, ServeUnits DEF Flow
  <2>3. CASE s # sd_path
    <3>1. conn'[sd_path] = conn[sd_path]
      BY <1>2, <2>1, <2>3, ServeUnits
    <3>2. OnItsWay(conn[sd_path], call[t]) => OnItsWay(conn[sd_path], call[t])'
      BY <1>1, <1>2, <2>1, <2>3, <3>1, ServeClean DEF OnItsWay
    <3>3. AnswerThere(conn[sd_path], call[t]) => AnswerThere(conn[sd_path], call[t])'
      BY <1>1, <1>3, <3>1 DEF AnswerThere
    <3>4. LinesThere(conn[sd_path], call[t]) => LinesThere(conn[sd_path], call[t])'
      BY <1>1, <1>3, <3>1 DEF LinesThere
    <3> QED
      BY <1>1, <2>1, <2>2, <3>1, <3>2, <3>3, <3>4 DEF Flow, Gone
  <2>4. CASE s = sd_path /\ Quiet(conn[sd_path])
    <3>1. /\ conn'[sd_path].out = conn[sd_path].out /\ Quiet(conn'[sd_path])
          /\ ~conn'[sd_path].open
      BY <1>2, <2>1, <2>4, ServeQuiet
    <3>2. ~OnItsWay(conn[sd_path], call[t])
      BY <2>4 DEF OnItsWay, Quiet
    <3>3. AnswerThere(conn[sd_path], call[t]) => AnswerThere(conn[sd_path], call[t])'
      BY <1>1, <1>3, <3>1 DEF AnswerThere
    <3>4. LinesThere(conn[sd_path], call[t]) => LinesThere(conn[sd_path], call[t])'
      BY <1>1, <1>3, <3>1 DEF LinesThere
    <3>5. Gone(conn[sd_path]) => Gone(conn[sd_path])'
      BY <1>1, <3>1 DEF Gone
    <3> QED
      BY <1>1, <2>1, <2>2, <3>2, <3>3, <3>4, <3>5 DEF Flow
  <2>5. CASE s = sd_path /\ ~Quiet(conn[sd_path])
    <3>1. pc[t] = "status" /\ OnItsWay(conn[sd_path], call[t])
      BY <1>7, <2>1, <2>5 DEF Flow, AnswerThere, Gone, LinesThere, Waiting
    <3>2. OnItsWay(conn[sd_path], call[t])' \/ AnswerThere(conn[sd_path], call[t])' \/ Gone(conn[sd_path])'
      <4>1. PICK k \in CallStates : k = call[t]
        BY <2>1
      <4>2. OnItsWay(conn[sd_path], k) /\ conn[sd_path].peer
        BY <2>1, <3>1, <4>1 DEF Flow
      <4>3. OnItsWay(conn[sd_path], k)' \/ AnswerThere(conn[sd_path], k)' \/ Gone(conn[sd_path])'
        BY <1>1, <1>2, <2>1, <2>5, <4>2, ServeRequest
      <4> QED
        BY <1>1, <4>1, <4>3
    <3> QED
      BY <1>1, <2>1, <2>2, <3>1, <3>2 DEF Flow
  <2> QED
    BY <2>3, <2>4, <2>5
<1>8. (lock = "none" /\ sd_path # "none" => Quiet(conn[sd_path]) /\ conn[sd_path].out = <<>>)'
  <2>1. SUFFICES ASSUME lock = "none", sd_path # "none"
                 PROVE  Quiet(conn'[sd_path]) /\ conn'[sd_path].out = <<>>
    BY <1>1
  <2>2. sd_path \in Servers /\ Quiet(conn[sd_path]) /\ conn[sd_path].out = <<>>
    BY <1>2, <2>1 DEF LibraryInv, Locked
  <2>3. CASE s # sd_path
    BY <1>2, <2>2, <2>3, ServeUnits
  <2>4. CASE s = sd_path
    BY <1>2, <2>2, <2>4, ServeQuiet
  <2> QED
    BY <2>3, <2>4
<1> QED
  BY <1>1, <1>4, <1>5, <1>6, <1>7, <1>8 DEF LibraryInv, Locked

-----------------------------------------------------------------------------
(* The library                                                             *)

\* A step of thread t leaves the calls of the others alone and takes no number
\* that is given out.
OwnCall(t) ==
    /\ pc' \in [Threads -> Places] /\ call' \in [Threads -> CallStates]
    /\ ids' \in Nat /\ ids <= ids'
    /\ \A u \in Threads \ {t} : pc'[u] = pc[u] /\ call'[u] = call[u]
    /\ call'[t].id # 0 /\ call'[t].id + call'[t].left <= ids'
    /\ \A x \in call'[t].id .. call'[t].id + call'[t].left :
          x > ids \/ (call[t].id # 0 /\ x \in Requests(t))

\* A step of thread t sends or refuses nothing but the request of t.
OwnRequest(t) == \A x \in Nat : Clean(x) => Clean(x)' \/ (call[t].id # 0 /\ x = call[t].id)

(* Such a step keeps the numbers apart and the calls of the others clean.  *)
LEMMA OneCall ==
    ASSUME LibraryInv, NEW t \in Threads, OwnCall(t), OwnRequest(t), CallClean(t)'
    PROVE  Numbered' /\ \A u \in Threads : CallClean(u)'
<1>1. \A u \in Threads : /\ call[u].id \in Nat /\ call[u].left \in Nat
                          /\ call'[u].id \in Nat /\ call'[u].left \in Nat
  BY DEF LibraryInv, TypeOK, CallStates, OwnCall
<1>2. ids \in Nat /\ ids' \in Nat /\ ids <= ids'
  BY DEF LibraryInv, TypeOK, OwnCall
<1>3. \A u \in Threads : call[u].id + call[u].left <= ids
  BY DEF LibraryInv, Numbered
<1>4. ASSUME NEW u \in Threads \ {t}, call[u].id # 0, NEW x \in Requests(u)
      PROVE  x \in Nat /\ x <= ids /\ (call[t].id # 0 => x \notin Requests(t) /\ x # call[t].id)
  <2>1. x \in Nat /\ x <= ids
    BY <1>1, <1>2, <1>3, <1>4 DEF Requests
  <2>2. call[t].id # 0 => x \notin Requests(t)
    BY <1>4 DEF LibraryInv, Numbered
  <2>3. call[t].id \in Requests(t)
    BY <1>1 DEF Requests
  <2> QED
    BY <2>1, <2>2, <2>3
<1>5. Numbered'
  <2>1. \A u \in Threads : call'[u].id + call'[u].left <= ids'
    BY <1>1, <1>2, <1>3 DEF OwnCall
  <2>2. \A u \in Threads : pc'[u] \notin Resting => call'[u].id # 0
    BY DEF OwnCall, LibraryInv, Numbered
  <2>3. ASSUME NEW u \in Threads \ {t}, call'[u].id # 0
        PROVE  Requests(t)' \cap Requests(u)' = {}
    <3>1. SUFFICES ASSUME NEW x \in Requests(t)', x \in Requests(u)' PROVE FALSE
      OBVIOUS
    <3>2. call'[u] = call[u]
      BY DEF OwnCall
    <3>3. x \in Requests(u) /\ call[u].id # 0
      BY <2>3, <3>1, <3>2 DEF Requests
    <3>4. x > ids \/ (call[t].id # 0 /\ x \in Requests(t))
      BY <3>1 DEF OwnCall, Requests
    <3> QED
      BY <1>2, <1>4, <3>3, <3>4
  <2>4. ASSUME NEW u \in Threads \ {t}, NEW v \in Threads \ {t}, u # v,
               call'[u].id # 0, call'[v].id # 0
        PROVE  Requests(u)' \cap Requests(v)' = {}
    BY <2>4 DEF OwnCall, LibraryInv, Numbered, Requests
  <2>5. ASSUME NEW u \in Threads, NEW v \in Threads, u # v, call'[u].id # 0, call'[v].id # 0
        PROVE  Requests(u)' \cap Requests(v)' = {}
    <3>1. CASE u = t
      BY <2>3, <2>5, <3>1
    <3>2. CASE v = t
      BY <2>3, <2>5, <3>2
    <3>3. CASE u # t /\ v # t
      BY <2>4, <2>5, <3>3
    <3> QED
      BY <3>1, <3>2, <3>3
  <2>6. ASSUME NEW x \in Nat, x > ids' PROVE Clean(x)'
    <3>1. x > ids /\ x # call[t].id
      BY <1>1, <1>2, <1>3, <2>6
    <3>2. Clean(x)
      BY <3>1 DEF LibraryInv, Numbered
    <3> QED
      BY <3>1, <3>2 DEF OwnRequest
  <2> QED
    BY <2>1, <2>2, <2>5, <2>6 DEF Numbered
<1>6. ASSUME NEW u \in Threads \ {t} PROVE CallClean(u)'
  <2>1. pc'[u] = pc[u] /\ call'[u] = call[u] /\ Requests(u)' = Requests(u)
    BY DEF OwnCall, Requests
  <2>2. CallClean(u) /\ (pc[u] \notin Resting => call[u].id # 0)
    BY DEF LibraryInv, Numbered
  <2>3. ASSUME NEW x \in Requests(u), call[u].id # 0, Clean(x) PROVE Clean(x)'
    BY <1>4, <2>3 DEF OwnRequest
  <2>4. call[u].id \in Requests(u)
    BY <1>1 DEF Requests
  <2> QED
    BY <2>1, <2>2, <2>3, <2>4 DEF CallClean, Unsent, Waiting, Resting
<1> QED
  BY <1>5, <1>6

(* The lock is free, or given back.                                        *)
LEMMA LockedFree ==
    ASSUME LibraryInv, NEW t \in Threads, lock \in {"none", t}, lock' = "none",
           pc'[t] \notin Holding,
           \A u \in Threads \ {t} : pc'[u] = pc[u],
           sd_path' # "none" => Quiet(conn'[sd_path']) /\ conn'[sd_path'].out = <<>>
    PROVE  Locked'
<1>1. \A u \in Threads : u # "none"
  BY ClientAssumption
<1>2. \A u \in Threads \ {t} : pc[u] \notin Holding
  BY <1>1 DEF LibraryInv, Locked
<1> QED
  BY <1>1, <1>2 DEF Locked, Holding

(* The lock is taken, or kept.                                             *)
LEMMA LockedBy ==
    ASSUME LibraryInv, NEW t \in Threads, lock \in {"none", t}, lock' = t, pc'[t] \in Holding,
           pc'[t] \in Waiting => Flow(t)',
           \A u \in Threads \ {t} : pc'[u] = pc[u]
    PROVE  Locked'
<1>1. \A u \in Threads : u # "none"
  BY ClientAssumption
<1>2. \A u \in Threads \ {t} : pc[u] \notin Holding
  BY <1>1 DEF LibraryInv, Locked
<1> QED
  BY <1>1, <1>2 DEF Locked, Holding

(* A thread does something of its own.                                     *)
LEMMA LockedSame ==
    ASSUME LibraryInv, NEW t \in Threads, UNCHANGED <<conn, failed, lock, sd_path>>,
           pc[t] \notin Holding, pc'[t] \notin Holding,
           \A u \in Threads \ {t} : pc'[u] = pc[u] /\ call'[u] = call[u]
    PROVE  Locked'
<1>1. ASSUME NEW u \in Threads, pc'[u] \in Waiting PROVE Flow(u)'
  <2>1. pc'[u] = pc[u] /\ call'[u] = call[u] /\ Flow(u)
    BY <1>1 DEF LibraryInv, Locked, Holding
  <2> QED
    BY <2>1 DEF Flow, OnItsWay, AnswerThere, Gone, LinesThere, Clean, CleanBut
<1>2. \A u \in Threads : pc'[u] \in Holding <=> lock' = u
  BY DEF LibraryInv, Locked
<1>3. (lock = "none" /\ sd_path # "none" => Quiet(conn[sd_path]) /\ conn[sd_path].out = <<>>)'
  BY DEF LibraryInv, Locked
<1> QED
  BY <1>1, <1>2, <1>3 DEF Locked

(* Closing the connection leaves what is on its way.                       *)
LEMMA HangUpClean ==
    ASSUME conn \in [Servers -> Connections]
    PROVE  /\ HangUp(conn) \in [Servers -> Connections]
           /\ \A s \in Servers : UnitIds(HangUp(conn)[s]) = UnitIds(conn[s])
<1>1. ASSUME NEW c \in Connections
      PROVE  /\ [c EXCEPT !.peer = FALSE] \in Connections
             /\ UnitIds([c EXCEPT !.peer = FALSE]) = UnitIds(c)
  <2>1. /\ [c EXCEPT !.peer = FALSE].in = c.in /\ [c EXCEPT !.peer = FALSE].rbuf = c.rbuf
        /\ [c EXCEPT !.peer = FALSE] \in Connections
    BY DEF Connections
  <2> QED
    BY <2>1 DEF UnitIds
<1>2. ASSUME NEW s \in Servers
      PROVE  HangUp(conn)[s] \in Connections /\ UnitIds(HangUp(conn)[s]) = UnitIds(conn[s])
  <2>1. CASE s = sd_path
    BY <1>1, <2>1 DEF HangUp
  <2>2. CASE s # sd_path
    BY <2>2 DEF HangUp
  <2> QED
    BY <2>1, <2>2
<1>3. HangUp(conn) = [s \in Servers |-> HangUp(conn)[s]]
  BY DEF HangUp
<1> QED
  BY <1>2, <1>3

(* The end of a call.                                                      *)
LEMMA EndsCall ==
    ASSUME LibraryInv, NEW t \in Threads, pc[t] \notin Resting, NEW status \in Int, NEW err,
           Ends(t, status, err), ids' = ids, OwnRequest(t),
           \A x \in Nat : x = call[t].id /\ status = 0 => Clean(x)'
    PROVE  /\ OwnCall(t) /\ CallClean(t)' /\ pc'[t] = "idle"
<1> DEFINE k == [NoCall EXCEPT !.id = call[t].id, !.status = status]
<1>1. call[t] \in CallStates /\ call[t].id # 0 /\ call[t].id \in Nat /\ call[t].left \in Nat
  BY DEF LibraryInv, TypeOK, Numbered, CallStates
<1>2. k \in CallStates /\ k.id = call[t].id /\ k.left = 0 /\ k.status = status
  <2>1. NoCall \in CallStates /\ NoCall.left = 0
    BY DEF NoCall, CallStates
  <2>2. NoCall \in CallStates => k \in CallStates /\ k.id = call[t].id /\ k.left = NoCall.left
           /\ k.status = status
    BY <1>1 DEF CallStates
  <2> QED
    BY <2>1, <2>2
<1>3. call' = [call EXCEPT ![t] = k] /\ pc' = [pc EXCEPT ![t] = "idle"]
  BY DEF Ends, CallIs
<1> HIDE DEF k
<1>4. /\ call'[t] = k /\ pc'[t] = "idle"
      /\ \A u \in Threads \ {t} : pc'[u] = pc[u] /\ call'[u] = call[u]
  BY <1>3 DEF LibraryInv, TypeOK
<1>5. call' \in [Threads -> CallStates] /\ pc' \in [Threads -> Places]
  BY <1>2, <1>3 DEF LibraryInv, TypeOK, Places, Resting
<1>6. ids \in Nat /\ call[t].id + call[t].left <= ids
  BY DEF LibraryInv, TypeOK, Numbered
<1>7. OwnCall(t)
  BY <1>1, <1>2, <1>4, <1>5, <1>6 DEF OwnCall, Requests
<1>8. CallClean(t)'
  BY <1>1, <1>2, <1>4 DEF CallClean, Unsent, Waiting
<1> QED
  BY <1>4, <1>7, <1>8

(* A thread that has its answer gives the lock back, and goes on with the  *)
(* next file or ends the call.                                             *)
LEMMA AnsweredCall ==
    ASSUME LibraryInv, NEW t \in Threads, pc[t] \in Waiting, NEW status \in Int, NEW err,
           Answered(t, status, err), ids' = ids, \A x \in Nat : Clean(x) => Clean(x)',
           status = 0 => Clean(call[t].id)
    PROVE  OwnCall(t) /\ CallClean(t)' /\ pc'[t] \notin Holding /\ lock' = "none"
<1>0. OwnRequest(t)
  BY DEF OwnRequest
<1>1. /\ call[t] \in CallStates /\ call[t].id # 0 /\ call[t].id \in Nat /\ call[t].left \in Nat
      /\ ids \in Nat /\ call[t].id + call[t].left <= ids /\ pc[t] \notin Resting
  BY DEF LibraryInv, TypeOK, Numbered, CallStates, Waiting, Resting
<1>2. lock' = "none"
  BY DEF Answered
<1>3. CASE status = 0 /\ call[t].left > 0
  <2> DEFINE k == [call[t] EXCEPT !.left = @ - 1, !.id = @ + 1]
  <2>1. k \in CallStates /\ k.id = call[t].id + 1 /\ k.left = call[t].left - 1
    <3> DEFINE c == call[t]
               l == c.left - 1
               i == c.id + 1
    <3>1. c \in CallStates /\ l \in Nat /\ i \in Nat /\ k = [c EXCEPT !.left = l, !.id = i]
      BY <1>1, <1>3
    <3> HIDE DEF c, l, i, k
    <3>2. k \in CallStates /\ k.id = i /\ k.left = l
      BY <3>1 DEF CallStates
    <3> QED
      BY <3>2 DEF c, l, i
  <2>2. call' = [call EXCEPT ![t] = k] /\ pc' = [pc EXCEPT ![t] = "request"]
    BY <1>3 DEF Answered, CallIs, Goes
  <2> HIDE DEF k
  <2>3. /\ call'[t] = k /\ pc'[t] = "request"
        /\ \A u \in Threads \ {t} : pc'[u] = pc[u] /\ call'[u] = call[u]
    BY <2>2 DEF LibraryInv, TypeOK
  <2>4. call' \in [Threads -> CallStates] /\ pc' \in [Threads -> Places]
    BY <2>1, <2>2 DEF LibraryInv, TypeOK, Unsent, Places
  <2>5. \A x \in k.id .. k.id + k.left : x \in Requests(t) /\ x > call[t].id /\ x \in Nat
    BY <1>1, <1>3, <2>1 DEF Requests
  <2>6. OwnCall(t)
    <3>1. k.id # 0 /\ k.id + k.left <= ids
      BY <1>1, <2>1
    <3> QED
      BY <1>1, <2>3, <2>4, <2>5, <3>1 DEF OwnCall
  <2>7. \A x \in k.id .. k.id + k.left : Clean(x)'
    BY <2>5 DEF LibraryInv, CallClean
  <2>8. CallClean(t)'
    BY <2>3, <2>7 DEF CallClean, Requests, Unsent, Waiting
  <2> QED
    BY <1>2, <2>3, <2>6, <2>8 DEF Waiting, Holding
<1>4. CASE ~(status = 0 /\ call[t].left > 0)
  <2>1. Ends(t, status, err)
    BY <1>4 DEF Answered
  <2>2. \A x \in Nat : x = call[t].id /\ status = 0 => Clean(x)'
    OBVIOUS
  <2>3. OwnCall(t) /\ CallClean(t)' /\ pc'[t] = "idle"
    BY <1>0, <1>1, <2>1, <2>2, EndsCall
  <2> QED
    BY <1>2, <2>3 DEF Waiting, Holding
<1> QED
  BY <1>3, <1>4

(* The state of the connections as the library leaves it.                  *)
LEMMA TypeStep ==
    ASSUME LibraryInv, NEW t \in Threads, OwnCall(t),
           conn' \in [Servers -> Connections], failed' = failed,
           lock' \in {"none", t, lock}, sd_path' \in Servers \cup {"none"}
    PROVE  TypeOK'
BY DEF LibraryInv, TypeOK, OwnCall

(* A new call takes new numbers.                                           *)
LEMMA StartInv ==
    ASSUME LibraryInv, NEW t \in Threads, Start(t)
    PROVE  LibraryInv'
<1>1. PICK op \in Calls, a \in Addresses, more \in 0 .. 1 :
          /\ call' = [call EXCEPT ![t] =
                [NoCall EXCEPT !.op = op, !.addr = a, !.id = ids + 1, !.left = more]]
          /\ ids' = ids + 1 + more
  BY DEF Start, CallIs
<1> DEFINE k == [NoCall EXCEPT !.op = op, !.addr = a, !.id = ids + 1, !.left = more]
<1>2. ids \in Nat /\ more \in Nat
  BY DEF LibraryInv, TypeOK
<1>3. k \in CallStates /\ k.id = ids + 1 /\ k.left = more
  <2>1. NoCall \in CallStates
    BY DEF NoCall, CallStates
  <2> DEFINE i == ids + 1
             c == NoCall
  <2>2. i \in Nat /\ k = [c EXCEPT !.op = op, !.addr = a, !.id = i, !.left = more]
    BY <1>2
  <2> HIDE DEF i, c, k
  <2>3. k \in CallStates /\ k.id = i /\ k.left = more
    BY <1>2, <2>1, <2>2 DEF CallStates, c
  <2> QED
    BY <2>3 DEF i
<1>4. call' = [call EXCEPT ![t] = k] /\ pc' = [pc EXCEPT ![t] = "connect"]
  BY <1>1 DEF Start, Goes
<1> HIDE DEF k
<1>5. /\ call'[t] = k /\ pc'[t] = "connect"
      /\ \A u \in Threads \ {t} : pc'[u] = pc[u] /\ call'[u] = call[u]
  BY <1>4 DEF LibraryInv, TypeOK
<1>6. call' \in [Threads -> CallStates] /\ pc' \in [Threads -> Places]
  BY <1>3, <1>4 DEF LibraryInv, TypeOK, Unsent, Places
<1>7. \A x \in k.id .. k.id + k.left : x > ids /\ x \in Nat
  BY <1>2, <1>3
<1>8. OwnCall(t)
  <2>1. k.id # 0 /\ k.id + k.left <= ids' /\ ids' \in Nat /\ ids <= ids'
    BY <1>1, <1>2, <1>3
  <2> QED
    BY <1>5, <1>6, <1>7, <2>1 DEF OwnCall
<1>9. UNCHANGED <<conn, failed, lock, sd_path>> /\ pc[t] = "idle"
  BY DEF Start
<1>10. \A x : Clean(x)' <=> Clean(x)
  BY <1>9 DEF Clean, CleanBut
<1>11. OwnRequest(t)
  BY <1>10 DEF OwnRequest
<1>12. CallClean(t)'
  <2>1. \A x \in k.id .. k.id + k.left : Clean(x)'
    BY <1>7, <1>10 DEF LibraryInv, Numbered
  <2> QED
    BY <1>5, <2>1 DEF CallClean, Requests, Unsent, Waiting
<1>13. Locked'
  BY <1>5, <1>9, LockedSame DEF Waiting, Holding
<1>14. TypeOK'
  BY <1>8, <1>9, TypeStep DEF LibraryInv, TypeOK
<1> QED
  BY <1>8, <1>11, <1>12, <1>13, <1>14, OneCall DEF LibraryInv

(* A thread that goes on with its call without sending anything.           *)
LEMMA GoesOn ==
    ASSUME LibraryInv, NEW t \in Threads, NEW to \in Unsent, pc[t] \in Unsent,
           Goes(t, to), UNCHANGED <<call, ids>>, \A x \in Nat : Clean(x) => Clean(x)'
    PROVE  OwnCall(t) /\ OwnRequest(t) /\ CallClean(t)' /\ pc'[t] = to
<1>1. pc' = [pc EXCEPT ![t] = to]
  BY DEF Goes
<1>2. /\ pc' \in [Threads -> Places] /\ pc'[t] = to
      /\ \A u \in Threads \ {t} : pc'[u] = pc[u]
  BY <1>1 DEF LibraryInv, TypeOK, Unsent, Places
<1>3. call[t].id # 0 /\ call[t].id + call[t].left <= ids /\ ids \in Nat
  BY DEF LibraryInv, TypeOK, Numbered, Unsent, Resting
<1>4. OwnCall(t)
  BY <1>2, <1>3 DEF OwnCall, LibraryInv, TypeOK, Requests
<1>5. OwnRequest(t)
  BY DEF OwnRequest
<1>6. Requests(t)' = Requests(t) /\ Requests(t) \subseteq Nat
  BY DEF Requests, LibraryInv, TypeOK, CallStates
<1>7. CallClean(t)'
  BY <1>2, <1>6 DEF LibraryInv, CallClean, Unsent, Waiting
<1> QED
  BY <1>2, <1>4, <1>5, <1>7

(* A step that changes nothing but the connections, and sends nothing.     *)
LEMMA ConnKeepsClean ==
    ASSUME failed' = failed, \A s \in Servers : UnitIds(conn'[s]) \subseteq UnitIds(conn[s])
    PROVE  \A x \in Nat : Clean(x) => Clean(x)'
BY DEF Clean, CleanBut

(* rrdc_connect, up to the end of close_connection.                        *)
LEMMA ConnectInv ==
    ASSUME LibraryInv, NEW t \in Threads, Connect(t)
    PROVE  LibraryInv'
<1>1. /\ pc[t] = "connect" /\ failed' = failed /\ call' = call /\ ids' = ids
      /\ pc[t] \in Unsent /\ pc[t] \notin Holding
  BY DEF Connect, Unsent, Holding, Waiting
<1>2. conn \in [Servers -> Connections] /\ sd_path \in Servers \cup {"none"}
  BY DEF LibraryInv, TypeOK
<1>3. "check" \in Unsent /\ "connecting" \in Unsent
  BY DEF Unsent
<1>4. CASE Goes(t, "check") /\ UNCHANGED <<conn, lock, sd_path>>
  <2>1. \A x \in Nat : Clean(x) => Clean(x)'
    BY <1>1, <1>4 DEF Clean, CleanBut
  <2>2. OwnCall(t) /\ OwnRequest(t) /\ CallClean(t)' /\ pc'[t] = "check"
    BY <1>1, <1>3, <1>4, <2>1, GoesOn
  <2>3. Locked'
    <3>1. \A u \in Threads \ {t} : pc'[u] = pc[u] /\ call'[u] = call[u]
      BY <2>2 DEF OwnCall
    <3>2. pc'[t] \notin Holding
      BY <2>2 DEF Waiting, Holding
    <3> QED
      BY <1>1, <1>4, <3>1, <3>2, LockedSame
  <2>4. TypeOK'
    BY <1>1, <1>2, <1>4, <2>2, TypeStep
  <2> QED
    BY <2>2, <2>3, <2>4, OneCall DEF LibraryInv
<1>5. CASE lock = "none" /\ DropConnection /\ lock' = t /\ Goes(t, "connecting")
  <2>1. sd_path' = "none" /\ conn' = HangUp(conn)
    BY <1>5 DEF DropConnection
  <2>2. /\ conn' \in [Servers -> Connections]
        /\ \A s \in Servers : UnitIds(conn'[s]) \subseteq UnitIds(conn[s])
    BY <1>2, <2>1, HangUpClean
  <2>3. \A x \in Nat : Clean(x) => Clean(x)'
    BY <1>1, <2>2, ConnKeepsClean
  <2>4. OwnCall(t) /\ OwnRequest(t) /\ CallClean(t)' /\ pc'[t] = "connecting"
    BY <1>1, <1>3, <1>5, <2>3, GoesOn
  <2>5. Locked'
    <3>1. \A u \in Threads \ {t} : pc'[u] = pc[u]
      BY <2>4 DEF OwnCall
    <3>2. pc'[t] \in Holding /\ pc'[t] \notin Waiting
      BY <2>4 DEF Waiting, Holding
    <3> QED
      BY <1>5, <3>1, <3>2, LockedBy
  <2>6. TypeOK'
    BY <1>1, <1>5, <2>1, <2>2, <2>4, TypeStep
  <2> QED
    BY <2>4, <2>5, <2>6, OneCall DEF LibraryInv
<1> QED
  BY <1>4, <1>5 DEF Connect

(* A step that the invariant does not see.                                 *)
LEMMA SameInv ==
    ASSUME LibraryInv, UNCHANGED <<conn, failed, lock, sd_path, pc, call, ids>>
    PROVE  LibraryInv'
<1>1. \A x, s : CleanBut(x, s)' <=> CleanBut(x, s)
  BY DEF CleanBut
<1>2. \A x : Clean(x)' <=> Clean(x)
  BY DEF Clean, CleanBut
<1>3. TypeOK'
  BY DEF LibraryInv, TypeOK
<1>4. Numbered'
  BY <1>2 DEF LibraryInv, Numbered, Requests
<1>5. ASSUME NEW t \in Threads PROVE CallClean(t)'
  BY <1>2 DEF LibraryInv, CallClean, Requests
<1>6. ASSUME NEW t \in Threads PROVE Flow(t) => Flow(t)'
  BY <1>1, <1>2 DEF Flow, OnItsWay, AnswerThere, Gone, LinesThere
<1>7. Locked'
  BY <1>6 DEF LibraryInv, Locked
<1> QED
  BY <1>3, <1>4, <1>5, <1>7 DEF LibraryInv

(* The end of rrdc_connect.                                                *)
LEMMA ConnectedInv ==
    ASSUME LibraryInv, NEW t \in Threads, Connected(t)
    PROVE  LibraryInv'
<1> DEFINE a == Address(call[t].addr)
<1>1. /\ pc[t] = "connecting" /\ failed' = failed /\ ids' = ids /\ lock' = "none"
      /\ pc[t] \in Unsent /\ pc[t] \notin Resting
  BY DEF Connected, Unsent, Resting
<1>2. conn \in [Servers -> Connections]
  BY DEF LibraryInv, TypeOK
<1>3. a \in Servers \cup {"none"}
  BY ClientAssumption DEF LibraryInv, TypeOK, CallStates, Address
<1>4. "check" \in Unsent /\ lock = t
  BY <1>1 DEF Unsent, LibraryInv, Locked, Holding
<1> HIDE DEF a
<1>5. CASE sd_path' = a /\ conn' = [conn EXCEPT ![a] = Fresh] /\ Goes(t, "check") /\ UNCHANGED call
  <2>1. Fresh \in Connections /\ Quiet(Fresh) /\ Fresh.out = <<>> /\ UnitIds(Fresh) = {}
    <3>1. <<>> \in Seq(Units) /\ <<>> \in Seq(Lines)
      OBVIOUS
    <3>2. Fresh \in Connections /\ Fresh.in = <<>> /\ Fresh.rbuf = <<>> /\ Fresh.peer
             /\ Fresh.out = <<>>
      BY <3>1 DEF Fresh, Connections
    <3> QED
      BY <3>2 DEF Quiet, UnitIds
  <2>2. /\ conn' \in [Servers -> Connections] /\ (a \in Servers => conn'[a] = Fresh)
        /\ \A s \in Servers : s # a => conn'[s] = conn[s]
    BY <1>2, <1>5, <2>1
  <2>3. \A s \in Servers : UnitIds(conn'[s]) \subseteq UnitIds(conn[s])
    BY <2>1, <2>2
  <2>4. \A x \in Nat : Clean(x) => Clean(x)'
    BY <1>1, <2>3, ConnKeepsClean
  <2>5. OwnCall(t) /\ OwnRequest(t) /\ CallClean(t)' /\ pc'[t] = "check"
    BY <1>1, <1>4, <1>5, <2>4, GoesOn
  <2>6. Locked'
    <3>1. \A u \in Threads \ {t} : pc'[u] = pc[u]
      BY <2>5 DEF OwnCall
    <3>2. pc'[t] \notin Holding
      BY <2>5 DEF Waiting, Holding
    <3>3. sd_path' # "none" => Quiet(conn'[sd_path']) /\ conn'[sd_path'].out = <<>>
      BY <1>3, <1>5, <2>1, <2>2
    <3> QED
      BY <1>1, <1>4, <3>1, <3>2, <3>3, LockedFree
  <2>7. TypeOK'
    BY <1>1, <1>3, <1>5, <2>2, <2>5, TypeStep
  <2> QED
    BY <2>5, <2>6, <2>7, OneCall DEF LibraryInv
<1>6. CASE /\ sd_path' = "none" /\ conn' = conn
           /\ \/ Goes(t, "check") /\ UNCHANGED call
              \/ Ends(t, 1, TRUE)
  <2>1. \A x \in Nat : Clean(x) => Clean(x)'
    BY <1>1, <1>6 DEF Clean, CleanBut
  <2>2. OwnCall(t) /\ OwnRequest(t) /\ CallClean(t)' /\ pc'[t] \notin Holding
    <3>1. CASE Goes(t, "check") /\ UNCHANGED call
      <4>1. OwnCall(t) /\ OwnRequest(t) /\ CallClean(t)' /\ pc'[t] = "check"
        BY <1>1, <1>4, <2>1, <3>1, GoesOn
      <4> QED
        BY <4>1 DEF Waiting, Holding
    <3>2. CASE Ends(t, 1, TRUE)
      <4>1. OwnRequest(t)
        BY <2>1 DEF OwnRequest
      <4>2. \A x \in Nat : x = call[t].id /\ 1 = 0 => Clean(x)'
        OBVIOUS
      <4>3. 1 \in Int
        OBVIOUS
      <4>4. OwnCall(t) /\ CallClean(t)' /\ pc'[t] = "idle"
        BY <1>1, <3>2, <4>1, <4>2, <4>3, EndsCall
      <4> QED
        BY <4>1, <4>4 DEF Waiting, Holding
    <3> QED
      BY <1>6, <3>1, <3>2
  <2>3. Locked'
    <3>1. \A u \in Threads \ {t} : pc'[u] = pc[u]
      BY <2>2 DEF OwnCall
    <3> QED
      BY <1>1, <1>4, <1>6, <2>2, <3>1, LockedFree
  <2>4. TypeOK'
    BY <1>1, <1>2, <1>6, <2>2, TypeStep
  <2> QED
    BY <2>2, <2>3, <2>4, OneCall DEF LibraryInv
<1> QED
  BY <1>5, <1>6 DEF Connected, a

(* A thread goes on with its call, or ends it, without a request.          *)
LEMMA ProceedInv ==
    ASSUME LibraryInv, NEW t \in Threads, pc[t] \in {"check", "compare"},
           UNCHANGED <<conn, failed, lock, sd_path, ids>>,
           \/ Goes(t, "compare") /\ UNCHANGED call
           \/ \E yes \in BOOLEAN : Proceed(t, yes)
    PROVE  LibraryInv'
<1>1. /\ pc[t] \in Unsent /\ pc[t] \notin Resting /\ pc[t] \notin Holding
      /\ "compare" \in Unsent /\ "request" \in Unsent
  BY DEF Unsent, Waiting, Resting, Holding
<1>2. \A x : Clean(x)' <=> Clean(x)
  BY DEF Clean, CleanBut
<1>3. OwnRequest(t)
  BY <1>2 DEF OwnRequest
<1>4. \/ Goes(t, "compare") /\ UNCHANGED call
      \/ Goes(t, "request") /\ UNCHANGED call
      \/ Ends(t, -1, TRUE)
      \/ Ends(t, 0, error[t])
  BY DEF Proceed
<1>5. OwnCall(t) /\ CallClean(t)' /\ pc'[t] \notin Holding
  <2>1. ASSUME NEW to \in {"compare", "request"}, Goes(t, to), UNCHANGED call
        PROVE  OwnCall(t) /\ CallClean(t)' /\ pc'[t] \notin Holding
    <3>1. OwnCall(t) /\ CallClean(t)' /\ pc'[t] = to
      BY <1>1, <1>2, <2>1, GoesOn
    <3> QED
      BY <3>1 DEF Waiting, Holding
  <2>2. ASSUME NEW status \in Int, NEW err, Ends(t, status, err)
        PROVE  OwnCall(t) /\ CallClean(t)' /\ pc'[t] \notin Holding
    <3>1. call[t].id \in Requests(t)
      BY DEF Requests, LibraryInv, TypeOK, CallStates
    <3>2. Clean(call[t].id)
      BY <1>1, <3>1 DEF LibraryInv, CallClean
    <3>3. \A x \in Nat : x = call[t].id /\ status = 0 => Clean(x)'
      BY <1>2, <3>2
    <3>4. OwnCall(t) /\ CallClean(t)' /\ pc'[t] = "idle"
      BY <1>1, <1>3, <2>2, <3>3, EndsCall
    <3> QED
      BY <3>4 DEF Waiting, Holding
  <2>3. -1 \in Int /\ 0 \in Int
    OBVIOUS
  <2>4. CASE Ends(t, -1, TRUE)
    BY <2>2, <2>3, <2>4
  <2>5. CASE Ends(t, 0, error[t])
    BY <2>2, <2>3, <2>5
  <2> QED
    BY <1>4, <2>1, <2>4, <2>5
<1>6. Locked'
  <2>1. \A u \in Threads \ {t} : pc'[u] = pc[u] /\ call'[u] = call[u]
    BY <1>5 DEF OwnCall
  <2> QED
    BY <1>1, <1>5, <2>1, LockedSame
<1>7. TypeOK'
  BY <1>5, TypeStep DEF LibraryInv, TypeOK
<1> QED
  BY <1>3, <1>5, <1>6, <1>7, OneCall DEF LibraryInv

(* A program that ends leaves what is on its way.                          *)
LEMMA CrashInv ==
    ASSUME LibraryInv, Crash
    PROVE  LibraryInv'
<1>1. /\ pc' = [t \in Threads |-> "gone"] /\ call' = [t \in Threads |-> NoCall]
      /\ lock' = "none" /\ sd_path' = "none" /\ conn' = HangUp(conn)
      /\ failed' = failed /\ ids' = ids
  BY DEF Crash, DropConnection
<1>2. conn \in [Servers -> Connections] /\ ids \in Nat
  BY DEF LibraryInv, TypeOK
<1>3. /\ conn' \in [Servers -> Connections]
      /\ \A s \in Servers : UnitIds(conn'[s]) \subseteq UnitIds(conn[s])
  BY <1>1, <1>2, HangUpClean
<1>4. \A x \in Nat : Clean(x) => Clean(x)'
  BY <1>1, <1>3, ConnKeepsClean
<1>5. NoCall \in CallStates /\ NoCall.id = 0 /\ NoCall.left = 0
  BY DEF NoCall, CallStates
<1>6. \A t \in Threads : call'[t] = NoCall /\ pc'[t] = "gone"
  BY <1>1
<1>7. TypeOK'
  BY <1>1, <1>3, <1>5 DEF LibraryInv, TypeOK, Places, Resting
<1>8. Numbered'
  BY <1>1, <1>2, <1>4, <1>5, <1>6 DEF LibraryInv, Numbered, Resting
<1>9. \A t \in Threads : CallClean(t)'
  BY <1>5, <1>6 DEF CallClean, Unsent, Waiting
<1>10. Locked'
  BY <1>1, <1>6, ClientAssumption DEF Locked, Holding, Waiting
<1> QED
  BY <1>7, <1>8, <1>9, <1>10 DEF LibraryInv

(* rrdc_is_connected.                                                      *)
LEMMA CheckInv ==
    ASSUME LibraryInv, NEW t \in Threads, Check(t) \/ Compare(t)
    PROVE  LibraryInv'
<1>1. CASE Check(t)
  <2>1. pc[t] \in {"check", "compare"} /\ UNCHANGED <<conn, failed, lock, sd_path, ids>>
    BY <1>1 DEF Check
  <2>2. \/ Goes(t, "compare") /\ UNCHANGED call
        \/ \E yes \in BOOLEAN : Proceed(t, yes)
    BY <1>1 DEF Check
  <2> QED
    BY <2>1, <2>2, ProceedInv
<1>2. CASE Compare(t)
  <2>1. CASE Crash
    BY <2>1, CrashInv
  <2>2. CASE ~Crash
    <3>1. /\ pc[t] \in {"check", "compare"} /\ UNCHANGED <<conn, failed, lock, sd_path, ids>>
          /\ \E yes \in BOOLEAN : Proceed(t, yes)
      BY <1>2, <2>2 DEF Compare
    <3> QED
      BY <3>1, ProceedInv
  <2> QED
    BY <2>1, <2>2
<1> QED
  BY <1>1, <1>2

(* A call that fails ends, whatever has become of the connection.          *)
LEMMA FailsInv ==
    ASSUME LibraryInv, NEW t \in Threads, lock \in {"none", t}, pc[t] \notin Resting,
           NEW status \in Int \ {0}, NEW err, Ends(t, status, err),
           failed' = failed, ids' = ids, lock' = "none",
           \/ lock = "none" /\ sd_path' = sd_path /\ conn' = conn
           \/ sd_path' = "none" /\ conn' = HangUp(conn)
    PROVE  LibraryInv'
<1>1. conn \in [Servers -> Connections]
  BY DEF LibraryInv, TypeOK
<1>2. /\ conn' \in [Servers -> Connections]
      /\ \A s \in Servers : UnitIds(conn'[s]) \subseteq UnitIds(conn[s])
  BY <1>1, HangUpClean
<1>3. \A x \in Nat : Clean(x) => Clean(x)'
  BY <1>2, ConnKeepsClean
<1>4. OwnRequest(t)
  BY <1>3 DEF OwnRequest
<1>5. \A x \in Nat : x = call[t].id /\ status = 0 => Clean(x)'
  OBVIOUS
<1>6. OwnCall(t) /\ CallClean(t)' /\ pc'[t] = "idle"
  BY <1>4, <1>5, EndsCall
<1>7. Locked'
  <2>1. \A u \in Threads \ {t} : pc'[u] = pc[u]
    BY <1>6 DEF OwnCall
  <2>2. pc'[t] \notin Holding
    BY <1>6 DEF Waiting, Holding
  <2>3. sd_path' # "none" => Quiet(conn'[sd_path']) /\ conn'[sd_path'].out = <<>>
    BY DEF LibraryInv, Locked
  <2> QED
    BY <2>1, <2>2, <2>3, LockedFree
<1>8. TypeOK'
  BY <1>2, <1>6, TypeStep DEF LibraryInv, TypeOK
<1> QED
  BY <1>4, <1>6, <1>7, <1>8, OneCall DEF LibraryInv

(* request, up to the end of fwrite.                                       *)
LEMMA RequestInv ==
    ASSUME LibraryInv, NEW t \in Threads, Request(t)
    PROVE  LibraryInv'
<1>1. /\ pc[t] = "request" /\ lock = "none" /\ failed' = failed /\ ids' = ids
      /\ pc[t] \in Unsent /\ pc[t] \notin Resting
  BY DEF Request, Unsent, Resting
<1>2. conn \in [Servers -> Connections] /\ sd_path \in Servers \cup {"none"}
  BY DEF LibraryInv, TypeOK
<1>3. 1 \in Int \ {0} /\ -1 \in Int \ {0}
  OBVIOUS
<1>4. CASE sd_path = "none" /\ Ends(t, IF call[t].op = "stats" THEN 1 ELSE -1, error[t])
           /\ UNCHANGED <<conn, lock, sd_path>>
  <2>1. CASE call[t].op = "stats"
    <3>1. Ends(t, 1, error[t])
      BY <1>4, <2>1
    <3> QED
      BY <1>1, <1>3, <1>4, <3>1, FailsInv
  <2>2. CASE call[t].op # "stats"
    <3>1. Ends(t, -1, error[t])
      BY <1>4, <2>2
    <3> QED
      BY <1>1, <1>3, <1>4, <3>1, FailsInv
  <2> QED
    BY <2>1, <2>2
<1>5. CASE DropConnection /\ Ends(t, -1, TRUE) /\ UNCHANGED lock
  BY <1>1, <1>3, <1>5, FailsInv DEF DropConnection
<1>7. CASE (Ends(t, -1, TRUE) \/ Ends(t, 1, error[t])) /\ UNCHANGED <<conn, lock, sd_path>>
  <2>1. CASE Ends(t, -1, TRUE)
    BY <1>1, <1>3, <1>7, <2>1, FailsInv
  <2>2. CASE Ends(t, 1, error[t])
    BY <1>1, <1>3, <1>7, <2>2, FailsInv
  <2> QED
    BY <1>7, <2>1, <2>2
<1>6. CASE /\ sd_path # "none"
           /\ conn' = IF conn[sd_path].open
                      THEN [conn EXCEPT ![sd_path].in = @ \o CommandUnits(call[t].id, Verb(call[t].op), 1)]
                      ELSE conn
           /\ lock' = t /\ Goes(t, "status") /\ UNCHANGED <<sd_path, call>>
  <2> DEFINE c == conn[sd_path]
             u == Unit(call[t].id, Verb(call[t].op), TRUE)
  <2>1. sd_path \in Servers /\ c \in Connections /\ sd_path' = sd_path
    BY <1>2, <1>6
  <2>2. Quiet(c) /\ c.out = <<>>
    BY <1>1, <1>6 DEF LibraryInv, Locked
  <2>3. /\ pc' \in [Threads -> Places] /\ pc'[t] = "status"
        /\ \A v \in Threads \ {t} : pc'[v] = pc[v]
    BY <1>6 DEF LibraryInv, TypeOK, Waiting, Goes, Places
  <2>4. /\ call[t].id # 0 /\ call[t].id + call[t].left <= ids /\ ids \in Nat
        /\ call[t].id \in Nat /\ call[t].left \in Nat /\ call[t] \in CallStates
    BY <1>1 DEF LibraryInv, TypeOK, Numbered, CallStates
  <2>5. OwnCall(t)
    BY <1>1, <1>6, <2>3, <2>4 DEF OwnCall, LibraryInv, TypeOK, Requests
  <2>6. u \in Units /\ u.id = call[t].id
    BY <2>4 DEF Unit, Units, Verbs, Verb
  <2>7. CommandUnits(call[t].id, Verb(call[t].op), 1) = <<u>>
    <3>1. CommandUnits(call[t].id, Verb(call[t].op), 1) =
             [i \in 1 .. 1 |-> Unit(call[t].id, Verb(call[t].op), i = 1)]
      BY DEF CommandUnits
    <3>2. ASSUME NEW i \in 1 .. 1 PROVE Unit(call[t].id, Verb(call[t].op), i = 1) = u
      <4>1. i = 1
        OBVIOUS
      <4>2. (i = 1) = TRUE
        BY <4>1
      <4> QED
        BY <4>2, Zenon
    <3> HIDE DEF u
    <3>3. [i \in 1 .. 1 |-> Unit(call[t].id, Verb(call[t].op), i = 1)] = [i \in 1 .. 1 |-> u]
      BY <3>2
    <3>4. [i \in 1 .. 1 |-> u] = <<u>>
      OBVIOUS
    <3> QED
      BY <3>1, <3>3, <3>4
  <2> HIDE DEF u
  <2>8. Clean(call[t].id)
    BY <1>1, <2>4 DEF LibraryInv, CallClean, Requests
  <2>9. /\ conn' \in [Servers -> Connections]
        /\ \A s \in Servers : s # sd_path => conn'[s] = conn[s]
        /\ UnitIds(conn'[sd_path]) \subseteq {call[t].id}
        /\ conn'[sd_path].peer
        /\ OnItsWay(conn[sd_path], call[t])' \/ Gone(conn[sd_path])'
    <3>1. CASE ~c.open
      <4>1. conn' = conn
        BY <1>6, <3>1
      <4>2. UnitIds(c) = {}
        BY <2>2 DEF Quiet, UnitIds
      <4>3. Gone(conn[sd_path])'
        BY <2>1, <2>2, <3>1, <4>1 DEF Gone
      <4> QED
        BY <1>2, <2>2, <4>1, <4>2, <4>3 DEF Quiet
    <3>2. CASE c.open
      <4> DEFINE d == [c EXCEPT !.in = <<u>>]
      <4>1. conn' = [conn EXCEPT ![sd_path] = d]
        <5>1. c.in \o <<u>> = <<u>>
          BY <2>2, <2>6 DEF Quiet
        <5>2. conn' = [conn EXCEPT ![sd_path] = [c EXCEPT !.in = c.in \o <<u>>]]
          BY <1>6, <2>7, <3>2
        <5> QED
          BY <5>1, <5>2
      <4>2. <<u>> \in Seq(Units) /\ DOMAIN <<u>> = {1} /\ <<u>>[1] = u
        BY <2>6
      <4>3. /\ d \in Connections /\ d.in = <<u>> /\ d.rbuf = <<>> /\ d.peer /\ d.open
            /\ d.out = <<>>
        <5> DEFINE v == <<u>>
        <5>1. v \in Seq(Units)
          BY <4>2
        <5> HIDE DEF v
        <5> QED
          BY <2>1, <2>2, <3>2, <5>1 DEF v, Connections, Quiet
      <4> HIDE DEF d
      <4>4. UnitIds(d) = {call[t].id}
        BY <2>6, <4>2, <4>3 DEF UnitIds
      <4>5. /\ conn' \in [Servers -> Connections] /\ conn'[sd_path] = d
            /\ \A s \in Servers : s # sd_path => conn'[s] = conn[s]
        BY <1>2, <2>1, <4>1, <4>3
      <4>6. CleanBut(call[t].id, sd_path)'
        BY <1>1, <1>6, <2>8, <4>5, ClientAssumption DEF Clean, CleanBut
      <4>7. OnItsWay(conn[sd_path], call[t])'
        BY <1>6, <2>1, <4>3, <4>5, <4>6 DEF OnItsWay, u
      <4> QED
        BY <4>3, <4>4, <4>5, <4>7
    <3> QED
      BY <3>1, <3>2
  <2>10. ASSUME NEW x, x # call[t].id, Clean(x) PROVE Clean(x)'
    BY <1>1, <2>9, <2>10 DEF Clean, CleanBut
  <2>11. OwnRequest(t)
    BY <2>4, <2>10 DEF OwnRequest
  <2>12. CallClean(t)'
    <3>1. Requests(t)' = Requests(t)
      BY <1>6 DEF Requests
    <3>2. \A x \in Requests(t) : x > call[t].id => Clean(x)'
      BY <1>1, <2>4, <2>10 DEF LibraryInv, CallClean, Requests
    <3> QED
      BY <1>6, <2>3, <3>1, <3>2 DEF CallClean, Unsent, Waiting
  <2>13. Flow(t)'
    BY <1>6, <2>1, <2>3, <2>9 DEF Flow
  <2>14. Locked'
    BY <1>1, <1>6, <2>3, <2>13, LockedBy DEF Waiting, Holding
  <2>15. TypeOK'
    BY <1>1, <1>6, <2>1, <2>5, <2>9, TypeStep
  <2> QED
    BY <2>5, <2>11, <2>12, <2>14, <2>15, OneCall DEF LibraryInv
<1> QED
  BY <1>4, <1>5, <1>6, <1>7 DEF Request, NotSent, HeldBy

(* The connection after one line of the answer has been read.              *)
LEMMA ReadOne ==
    ASSUME conn \in [Servers -> Connections], sd_path \in Servers, conn[sd_path].out # <<>>,
           Quiet(conn[sd_path]), failed' = failed, conn' = [conn EXCEPT ![sd_path].out = Tail(@)]
    PROVE  /\ conn' \in [Servers -> Connections] /\ \A x \in Nat : Clean(x) => Clean(x)'
           /\ conn'[sd_path].out = Tail(conn[sd_path].out) /\ Quiet(conn'[sd_path])
           /\ Len(conn'[sd_path].out) = Len(conn[sd_path].out) - 1
           /\ \A i \in DOMAIN conn'[sd_path].out :
                i + 1 \in DOMAIN conn[sd_path].out /\ conn'[sd_path].out[i] = conn[sd_path].out[i + 1]
<1> DEFINE c == conn[sd_path]
           o == Tail(c.out)
           d == [c EXCEPT !.out = o]
<1>1. c \in Connections /\ c.out \in Seq(Lines)
  BY DEF Connections
<1>2. /\ o \in Seq(Lines) /\ Len(o) = Len(c.out) - 1
      /\ \A i \in DOMAIN o : i + 1 \in DOMAIN c.out /\ o[i] = c.out[i + 1]
  BY <1>1
<1>3. conn' = [conn EXCEPT ![sd_path] = d]
  OBVIOUS
<1> HIDE DEF o, c
<1>4. d \in Connections /\ d.in = c.in /\ d.rbuf = c.rbuf /\ d.peer = c.peer /\ d.out = o
  BY <1>1, <1>2 DEF Connections
<1>5. Quiet(d) /\ UnitIds(d) = UnitIds(c)
  BY <1>4 DEF Quiet, UnitIds, c
<1> HIDE DEF d
<1>6. /\ conn' \in [Servers -> Connections] /\ conn'[sd_path] = d
      /\ \A s \in Servers : s # sd_path => conn'[s] = conn[s]
  BY <1>3, <1>4
<1>7. \A s \in Servers : UnitIds(conn'[s]) \subseteq UnitIds(conn[s])
  BY <1>5, <1>6 DEF c
<1>8. \A x \in Nat : Clean(x) => Clean(x)'
  BY <1>7, ConnKeepsClean
<1> QED
  BY <1>2, <1>4, <1>5, <1>6, <1>8 DEF o, c

(* A call that has read its answer to the end.                             *)
LEMMA AnsweredInv ==
    ASSUME LibraryInv, NEW t \in Threads, pc[t] \in Waiting, NEW status \in Int, NEW err,
           Answered(t, status, err), failed' = failed, ids' = ids,
           status = 0 => Clean(call[t].id),
           conn' \in [Servers -> Connections], \A x \in Nat : Clean(x) => Clean(x)',
           sd_path' \in Servers \cup {"none"},
           sd_path' # "none" => Quiet(conn'[sd_path']) /\ conn'[sd_path'].out = <<>>
    PROVE  LibraryInv'
<1>1. OwnCall(t) /\ CallClean(t)' /\ pc'[t] \notin Holding /\ lock' = "none"
  BY AnsweredCall
<1>2. OwnRequest(t)
  BY DEF OwnRequest
<1>3. lock = t
  BY DEF LibraryInv, Locked, Holding
<1>4. Locked'
  <2>1. \A u \in Threads \ {t} : pc'[u] = pc[u]
    BY <1>1 DEF OwnCall
  <2> QED
    BY <1>1, <1>3, <2>1, LockedFree
<1>5. TypeOK'
  BY <1>1, TypeStep
<1> QED
  BY <1>1, <1>2, <1>4, <1>5, OneCall DEF LibraryInv

(* A daemon that has gone ends the wait.                                   *)
LEMMA DroppedInv ==
    ASSUME LibraryInv, NEW t \in Threads, pc[t] \in Waiting, NEW err,
           DropConnection, Answered(t, -1, err), failed' = failed, ids' = ids
    PROVE  LibraryInv'
<1>1. conn \in [Servers -> Connections]
  BY DEF LibraryInv, TypeOK
<1>2. sd_path' = "none" /\ conn' = HangUp(conn)
  BY DEF DropConnection
<1>3. /\ conn' \in [Servers -> Connections]
      /\ \A s \in Servers : UnitIds(conn'[s]) \subseteq UnitIds(conn[s])
  BY <1>1, <1>2, HangUpClean
<1>4. \A x \in Nat : Clean(x) => Clean(x)'
  BY <1>3, ConnKeepsClean
<1>5. -1 \in Int /\ -1 # 0
  OBVIOUS
<1> QED
  BY <1>2, <1>3, <1>4, <1>5, AnsweredInv

(* A thread that has taken the next line off the connection waits on.      *)
LEMMA LinesInv ==
    ASSUME LibraryInv, NEW t \in Threads, pc[t] \in Waiting, NEW want \in Int,
           call' = [call EXCEPT ![t] = [@ EXCEPT !.want = want]], pc' = [pc EXCEPT ![t] = "lines"],
           failed' = failed, ids' = ids, lock' = lock, sd_path' = sd_path, sd_path \in Servers,
           conn' \in [Servers -> Connections], \A x \in Nat : Clean(x) => Clean(x)',
           Quiet(conn'[sd_path]), want > 0, Len(conn'[sd_path].out) = want, Clean(call[t].id),
           \A i \in DOMAIN conn'[sd_path].out : conn'[sd_path].out[i].id = call[t].id
    PROVE  LibraryInv'
<1> DEFINE k == [call[t] EXCEPT !.want = want]
<1>1. /\ call[t] \in CallStates /\ call[t].id # 0 /\ call[t].id \in Nat /\ call[t].left \in Nat
      /\ ids \in Nat /\ call[t].id + call[t].left <= ids
  BY DEF LibraryInv, TypeOK, Numbered, CallStates, Waiting, Resting
<1>2. k \in CallStates /\ k.id = call[t].id /\ k.left = call[t].left /\ k.want = want
  BY <1>1 DEF CallStates
<1>3. call' = [call EXCEPT ![t] = k]
  OBVIOUS
<1> HIDE DEF k
<1>4. /\ call'[t] = k /\ pc'[t] = "lines"
      /\ \A u \in Threads \ {t} : pc'[u] = pc[u] /\ call'[u] = call[u]
  BY <1>3 DEF LibraryInv, TypeOK
<1>5. call' \in [Threads -> CallStates] /\ pc' \in [Threads -> Places]
  BY <1>2, <1>3 DEF LibraryInv, TypeOK, Waiting, Places
<1>6. OwnCall(t)
  BY <1>1, <1>2, <1>4, <1>5 DEF OwnCall, Requests
<1>7. OwnRequest(t)
  BY DEF OwnRequest
<1>8. CallClean(t)'
  <2>1. Requests(t)' = Requests(t) /\ Requests(t) \subseteq Nat
    BY <1>1, <1>2, <1>4 DEF Requests
  <2>2. \A x \in Requests(t) : x > call[t].id => Clean(x)'
    BY <2>1 DEF LibraryInv, CallClean
  <2> QED
    BY <1>2, <1>4, <2>1, <2>2 DEF CallClean, Unsent, Waiting
<1>9. Flow(t)'
  <2>1. PICK id \in Nat : id = call[t].id
    BY <1>1
  <2>2. Clean(id)' /\ call'[t].id = id /\ call'[t].want = want
    BY <1>2, <1>4, <2>1
  <2>4. Clean(call[t].id)'
    BY <2>2
  <2>5. LinesThere(conn[sd_path], call[t])'
    BY <2>1, <2>2, <2>4 DEF LinesThere
  <2>3. sd_path # "none" /\ conn'[sd_path].peer
    BY ClientAssumption DEF Quiet
  <2> QED
    BY <1>4, <2>3, <2>5 DEF Flow
<1>10. Locked'
  <2>1. lock = t
    BY DEF LibraryInv, Locked, Holding
  <2> QED
    BY <1>4, <1>9, <2>1, LockedBy DEF Waiting, Holding
<1>11. TypeOK'
  BY <1>6, TypeStep
<1> QED
  BY <1>6, <1>7, <1>8, <1>10, <1>11, OneCall DEF LibraryInv

(* response_read: the status line.                                         *)
LEMMA ReadStatusInv ==
    ASSUME LibraryInv, NEW t \in Threads, ReadStatus(t)
    PROVE  LibraryInv'
<1>1. /\ pc[t] = "status" /\ pc[t] \in Waiting /\ sd_path # "none" /\ failed' = failed /\ ids' = ids
  BY DEF ReadStatus, Waiting
<1>2. conn \in [Servers -> Connections] /\ sd_path \in Servers
  BY <1>1 DEF LibraryInv, TypeOK
<1>3. OnItsWay(conn[sd_path], call[t]) \/ AnswerThere(conn[sd_path], call[t]) \/ Gone(conn[sd_path])
  BY <1>1 DEF LibraryInv, Locked, Flow
<1>4. CASE conn[sd_path].out = <<>>
  <2>1. DropConnection /\ Answered(t, -1, TRUE)
    BY <1>4 DEF ReadStatus
  <2> QED
    BY <1>1, <2>1, DroppedInv
<1>5. CASE conn[sd_path].out # <<>>
  <2> DEFINE out == conn[sd_path].out
             l == Head(out)
  <2>1. AnswerThere(conn[sd_path], call[t]) /\ Quiet(conn[sd_path])
    BY <1>3, <1>5 DEF OnItsWay, Gone, AnswerThere
  <2>2. out \in Seq(Lines) /\ l = out[1] /\ l \in Lines
    <3>1. out \in Seq(Lines)
      BY <1>2 DEF Connections
    <3>2. out # <<>>
      BY <1>5
    <3> HIDE DEF out
    <3> QED
      BY <3>1, <3>2
  <2>3. /\ l.kind = "status" /\ l.num \in Int
        /\ Len(out) = 1 + (IF l.num > 0 THEN l.num ELSE 0)
        /\ l.num >= 0 => Clean(call[t].id)
        /\ \A i \in DOMAIN out : out[i].id = call[t].id
    BY <2>1, <2>2 DEF AnswerThere, Lines
  <2>4. /\ conn' = [conn EXCEPT ![sd_path].out = Tail(@)] /\ sd_path' = sd_path
        /\ IF l.num > 0
           THEN /\ CallIs(t, [call[t] EXCEPT !.want = l.num]) /\ Goes(t, "lines")
                /\ lock' = lock
           ELSE Answered(t, IF call[t].op = "stats" THEN 1 ELSE l.num, error[t] \/ l.num < 0)
    BY <1>5, <2>3 DEF ReadStatus
  <2>5. /\ conn' \in [Servers -> Connections] /\ \A x \in Nat : Clean(x) => Clean(x)'
        /\ Quiet(conn'[sd_path]) /\ Len(conn'[sd_path].out) = Len(out) - 1
        /\ \A i \in DOMAIN conn'[sd_path].out :
              i + 1 \in DOMAIN out /\ conn'[sd_path].out[i] = out[i + 1]
    BY <1>1, <1>2, <1>5, <2>1, <2>4, ReadOne
  <2>6. \A i \in DOMAIN conn'[sd_path].out : conn'[sd_path].out[i].id = call[t].id
    BY <2>3, <2>5
  <2> HIDE DEF l, out
  <2>7. CASE l.num > 0
    <3>1. PICK want \in Int : want = l.num
      BY <2>3
    <3>2. want > 0 /\ Len(conn'[sd_path].out) = want /\ Clean(call[t].id)
      <4>1. Len(out) = 1 + l.num /\ l.num >= 0
        BY <2>3, <2>7
      <4> QED
        BY <2>3, <2>5, <2>7, <3>1, <4>1
    <3>3. /\ call' = [call EXCEPT ![t] = [@ EXCEPT !.want = want]]
          /\ pc' = [pc EXCEPT ![t] = "lines"] /\ lock' = lock
      BY <2>4, <2>7, <3>1 DEF CallIs, Goes, LibraryInv, TypeOK
    <3> QED
      BY <1>1, <1>2, <2>4, <2>5, <2>6, <3>2, <3>3, LinesInv
  <2>8. CASE ~(l.num > 0)
    <3> DEFINE st == IF call[t].op = "stats" THEN 1 ELSE l.num
    <3>1. PICK status \in Int : status = st
      BY <2>3
    <3>2. \E err : Answered(t, status, err)
      BY <2>4, <2>8, <3>1
    <3>3. status = 0 => Clean(call[t].id)
      BY <2>3, <3>1
    <3>4. conn'[sd_path].out = <<>>
      <4>1. Len(conn'[sd_path].out) = 0
        BY <2>3, <2>5, <2>8
      <4>2. conn'[sd_path].out \in Seq(Lines)
        BY <1>2, <2>5 DEF Connections
      <4> QED
        BY <4>1, <4>2
    <3> QED
      BY <1>1, <1>2, <2>4, <2>5, <3>2, <3>3, <3>4, AnsweredInv
  <2> QED
    BY <2>7, <2>8
<1> QED
  BY <1>4, <1>5

(* response_read: the lines behind the status line.                        *)
LEMMA ReadLinesInv ==
    ASSUME LibraryInv, NEW t \in Threads, ReadLines(t)
    PROVE  LibraryInv'
<1>1. /\ pc[t] = "lines" /\ pc[t] \in Waiting /\ failed' = failed /\ ids' = ids
  BY DEF ReadLines, Waiting
<1>2. Flow(t) /\ LinesThere(conn[sd_path], call[t])
  BY <1>1 DEF LibraryInv, Locked, Flow
<1>3. conn \in [Servers -> Connections] /\ sd_path \in Servers
  BY <1>2 DEF LibraryInv, TypeOK, Flow
<1> DEFINE out == conn[sd_path].out
           want == call[t].want
<1>4. /\ want > 0 /\ want \in Int /\ Len(out) = want /\ Quiet(conn[sd_path])
      /\ \A i \in DOMAIN out : out[i].id = call[t].id
      /\ Clean(call[t].id)
  BY <1>2 DEF LinesThere, LibraryInv, TypeOK, CallStates
<1>5. out # <<>>
  BY <1>4
<1>6. /\ conn' = [conn EXCEPT ![sd_path].out = Tail(@)] /\ sd_path' = sd_path
      /\ IF want > 1
         THEN CallIs(t, [call[t] EXCEPT !.want = @ - 1]) /\ lock' = lock /\ pc' = pc
         ELSE Answered(t, IF call[t].op = "stats" THEN 0 ELSE 1, error[t])
  BY <1>5 DEF ReadLines
<1>7. /\ conn' \in [Servers -> Connections] /\ \A x \in Nat : Clean(x) => Clean(x)'
      /\ Quiet(conn'[sd_path]) /\ Len(conn'[sd_path].out) = Len(out) - 1
      /\ \A i \in DOMAIN conn'[sd_path].out :
            i + 1 \in DOMAIN out /\ conn'[sd_path].out[i] = out[i + 1]
  BY <1>1, <1>3, <1>4, <1>5, <1>6, ReadOne
<1>8. \A i \in DOMAIN conn'[sd_path].out : conn'[sd_path].out[i].id = call[t].id
  BY <1>4, <1>7
<1> HIDE DEF out
<1>9. CASE want > 1
  <2>1. PICK w \in Int : w = want - 1
    BY <1>4
  <2>2. w > 0 /\ Len(conn'[sd_path].out) = w
    BY <1>4, <1>7, <1>9, <2>1
  <2>3. call' = [call EXCEPT ![t] = [@ EXCEPT !.want = w]] /\ lock' = lock
    BY <1>6, <1>9, <2>1 DEF CallIs, LibraryInv, TypeOK
  <2>4. pc' = [pc EXCEPT ![t] = "lines"]
    BY <1>1, <1>6, <1>9 DEF LibraryInv, TypeOK
  <2> QED
    BY <1>1, <1>3, <1>4, <1>6, <1>7, <1>8, <2>2, <2>3, <2>4, LinesInv
<1>10. CASE ~(want > 1)
  <2>1. PICK status \in Int : status = IF call[t].op = "stats" THEN 0 ELSE 1
    OBVIOUS
  <2>2. \E err : Answered(t, status, err)
    BY <1>6, <1>10, <2>1
  <2>3. conn'[sd_path].out = <<>>
    <3>1. Len(conn'[sd_path].out) = 0
      BY <1>4, <1>7, <1>10
    <3>2. conn'[sd_path].out \in Seq(Lines)
      BY <1>3, <1>7 DEF Connections
    <3> QED
      BY <3>1, <3>2
  <2> QED
    BY <1>1, <1>3, <1>4, <1>6, <1>7, <2>2, <2>3, AnsweredInv
<1> QED
  BY <1>9, <1>10

(* rrdc_disconnect.                                                        *)
LEMMA DisconnectInv ==
    ASSUME LibraryInv, NEW t \in Threads, Disconnect(t)
    PROVE  LibraryInv'
<1>1. /\ pc[t] = "idle" /\ lock = "none" /\ sd_path' = "none" /\ conn' = HangUp(conn)
      /\ UNCHANGED <<failed, lock, pc, call, ids>>
  BY DEF Disconnect, DropConnection
<1>2. conn \in [Servers -> Connections]
  BY DEF LibraryInv, TypeOK
<1>3. /\ conn' \in [Servers -> Connections]
      /\ \A s \in Servers : UnitIds(conn'[s]) \subseteq UnitIds(conn[s])
  BY <1>1, <1>2, HangUpClean
<1>4. \A x \in Nat : Clean(x) => Clean(x)'
  BY <1>1, <1>3, ConnKeepsClean
<1>5. TypeOK'
  BY <1>1, <1>3 DEF LibraryInv, TypeOK
<1>6. Numbered'
  BY <1>1, <1>4 DEF LibraryInv, Numbered, Requests
<1>7. \A u \in Threads : CallClean(u)'
  <2>1. \A u \in Threads : Requests(u)' = Requests(u) /\ Requests(u) \subseteq Nat
           /\ call[u].id \in Nat
    BY <1>1 DEF Requests, LibraryInv, TypeOK, CallStates
  <2> QED
    BY <1>1, <1>4, <2>1 DEF LibraryInv, CallClean
<1>8. Locked'
  BY <1>1, LockedFree DEF Waiting, Holding
<1> QED
  BY <1>5, <1>6, <1>7, <1>8 DEF LibraryInv

-----------------------------------------------------------------------------
(* The invariant holds                                                     *)

(* A program that has made no call yet, and a script.                      *)
LEMMA ClientInit == Init => ClientInv
<1> SUFFICES ASSUME Init PROVE ClientInv
  OBVIOUS
<1>1. \A t \in Threads : pc[t] = "idle" /\ call[t] = NoCall /\ call[t].id = 0 /\ call[t].left = 0
  BY DEF Init, NoCall
<1>2. ASSUME mode = "library" PROVE LibraryInv
  <2>1. script = <<>>
    BY <1>2 DEF Init
  <2>2. FlattenSeq([i \in DOMAIN script |-> CommandUnits(i, script[i].name, script[i].len)]) = <<>>
    <3>1. [i \in DOMAIN script |-> CommandUnits(i, script[i].name, script[i].len)] = <<>>
      BY <2>1
    <3>2. FlattenSeq(<<>>) = <<>>
      BY DEF FlattenSeq
    <3> QED
      BY <3>1, <3>2
  <2>3. Fresh \in Connections /\ Fresh.in = <<>> /\ Fresh.rbuf = <<>>
    <3>1. <<>> \in Seq(Units) /\ <<>> \in Seq(Lines)
      OBVIOUS
    <3> QED
      BY <3>1 DEF Fresh, Connections
  <2>4. [Fresh EXCEPT !.in = <<>>] = Fresh
    BY <2>3 DEF Connections
  <2>5. conn = [s \in Servers |-> Fresh]
    BY <2>2, <2>4 DEF Init
  <2>6. NoCall \in CallStates
    BY DEF NoCall, CallStates
  <2>7. TypeOK
    BY <2>3, <2>5, <2>6 DEF TypeOK, Init, Places, Resting
  <2>8. \A x : Clean(x)
    <3>1. \A s \in Servers : UnitIds(conn[s]) = {}
      BY <2>3, <2>5 DEF UnitIds
    <3> QED
      BY <3>1 DEF Clean, CleanBut, Init
  <2>9. Numbered
    BY <1>1, <2>8 DEF Numbered, Init, Resting
  <2>10. \A t \in Threads : CallClean(t)
    BY <2>8 DEF CallClean
  <2>11. Locked
    BY <1>1, ClientAssumption DEF Locked, Init, Waiting, Holding
  <2> QED
    BY <2>7, <2>9, <2>10, <2>11 DEF LibraryInv
<1> QED
  BY <1>1, <1>2 DEF ClientInv

(* Every step keeps the invariant.                                         *)
LEMMA ClientNext ==
    ASSUME ClientInv, [Next]_vars
    PROVE  ClientInv'
<1>1. CASE UNCHANGED vars
  <2>1. UNCHANGED <<mode, conn, failed, lock, sd_path, pc, call, ids>>
    BY <1>1 DEF vars, libVars
  <2>2. LibraryInv => LibraryInv'
    BY <2>1, SameInv
  <2> QED
    BY <2>1, <2>2 DEF ClientInv
<1>2. CASE /\ mode = "library" /\ mode' = mode
           /\ \/ \E s \in Servers : Serve(s) /\ UNCHANGED libVars
              \/ \E t \in Threads : LibraryStep(t)
  <2>1. LibraryInv
    BY <1>2 DEF ClientInv
  <2>2. LibraryInv'
    BY <1>2, <2>1, ServeInv, StartInv, ConnectInv, ConnectedInv, SameInv, CheckInv,
       RequestInv, ReadStatusInv, ReadLinesInv, DisconnectInv DEF LibraryStep, Socket
  <2> QED
    BY <1>2, <2>2 DEF ClientInv
<1>3. CASE mode # "library" /\ mode' = mode /\ UNCHANGED libVars
  BY <1>3 DEF ClientInv, libVars
<1> QED
  BY <1>1, <1>2, <1>3 DEF Next

(* The invariant shows that a thread reads its own answer.                 *)
LEMMA InvAnswer == ClientInv => AnswerIsMine
<1> SUFFICES ASSUME ClientInv, NEW t \in Threads
             PROVE  /\ pc[t] \in Waiting =>
                         sd_path # "none" /\ \A i \in DOMAIN conn[sd_path].out : conn[sd_path].out[i].id = call[t].id
                    /\ pc[t] = "idle" /\ call[t].id # 0 /\ call[t].status = 0 => call[t].id \notin failed
  BY DEF AnswerIsMine, Waiting
<1>1. CASE mode # "library"
  BY <1>1 DEF ClientInv, Waiting
<1>2. CASE mode = "library"
  <2>1. LibraryInv
    BY <1>2 DEF ClientInv
  <2>2. ASSUME pc[t] \in Waiting
        PROVE  sd_path # "none" /\ \A i \in DOMAIN conn[sd_path].out : conn[sd_path].out[i].id = call[t].id
    <3>1. Flow(t)
      BY <2>1, <2>2 DEF LibraryInv, Locked
    <3> QED
      <4>1. \/ conn[sd_path].out = <<>>
            \/ \A i \in DOMAIN conn[sd_path].out : conn[sd_path].out[i].id = call[t].id
        BY <2>2, <3>1 DEF Flow, OnItsWay, AnswerThere, Gone, LinesThere, Waiting
      <4> QED
        BY <3>1, <4>1 DEF Flow
  <2>3. pc[t] = "idle" /\ call[t].id # 0 /\ call[t].status = 0 => call[t].id \notin failed
    BY <2>1 DEF LibraryInv, CallClean, Clean, CleanBut
  <2> QED
    BY <2>2, <2>3
<1> QED
  BY <1>1, <1>2

(* The answer a thread reads from the shared connection of rrd_client.c is *)
(* the answer to its own request, and a call that reports success was not  *)
(* refused, for any number of threads, daemons and calls.                  *)
THEOREM ClientAnswerIsMine == Spec => []AnswerIsMine
<1>1. Init => ClientInv
  BY ClientInit
<1>2. ClientInv /\ [Next]_vars => ClientInv'
  BY ClientNext
<1>3. ClientInv => AnswerIsMine
  BY InvAnswer
<1> QED
  BY <1>1, <1>2, <1>3, PTL DEF Spec

-----------------------------------------------------------------------------
(* Induction over numbers, and texts made of pieces                        *)

(* Induction, about sets.                                                  *)
LEMMA NatSet ==
    ASSUME NEW S \in SUBSET Nat, 0 \in S, \A n \in S : n + 1 \in S
    PROVE  S = Nat
<1> SUFFICES ASSUME NEW x \in Nat \ S PROVE FALSE
  OBVIOUS
<1>1. PICK m \in Nat \ S : \A j \in Nat \ S : m <= j
  BY NatLeast
<1>2. m # 0 /\ m - 1 \in Nat
  BY <1>1
<1>3. m - 1 \in S
  BY <1>1, <1>2
<1> QED
  BY <1>1, <1>3

\* f starts at a and goes on as st says.
Steps(f, V, a, N, st) ==
    f \in [0 .. N -> V] /\ f[0] = a /\ \A n \in 1 .. N : f[n] = st[<<f[n - 1], n>>]

(* Values that are computed one from the other exist.                      *)
LEMMA Recursion ==
    ASSUME NEW V, NEW a \in V, NEW N \in Nat, NEW st \in [V \X (1 .. N) -> V]
    PROVE  \E f : Steps(f, V, a, N, st)
<1> DEFINE Up(f, n) == f \in [0 .. n -> V] /\ f[0] = a
                       /\ \A m \in 1 .. n : f[m] = st[<<f[m - 1], m>>]
           Ok(n) == \E f : Up(f, n)
           S == {n \in Nat : n <= N => Ok(n)}
<1>1. 0 \in S
  <2>1. Up([n \in 0 .. 0 |-> a], 0)
    OBVIOUS
  <2> QED
    BY <2>1
<1>2. ASSUME NEW n \in S PROVE n + 1 \in S
  <2>1. CASE n + 1 <= N
    <3>1. n \in Nat /\ n <= N
      BY <2>1
    <3>2. PICK f : Up(f, n)
      BY <3>1
    <3> DEFINE v == st[<<f[n], n + 1>>]
               g == [m \in 0 .. n + 1 |-> IF m = n + 1 THEN v ELSE f[m]]
    <3>3. f[n] \in V /\ n + 1 \in 1 .. N
      BY <2>1, <3>1, <3>2
    <3>4. v \in V
      BY <3>3
    <3> HIDE DEF v
    <3>5. g \in [0 .. n + 1 -> V] /\ g[0] = a
      BY <3>1, <3>2, <3>4
    <3>6. ASSUME NEW m \in 1 .. n + 1 PROVE g[m] = st[<<g[m - 1], m>>]
      <4>1. CASE m = n + 1
        <5>1. g[m] = v /\ g[m - 1] = f[n]
          BY <3>1, <4>1
        <5> QED
          BY <4>1, <5>1 DEF v
      <4>2. CASE m # n + 1
        <5>1. m \in 1 .. n /\ g[m] = f[m] /\ g[m - 1] = f[m - 1]
          BY <3>1, <4>2
        <5> QED
          BY <3>2, <5>1
      <4> QED
        BY <4>1, <4>2
    <3>7. Up(g, n + 1)
      BY <3>5, <3>6
    <3>8. Ok(n + 1)
      <4> HIDE DEF Up, g
      <4> QED
        BY <3>7
    <3>9. n + 1 \in Nat
      BY <3>1
    <3> HIDE DEF Ok
    <3> QED
      BY <3>8, <3>9
  <2>2. CASE ~(n + 1 <= N)
    BY <2>2
  <2> QED
    BY <2>1, <2>2
<1>3. S = Nat
  <2> HIDE DEF Ok
  <2>1. S \in SUBSET Nat
    OBVIOUS
  <2> HIDE DEF S
  <2> QED
    BY <1>1, <1>2, <2>1, NatSet
<1>4. Ok(N)
  <2> HIDE DEF Ok
  <2> QED
    BY <1>3
<1> QED
  BY <1>4 DEF Steps

\* The first k pieces of a text, one behind the other.
Joined(g, k) == FlattenSeq([i \in 1 .. k |-> g[i]])

(* No piece, and one piece more.                                           *)
LEMMA JoinedIs ==
    ASSUME NEW S, NEW n \in Nat, NEW g \in [1 .. n -> Seq(S)]
    PROVE  /\ Joined(g, 0) = <<>>
           /\ \A k \in 0 .. n : Joined(g, k) \in Seq(S)
           /\ \A k \in 1 .. n : Joined(g, k) = Joined(g, k - 1) \o g[k]
<1>1. Joined(g, 0) = <<>>
  <2>1. [i \in 1 .. 0 |-> g[i]] = <<>>
    OBVIOUS
  <2> QED
    BY <2>1 DEF Joined, FlattenSeq
<1> DEFINE V == Seq(S)
           st == [p \in V \X (1 .. n) |-> p[1] \o g[p[2]]]
<1>2. st \in [V \X (1 .. n) -> V]
  OBVIOUS
<1>0. PICK f : Steps(f, V, <<>>, n, st)
  <2>1. <<>> \in V
    OBVIOUS
  <2> HIDE DEF V, st
  <2> QED
    BY <1>2, <2>1, Recursion
<1>3. f \in [0 .. n -> V] /\ f[0] = <<>> /\ \A m \in 1 .. n : f[m] = st[<<f[m - 1], m>>]
  <2> HIDE DEF V, st
  <2> QED
    BY <1>0 DEF Steps
<1>4. ASSUME NEW m \in 1 .. n PROVE f[m] = f[m - 1] \o g[m]
  <2>1. m - 1 \in 0 .. n
    OBVIOUS
  <2>2. <<f[m - 1], m>> \in V \X (1 .. n) /\ f[m] = st[<<f[m - 1], m>>]
    <3> HIDE DEF V, st
    <3> QED
      BY <1>3, <2>1
  <2> HIDE DEF V
  <2> QED
    BY <2>2
<1>5. \A m \in 0 .. n : f[m] \in Seq(S)
  BY <1>3
<1>6. ASSUME NEW k \in 1 .. n PROVE Joined(g, k) = f[k]
  <2> DEFINE s == [i \in 1 .. k |-> g[i]]
             Rec(h) == h = [i \in 1 .. k |-> IF i = 1 THEN s[i] ELSE h[i - 1] \o s[i]]
             flat == CHOOSE h : Rec(h)
             good == [i \in 1 .. k |-> f[i]]
             U == {i \in Nat : i + 1 <= k => flat[i + 1] = f[i + 1]}
  <2>1. s \in Seq(V) /\ Len(s) = k /\ k \in Nat \ {0}
    OBVIOUS
  <2>2. f[1] = g[1]
    <3>0. 1 \in 1 .. n /\ 1 - 1 = 0
      OBVIOUS
    <3>1. f[1] = f[1 - 1] \o g[1] /\ g[1] \in Seq(S)
      BY <1>4, <3>0
    <3>2. f[1 - 1] = <<>>
      <4> HIDE DEF V, st
      <4> QED
        BY <1>3
    <3> QED
      BY <3>1, <3>2
  <2>3. ASSUME NEW i \in 1 .. k
        PROVE  good[i] = IF i = 1 THEN s[i] ELSE good[i - 1] \o s[i]
    <3>1. CASE i = 1
      BY <2>2, <3>1
    <3>2. CASE i # 1
      <4>1. i \in 1 .. n /\ i - 1 \in 1 .. k
        BY <3>2
      <4>2. good[i] = f[i] /\ good[i - 1] = f[i - 1] /\ s[i] = g[i]
        BY <4>1
      <4>3. f[i] = f[i - 1] \o g[i]
        BY <1>4, <4>1
      <4> HIDE DEF good, s
      <4> QED
        BY <3>2, <4>2, <4>3
    <3> QED
      BY <3>1, <3>2
  <2>4. Rec(good)
    <3>1. good = [i \in 1 .. k |-> good[i]]
      OBVIOUS
    <3> HIDE DEF good, s
    <3> QED
      BY <2>3, <3>1
  <2>5. Rec(flat)
    <3> HIDE DEF Rec, good
    <3> QED
      BY <2>4
  <2>6. \A i \in 1 .. k : flat[i] = IF i = 1 THEN s[i] ELSE flat[i - 1] \o s[i]
    <3> HIDE DEF flat, s
    <3> QED
      BY <2>5
  <2>7. Joined(g, k) = flat[k]
    <3>1. Len(s) # 0 /\ Len(s) = k
      BY <2>1
    <3>2. Joined(g, k) = FlattenSeq(s)
      BY DEF Joined
    <3> HIDE DEF s
    <3> QED
      BY <3>1, <3>2 DEF FlattenSeq
  <2> HIDE DEF flat
  <2>8. 0 \in U
    BY <2>1, <2>2, <2>6
  <2>9. ASSUME NEW i \in U PROVE i + 1 \in U
    <3>1. CASE i + 2 <= k
      <4>1. i \in Nat /\ flat[i + 1] = f[i + 1]
        BY <2>1, <3>1
      <4>0. i + 2 \in 1 .. k /\ i + 2 \in 1 .. n /\ (i + 2) - 1 = i + 1 /\ i + 2 # 1
        BY <3>1, <4>1
      <4> HIDE DEF s, U
      <4>2. flat[i + 2] = flat[i + 1] \o s[i + 2]
        <5>1. flat[i + 2] = IF i + 2 = 1 THEN s[i + 2] ELSE flat[(i + 2) - 1] \o s[i + 2]
          BY <2>6, <4>0
        <5> QED
          BY <4>0, <5>1
      <4>3. f[i + 2] = f[i + 1] \o g[i + 2] /\ s[i + 2] = g[i + 2]
        <5>1. f[i + 2] = f[(i + 2) - 1] \o g[i + 2]
          BY <1>4, <4>0
        <5> QED
          BY <4>0, <5>1 DEF s
      <4>4. flat[i + 2] = f[i + 2] /\ i + 1 \in Nat /\ (i + 1) + 1 = i + 2
        BY <4>1, <4>2, <4>3
      <4> QED
        BY <4>4 DEF U
    <3> QED
      BY <3>1
  <2>10. U = Nat
    <3>1. U \in SUBSET Nat
      OBVIOUS
    <3> HIDE DEF U
    <3> QED
      BY <2>8, <2>9, <3>1, NatSet
  <2>11. k - 1 \in U
    <3>1. k - 1 \in Nat
      BY <2>1
    <3> HIDE DEF U
    <3> QED
      BY <2>10, <3>1
  <2> QED
    BY <2>1, <2>7, <2>11
<1>7. \A k \in 0 .. n : Joined(g, k) = f[k]
  BY <1>1, <1>3, <1>6
<1>8. ASSUME NEW k \in 1 .. n PROVE Joined(g, k) = Joined(g, k - 1) \o g[k]
  <2>1. k \in 0 .. n /\ k - 1 \in 0 .. n
    OBVIOUS
  <2> QED
    BY <1>4, <1>7, <2>1
<1> QED
  BY <1>1, <1>5, <1>7, <1>8

\* A text of n pieces over the characters S.
Pieces(S, n, g) == n \in Nat /\ g \in [1 .. n -> Seq(S)]

\* Piece k follows the pieces before it.
OneMore(S, g, k) ==
    /\ g[k] \in Seq(S) /\ Joined(g, k - 1) \in Seq(S) /\ Joined(g, k) \in Seq(S)
    /\ Len(Joined(g, k)) = Len(Joined(g, k - 1)) + Len(g[k])
    /\ \A p \in 1 .. Len(Joined(g, k - 1)) : Joined(g, k)[p] = Joined(g, k - 1)[p]
    /\ \A p \in 1 .. Len(g[k]) : Joined(g, k)[Len(Joined(g, k - 1)) + p] = g[k][p]

(* One piece more.                                                         *)
LEMMA JoinedOne ==
    ASSUME NEW S, NEW n, NEW g, Pieces(S, n, g), NEW k \in 1 .. n
    PROVE  OneMore(S, g, k)
<1>1. n \in Nat /\ g \in [1 .. n -> Seq(S)] /\ k - 1 \in 0 .. n /\ k \in 0 .. n
  BY DEF Pieces
<1> DEFINE a == Joined(g, k - 1)
           b == g[k]
<1>2. a \in Seq(S) /\ b \in Seq(S) /\ Joined(g, k) = a \o b
  BY <1>1, JoinedIs
<1>3. Joined(g, k) \in Seq(S)
  BY <1>1, JoinedIs
<1> HIDE DEF a, b
<1>4. Len(a \o b) = Len(a) + Len(b)
  BY <1>2
<1>5. ASSUME NEW p \in 1 .. Len(a) PROVE (a \o b)[p] = a[p]
  BY <1>2
<1>6. ASSUME NEW p \in 1 .. Len(b) PROVE (a \o b)[Len(a) + p] = b[p]
  BY <1>2
<1> QED
  BY <1>2, <1>3, <1>4, <1>5, <1>6 DEF a, b, OneMore

\* The text of k pieces is the start of the text of m pieces.
Starts(g, k, m) ==
    /\ Len(Joined(g, k)) <= Len(Joined(g, m))
    /\ \A p \in 1 .. Len(Joined(g, k)) : Joined(g, m)[p] = Joined(g, k)[p]

(* The first pieces are the start of the whole text.                       *)
LEMMA JoinedStarts ==
    ASSUME NEW S, NEW n, NEW g, Pieces(S, n, g), NEW k \in 0 .. n
    PROVE  Joined(g, k) \in Seq(S) /\ Starts(g, k, n)
<1>1. n \in Nat /\ g \in [1 .. n -> Seq(S)]
  BY DEF Pieces
<1>2. \A m \in 0 .. n : Joined(g, m) \in Seq(S)
  BY <1>1, JoinedIs
<1> DEFINE U == {d \in Nat : k + d <= n => Starts(g, k, k + d)}
<1>3. 0 \in U
  <2>1. k + 0 = k
    BY <1>1
  <2>2. Starts(g, k, k)
    BY <1>2 DEF Starts
  <2> QED
    BY <2>1, <2>2
<1>4. ASSUME NEW d \in U PROVE d + 1 \in U
  <2>1. CASE k + d + 1 <= n
    <3>0. k \in Nat /\ d \in Nat /\ k + d <= n
      BY <1>1, <2>1
    <3> DEFINE m == k + d + 1
    <3>1. m \in 1 .. n /\ m - 1 = k + d /\ m - 1 \in 0 .. n
      BY <1>1, <2>1, <3>0
    <3>2. Starts(g, k, m - 1)
      BY <3>0, <3>1
    <3> HIDE DEF m
    <3>9. OneMore(S, g, m)
      BY <3>1, JoinedOne
    <3>3. /\ Len(Joined(g, m)) = Len(Joined(g, m - 1)) + Len(g[m]) /\ g[m] \in Seq(S)
          /\ \A p \in 1 .. Len(Joined(g, m - 1)) : Joined(g, m)[p] = Joined(g, m - 1)[p]
      BY <3>9 DEF OneMore
    <3>4. Joined(g, k) \in Seq(S) /\ Joined(g, m - 1) \in Seq(S)
      BY <1>2, <3>1
    <3>5. Starts(g, k, m)
      <4> DEFINE a == Len(Joined(g, k))
                 b == Len(Joined(g, m - 1))
      <4>1. a \in Nat /\ b \in Nat /\ Len(g[m]) \in Nat /\ a <= b
        BY <3>2, <3>3, <3>4 DEF Starts
      <4>2. \A p \in 1 .. a : p \in 1 .. b
        <5> HIDE DEF a, b
        <5> QED
          BY <4>1
      <4>3. Len(Joined(g, m)) = b + Len(g[m])
        BY <3>3
      <4>4. \A p \in 1 .. a : Joined(g, m)[p] = Joined(g, k)[p]
        BY <3>2, <3>3, <4>2 DEF Starts
      <4>5. a <= Len(Joined(g, m))
        <5> HIDE DEF a, b
        <5> QED
          BY <4>1, <4>3
      <4> QED
        BY <4>4, <4>5 DEF Starts
    <3>6. m = k + (d + 1) /\ d + 1 \in Nat
      BY <3>0 DEF m
    <3> QED
      BY <3>5, <3>6
  <2>2. CASE ~(k + d + 1 <= n)
    <3>1. d \in Nat /\ k \in Nat
      OBVIOUS
    <3>2. ~(k + (d + 1) <= n) /\ d + 1 \in Nat
      BY <1>1, <2>2, <3>1
    <3> QED
      BY <3>2
  <2> QED
    BY <2>1, <2>2
<1>5. U = Nat
  <2>1. U \in SUBSET Nat
    OBVIOUS
  <2> HIDE DEF U
  <2> QED
    BY <1>3, <1>4, <2>1, NatSet
<1>6. n - k \in Nat /\ k + (n - k) = n
  BY <1>1
<1>7. n - k \in U
  <2> HIDE DEF U
  <2> QED
    BY <1>5, <1>6
<1> QED
  BY <1>1, <1>2, <1>6, <1>7

\* The place of piece k in the text of n pieces.
PieceAt(g, k, n) ==
    /\ Len(Joined(g, k - 1)) \in Nat /\ Len(g[k]) \in Nat /\ Len(Joined(g, n)) \in Nat
    /\ Len(Joined(g, k)) = Len(Joined(g, k - 1)) + Len(g[k])
    /\ Len(Joined(g, k)) <= Len(Joined(g, n))
    /\ \A p \in 1 .. Len(g[k]) : Joined(g, n)[Len(Joined(g, k - 1)) + p] = g[k][p]

(* Where the pieces are in the text.                                       *)
LEMMA JoinedPiece ==
    ASSUME NEW S, NEW n, NEW g, Pieces(S, n, g), NEW k \in 1 .. n
    PROVE  PieceAt(g, k, n)
<1>1. k \in 0 .. n /\ n \in 0 .. n /\ n \in Nat
  BY DEF Pieces
<1>2. Joined(g, k) \in Seq(S) /\ Starts(g, k, n) /\ Joined(g, n) \in Seq(S)
  BY <1>1, JoinedStarts
<1>3. /\ g[k] \in Seq(S) /\ Joined(g, k - 1) \in Seq(S) /\ Joined(g, k) \in Seq(S)
      /\ Len(Joined(g, k)) = Len(Joined(g, k - 1)) + Len(g[k])
      /\ \A p \in 1 .. Len(g[k]) : Joined(g, k)[Len(Joined(g, k - 1)) + p] = g[k][p]
  <2>1. OneMore(S, g, k)
    BY JoinedOne
  <2> QED
    BY <2>1 DEF OneMore
<1>4. ASSUME NEW p \in 1 .. Len(g[k])
      PROVE  Joined(g, n)[Len(Joined(g, k - 1)) + p] = g[k][p]
  <2>1. Len(Joined(g, k - 1)) + p \in 1 .. Len(Joined(g, k))
    BY <1>3
  <2> QED
    BY <1>2, <1>3, <2>1 DEF Starts
<1>5. Len(Joined(g, k - 1)) \in Nat /\ Len(g[k]) \in Nat /\ Len(Joined(g, n)) \in Nat
  BY <1>2, <1>3
<1>6. Len(Joined(g, k)) <= Len(Joined(g, n))
  BY <1>2 DEF Starts
<1> QED
  BY <1>3, <1>4, <1>5, <1>6 DEF PieceAt

\* Values computed backwards from the two behind them.
Backwards(f, V, a, L, st) ==
    /\ f \in [1 .. L + 2 -> V] /\ f[L + 1] = a /\ f[L + 2] = a
    /\ \A i \in 1 .. L : f[i] = st[<<f[i + 1], f[i + 2], i>>]

(* Such values exist.                                                      *)
LEMMA BackwardRecursion ==
    ASSUME NEW V, NEW a \in V, NEW L \in Nat, NEW st \in [V \X V \X (1 .. L) -> V]
    PROVE  \E f : Backwards(f, V, a, L, st)
<1> DEFINE W == V \X V
           sw == [q \in W \X (1 .. L) |-> <<st[<<q[1][1], q[1][2], (L + 1) - q[2]>>], q[1][1]>>]
<1>1. sw \in [W \X (1 .. L) -> W]
  <2>1. ASSUME NEW q \in W \X (1 .. L)
        PROVE  <<st[<<q[1][1], q[1][2], (L + 1) - q[2]>>], q[1][1]>> \in W
    <3>1. q[1][1] \in V /\ q[1][2] \in V /\ q[2] \in 1 .. L
      OBVIOUS
    <3>2. (L + 1) - q[2] \in 1 .. L
      BY <3>1
    <3> QED
      BY <3>1, <3>2
  <2> QED
    BY <2>1
<1>2. PICK h : Steps(h, W, <<a, a>>, L, sw)
  <2>1. <<a, a>> \in W
    OBVIOUS
  <2> HIDE DEF W, sw
  <2> QED
    BY <1>1, <2>1, Recursion
<1>3. /\ h \in [0 .. L -> W] /\ h[0] = <<a, a>>
      /\ \A n \in 1 .. L : h[n] = sw[<<h[n - 1], n>>]
  <2> HIDE DEF W, sw
  <2> QED
    BY <1>2 DEF Steps
<1>4. ASSUME NEW n \in 1 .. L
      PROVE  h[n] = <<st[<<h[n - 1][1], h[n - 1][2], (L + 1) - n>>], h[n - 1][1]>>
  <2>1. n - 1 \in 0 .. L
    OBVIOUS
  <2>2. <<h[n - 1], n>> \in W \X (1 .. L) /\ h[n] = sw[<<h[n - 1], n>>]
    <3> HIDE DEF W, sw
    <3> QED
      BY <1>3, <2>1
  <2> HIDE DEF W
  <2> QED
    BY <2>2
<1>5. \A n \in 0 .. L : h[n][1] \in V /\ h[n][2] \in V
  BY <1>3
<1> HIDE DEF W, sw
<1> DEFINE f == [i \in 1 .. L + 2 |-> IF i = L + 2 THEN a ELSE h[(L + 1) - i][1]]
<1>6. f \in [1 .. L + 2 -> V]
  <2>1. ASSUME NEW i \in 1 .. L + 2, i # L + 2 PROVE (L + 1) - i \in 0 .. L
    BY <2>1
  <2> QED
    BY <1>5, <2>1
<1>7. f[L + 1] = a /\ f[L + 2] = a
  <2>1. (L + 1) - (L + 1) = 0 /\ L + 1 \in 1 .. L + 2 /\ L + 2 \in 1 .. L + 2 /\ L + 1 # L + 2
    OBVIOUS
  <2>2. h[0][1] = a
    BY <1>3
  <2> QED
    BY <2>1, <2>2
<1>8. ASSUME NEW i \in 1 .. L PROVE f[i] = st[<<f[i + 1], f[i + 2], i>>]
  <2> DEFINE n == (L + 1) - i
  <2>1. n \in 1 .. L /\ (L + 1) - n = i /\ n - 1 \in 0 .. L
    OBVIOUS
  <2>2. f[i] = h[n][1]
    OBVIOUS
  <2>3. f[i + 1] = h[n - 1][1]
    <3>1. i + 1 \in 1 .. L + 2 /\ i + 1 # L + 2 /\ (L + 1) - (i + 1) = n - 1
      OBVIOUS
    <3> QED
      BY <3>1
  <2>4. f[i + 2] = h[n - 1][2]
    <3>1. CASE n = 1
      <4>1. i + 2 = L + 2 /\ n - 1 = 0
        BY <3>1
      <4>2. h[0][2] = a
        BY <1>3
      <4> QED
        BY <1>7, <4>1, <4>2
    <3>2. CASE n # 1
      <4>1. n - 1 \in 1 .. L /\ i + 2 \in 1 .. L + 2 /\ i + 2 # L + 2
            /\ (L + 1) - (i + 2) = (n - 1) - 1
        BY <3>2
      <4>2. f[i + 2] = h[(n - 1) - 1][1]
        BY <4>1
      <4>3. h[n - 1][2] = h[(n - 1) - 1][1]
        <5> DEFINE j == n - 1
        <5>1. j \in 1 .. L
          BY <4>1
        <5> HIDE DEF j
        <5>2. h[j] = <<st[<<h[j - 1][1], h[j - 1][2], (L + 1) - j>>], h[j - 1][1]>>
          BY <1>4, <5>1
        <5>3. h[j][2] = h[j - 1][1]
          BY <5>2
        <5> QED
          BY <5>3 DEF j
      <4> QED
        BY <4>2, <4>3
    <3> QED
      BY <3>1, <3>2
  <2>5. h[n][1] = st[<<h[n - 1][1], h[n - 1][2], (L + 1) - n>>]
    <3> HIDE DEF n
    <3> QED
      BY <1>4, <2>1
  <2> HIDE DEF n, f
  <2> QED
    BY <2>1, <2>2, <2>3, <2>4, <2>5
<1>9. Backwards(f, V, a, L, st)
  <2> HIDE DEF f
  <2> QED
    BY <1>6, <1>7, <1>8 DEF Backwards
<1> QED
  BY <1>9

\* The characters on a line.
Chars == STRING \cup {"backslash", "space", "nul"}

\* A word as C has it: no 0 in it.
IsWord(w) == w \in Seq(Chars) /\ \A i \in DOMAIN w : w[i] # "nul"

\* The characters of w as they are sent.
Sent(w) == [i \in DOMAIN w |-> Escape(w[i])]

\* text starts with the word w and a separator.
Leads(text, w) ==
    /\ text \in Seq(Chars)
    /\ Len(Joined(Sent(w), Len(w))) < Len(text)
    /\ \A j \in 1 .. Len(Joined(Sent(w), Len(w))) : text[j] = Joined(Sent(w), Len(w))[j]
    /\ text[Len(Joined(Sent(w), Len(w))) + 1] \in {"space", "nul"}

(* A word is sent in pieces, one for each of its characters.               *)
LEMMA SentPieces ==
    ASSUME NEW w, IsWord(w)
    PROVE  /\ Pieces(Chars, Len(w), Sent(w)) /\ Len(w) \in Nat /\ DOMAIN w = 1 .. Len(w)
           /\ Joined(Sent(w), 0) = <<>>
           /\ BufferAddString(w) = Joined(Sent(w), Len(w)) \o <<"space">>
<1>1. w \in Seq(Chars) /\ DOMAIN w = 1 .. Len(w) /\ Len(w) \in Nat
  BY DEF IsWord
<1>2. ASSUME NEW i \in DOMAIN w PROVE Escape(w[i]) \in Seq(Chars)
  <2> DEFINE ch == w[i]
  <2>1. ch \in Chars /\ "backslash" \in Chars
    BY <1>1 DEF Chars
  <2> HIDE DEF ch
  <2>2. <<ch>> \in Seq(Chars) /\ <<"backslash", ch>> \in Seq(Chars)
    BY <2>1
  <2> QED
    BY <2>2 DEF Escape, ch
<1>3. Sent(w) \in [1 .. Len(w) -> Seq(Chars)]
  BY <1>1, <1>2 DEF Sent
<1>4. [i \in 1 .. Len(w) |-> Sent(w)[i]] = [i \in DOMAIN w |-> Escape(w[i])]
  BY <1>1 DEF Sent
<1>5. BufferAddString(w) = Joined(Sent(w), Len(w)) \o <<"space">>
  BY <1>4 DEF BufferAddString, Joined
<1>6. Joined(Sent(w), 0) = <<>>
  BY <1>1, <1>3, JoinedIs
<1> QED
  BY <1>1, <1>3, <1>5, <1>6 DEF Pieces

\* Where the characters of w are on the line: character k from at on, behind the
\* one before it, after a backslash if it needs one.
Placed(text, w, at) ==
    /\ at \in [0 .. Len(w) -> Nat] /\ at[0] = 0 /\ at[Len(w)] < Len(text)
    /\ text[at[Len(w)] + 1] \in {"space", "nul"}
    /\ \A k \in 1 .. Len(w) :
          \/ /\ at[k] = at[k - 1] + 1 /\ text[at[k]] = w[k]
             /\ w[k] \notin {"space", "backslash", "nul"}
          \/ /\ at[k] = at[k - 1] + 2 /\ text[at[k]] = w[k]
             /\ text[at[k] - 1] = "backslash"

(* The places of the characters.                                           *)
LEMMA WordPlaces ==
    ASSUME NEW w, IsWord(w), NEW text, Leads(text, w)
    PROVE  \E at : Placed(text, w, at) /\ at[Len(w)] = Len(Joined(Sent(w), Len(w)))
<1> DEFINE g == Sent(w)
           m == Len(w)
           at == [k \in 0 .. m |-> Len(Joined(g, k))]
<1>1. Pieces(Chars, m, g) /\ m \in Nat /\ DOMAIN w = 1 .. m /\ Joined(g, 0) = <<>>
  BY SentPieces
<1>2. \A k \in 0 .. m : Joined(g, k) \in Seq(Chars)
  <2> HIDE DEF g, m
  <2> QED
    BY <1>1, JoinedStarts
<1>3. at \in [0 .. m -> Nat] /\ at[0] = 0 /\ at[m] = Len(Joined(g, m))
  <2>1. Len(Joined(g, 0)) = 0
    BY <1>1
  <2> HIDE DEF g, m
  <2> QED
    BY <1>1, <1>2, <2>1
<1>4. ASSUME NEW k \in 1 .. m
      PROVE  \/ /\ at[k] = at[k - 1] + 1 /\ text[at[k]] = w[k]
                /\ w[k] \notin {"space", "backslash", "nul"}
             \/ /\ at[k] = at[k - 1] + 2 /\ text[at[k]] = w[k]
                /\ text[at[k] - 1] = "backslash"
  <2>1. PieceAt(g, k, m)
    <3> HIDE DEF g, m
    <3> QED
      BY <1>1, JoinedPiece
  <2>2. k \in 0 .. m /\ k - 1 \in 0 .. m /\ k \in DOMAIN w
    BY <1>1
  <2>3. at[k] = Len(Joined(g, k)) /\ at[k - 1] = Len(Joined(g, k - 1))
    BY <2>2
  <2>4. g[k] = Escape(w[k]) /\ w[k] # "nul" /\ w[k] \in Chars
    BY <1>1, <2>2 DEF Sent, IsWord
  <2>5. \A j \in 1 .. Len(Joined(g, m)) : text[j] = Joined(g, m)[j]
    BY DEF Leads
  <2> DEFINE a == at[k - 1]
             x == Len(Joined(g, m))
  <2>6. a \in Nat /\ x \in Nat /\ at[k] = a + Len(g[k]) /\ a + Len(g[k]) <= x
        /\ \A p \in 1 .. Len(g[k]) : Joined(g, m)[a + p] = g[k][p]
    <3> HIDE DEF g, m, at
    <3> QED
      BY <2>1, <2>3 DEF PieceAt
  <2>7. \A p \in 1 .. Len(g[k]) : text[a + p] = g[k][p]
    <3>1. Len(g[k]) \in Nat
      BY <2>1 DEF PieceAt
    <3>2. ASSUME NEW p \in 1 .. Len(g[k]) PROVE a + p \in 1 .. x
      <4> HIDE DEF a, x, g
      <4> QED
        BY <2>6, <3>1
    <3> HIDE DEF a, g, m
    <3> QED
      BY <2>5, <2>6, <3>2
  <2>8. CASE w[k] \in {"space", "backslash"}
    <3>1. g[k] = <<"backslash", w[k]>>
      BY <2>4, <2>8 DEF Escape
    <3> HIDE DEF g, a, at, x
    <3>2. Len(g[k]) = 2 /\ g[k][1] = "backslash" /\ g[k][2] = w[k]
      BY <3>1
    <3>3. text[a + 1] = "backslash" /\ text[a + 2] = w[k]
      BY <2>7, <3>2
    <3>4. at[k] = a + 2 /\ at[k] - 1 = a + 1
      BY <2>6, <3>2
    <3> QED
      BY <3>3, <3>4 DEF a
  <2>9. CASE w[k] \notin {"space", "backslash"}
    <3>1. g[k] = <<w[k]>>
      BY <2>4, <2>9 DEF Escape
    <3> HIDE DEF g, a, at, x
    <3>2. Len(g[k]) = 1 /\ g[k][1] = w[k]
      BY <3>1
    <3>3. text[a + 1] = w[k]
      BY <2>7, <3>2
    <3>4. at[k] = a + 1
      BY <2>6, <3>2
    <3> QED
      BY <2>4, <2>9, <3>3, <3>4 DEF a
  <2> QED
    BY <2>8, <2>9
<1>5. at[m] < Len(text) /\ text[at[m] + 1] \in {"space", "nul"}
  BY <1>3 DEF Leads
<1>6. Placed(text, w, at)
  <2> HIDE DEF at
  <2> QED
    BY <1>3, <1>4, <1>5 DEF Placed
<1> HIDE DEF at
<1> QED
  BY <1>3, <1>6

\* buffer_get_field, the two recursions of its loop.
SkipRec(f, text) ==
    f = [i \in 1 .. Len(text) + 1 |->
            IF i > Len(text) \/ text[i] \in {"space", "nul"} THEN i
            ELSE IF text[i] = "backslash"
                 THEN IF i >= Len(text) THEN Len(text) + 1 ELSE f[i + 2]
            ELSE f[i + 1]]
KeptRec(f, text, end) ==
    f = [i \in 1 .. end + 1 |->
            IF i >= end THEN <<>>
            ELSE IF text[i] = "backslash" THEN <<text[i + 1]>> \o f[i + 2]
            ELSE <<text[i]>> \o f[i + 1]]
SkipFcn(text) == CHOOSE f : SkipRec(f, text)
KeptFcn(text, end) == CHOOSE f : KeptRec(f, text, end)

(* What buffer_get_field returns for a field that ends on the line.        *)
LEMMA FieldIs ==
    ASSUME NEW text, NEW end, end = SkipFcn(text)[1], ~(end > Len(text))
    PROVE  BufferGetField(text) =
              [status |-> 0, field |-> KeptFcn(text, end)[1],
               rest |-> SubSeq(text, end + 1, Len(text))]
BY DEF BufferGetField, SkipFcn, KeptFcn, SkipRec, KeptRec

(* Where the field ends.                                                   *)
LEMMA SkipExists ==
    ASSUME NEW text \in Seq(Chars)
    PROVE  SkipRec(SkipFcn(text), text)
<1> DEFINE L == Len(text)
           st == [q \in Nat \X Nat \X (1 .. L) |->
                    IF text[q[3]] \in {"space", "nul"} THEN q[3]
                    ELSE IF text[q[3]] = "backslash" THEN IF q[3] >= L THEN L + 1 ELSE q[2]
                    ELSE q[1]]
<1>1. L \in Nat
  OBVIOUS
<1>2. st \in [Nat \X Nat \X (1 .. L) -> Nat]
  BY <1>1
<1>3. PICK h : Backwards(h, Nat, L + 1, L, st)
  <2>1. L + 1 \in Nat
    BY <1>1
  <2> HIDE DEF L, st
  <2> QED
    BY <1>1, <1>2, <2>1, BackwardRecursion
<1>4. /\ h \in [1 .. L + 2 -> Nat] /\ h[L + 1] = L + 1
      /\ \A i \in 1 .. L : h[i] = st[<<h[i + 1], h[i + 2], i>>]
  <2> HIDE DEF L, st
  <2> QED
    BY <1>3 DEF Backwards
<1>5. ASSUME NEW i \in 1 .. L
      PROVE  h[i] = IF text[i] \in {"space", "nul"} THEN i
                    ELSE IF text[i] = "backslash" THEN IF i >= L THEN L + 1 ELSE h[i + 2]
                    ELSE h[i + 1]
  <2>1. i + 1 \in 1 .. L + 2 /\ i + 2 \in 1 .. L + 2
    BY <1>1
  <2>2. h[i + 1] \in Nat /\ h[i + 2] \in Nat
    <3> HIDE DEF L, st
    <3> QED
      BY <1>4, <2>1
  <2> DEFINE q == <<h[i + 1], h[i + 2], i>>
  <2>3. q \in Nat \X Nat \X (1 .. L) /\ q[1] = h[i + 1] /\ q[2] = h[i + 2] /\ q[3] = i
    BY <2>2
  <2>4. h[i] = st[q]
    <3> HIDE DEF L, st
    <3> QED
      BY <1>4
  <2> HIDE DEF q
  <2> QED
    BY <2>3, <2>4
<1> DEFINE f == [i \in 1 .. L + 1 |-> h[i]]
<1>6. ASSUME NEW i \in 1 .. L + 1
      PROVE  f[i] = IF i > L \/ text[i] \in {"space", "nul"} THEN i
                    ELSE IF text[i] = "backslash" THEN IF i >= L THEN L + 1 ELSE f[i + 2]
                    ELSE f[i + 1]
  <2> HIDE DEF L, st
  <2>1. CASE i > L
    <3>1. i = L + 1
      BY <1>1, <2>1
    <3> QED
      BY <1>4, <2>1, <3>1
  <2>2. CASE ~(i > L)
    <3>1. i \in 1 .. L /\ i + 1 \in 1 .. L + 1 /\ (~(i >= L) => i + 2 \in 1 .. L + 1)
      BY <1>1, <2>2
    <3>2. f[i] = h[i] /\ f[i + 1] = h[i + 1] /\ (~(i >= L) => f[i + 2] = h[i + 2])
      BY <3>1
    <3>3. h[i] = IF text[i] \in {"space", "nul"} THEN i
                 ELSE IF text[i] = "backslash" THEN IF i >= L THEN L + 1 ELSE h[i + 2]
                 ELSE h[i + 1]
      BY <1>5, <3>1
    <3> HIDE DEF f
    <3> QED
      BY <2>2, <3>2, <3>3
  <2> QED
    BY <2>1, <2>2
<1>7. SkipRec(f, text)
  <2>1. f = [i \in 1 .. L + 1 |-> f[i]]
    OBVIOUS
  <2> HIDE DEF f
  <2> QED
    BY <1>6, <2>1 DEF SkipRec
<1> HIDE DEF f
<1> QED
  BY <1>7 DEF SkipFcn

(* The characters of the field.                                            *)
LEMMA KeptExists ==
    ASSUME NEW text \in Seq(Chars), NEW end \in 1 .. Len(text)
    PROVE  KeptRec(KeptFcn(text, end), text, end)
<1> DEFINE L == end - 1
           V == Seq(Chars)
           st == [q \in V \X V \X (1 .. L) |->
                    IF text[q[3]] = "backslash" THEN <<text[q[3] + 1]>> \o q[2]
                    ELSE <<text[q[3]]>> \o q[1]]
<1>1. L \in Nat /\ L + 2 = end + 1 /\ L + 1 = end
  OBVIOUS
<1>2. st \in [V \X V \X (1 .. L) -> V]
  <2>1. ASSUME NEW q \in V \X V \X (1 .. L) PROVE st[q] \in V
    <3>1. q[1] \in V /\ q[2] \in V /\ q[3] \in 1 .. Len(text) /\ q[3] + 1 \in 1 .. Len(text)
      OBVIOUS
    <3>2. text[q[3]] \in Chars /\ text[q[3] + 1] \in Chars
      BY <3>1
    <3>3. <<text[q[3]]>> \in V /\ <<text[q[3] + 1]>> \in V
      BY <3>2
    <3>4. \A a, b \in Seq(Chars) : a \o b \in Seq(Chars)
      OBVIOUS
    <3>5. <<text[q[3] + 1]>> \o q[2] \in V /\ <<text[q[3]]>> \o q[1] \in V
      BY <3>1, <3>3, <3>4
    <3> QED
      BY <3>5
  <2> QED
    BY <2>1
<1>3. PICK h : Backwards(h, V, <<>>, L, st)
  <2>1. <<>> \in V
    OBVIOUS
  <2> HIDE DEF L, st, V
  <2> QED
    BY <1>1, <1>2, <2>1, BackwardRecursion
<1>4. /\ h \in [1 .. L + 2 -> V] /\ h[L + 1] = <<>> /\ h[L + 2] = <<>>
      /\ \A i \in 1 .. L : h[i] = st[<<h[i + 1], h[i + 2], i>>]
  <2> HIDE DEF L, st, V
  <2> QED
    BY <1>3 DEF Backwards
<1>5. ASSUME NEW i \in 1 .. L
      PROVE  h[i] = IF text[i] = "backslash" THEN <<text[i + 1]>> \o h[i + 2]
                    ELSE <<text[i]>> \o h[i + 1]
  <2>1. i + 1 \in 1 .. L + 2 /\ i + 2 \in 1 .. L + 2
    BY <1>1
  <2>2. h[i + 1] \in V /\ h[i + 2] \in V
    <3> HIDE DEF L, st, V
    <3> QED
      BY <1>4, <2>1
  <2> DEFINE q == <<h[i + 1], h[i + 2], i>>
  <2> HIDE DEF V
  <2>3. q \in V \X V \X (1 .. L) /\ q[1] = h[i + 1] /\ q[2] = h[i + 2] /\ q[3] = i
    BY <2>2
  <2>4. h[i] = st[q]
    <3> HIDE DEF L, st
    <3> QED
      BY <1>4
  <2> HIDE DEF q
  <2> QED
    BY <2>3, <2>4
<1>6. ASSUME NEW i \in 1 .. end + 1
      PROVE  h[i] = IF i >= end THEN <<>>
                    ELSE IF text[i] = "backslash" THEN <<text[i + 1]>> \o h[i + 2]
                    ELSE <<text[i]>> \o h[i + 1]
  <2>1. CASE i >= end
    <3>1. i = L + 1 \/ i = L + 2
      BY <2>1
    <3> HIDE DEF L, V, st
    <3> QED
      BY <1>4, <2>1, <3>1
  <2>2. CASE ~(i >= end)
    <3>1. i \in 1 .. L
      BY <2>2
    <3> HIDE DEF L
    <3> QED
      BY <1>5, <2>2, <3>1
  <2> QED
    BY <2>1, <2>2
<1>7. KeptRec(h, text, end)
  <2>1. h = [i \in 1 .. end + 1 |-> h[i]]
    <3> HIDE DEF L, V, st
    <3> QED
      BY <1>1, <1>4
  <2> QED
    BY <1>6, <2>1 DEF KeptRec
<1> QED
  BY <1>7 DEF KeptFcn

(* The field ends behind the last character of the word.                   *)
LEMMA SkipIs ==
    ASSUME NEW text \in Seq(Chars), NEW w, IsWord(w), NEW at, Placed(text, w, at)
    PROVE  SkipFcn(text)[1] = at[Len(w)] + 1 /\ at[Len(w)] + 1 \in 1 .. Len(text)
<1> DEFINE m == Len(w)
           L == Len(text)
           f == SkipFcn(text)
<1>0. m \in Nat /\ L \in Nat
  BY DEF IsWord
<1>1. ASSUME NEW i \in 1 .. L + 1
      PROVE  f[i] = IF i > L \/ text[i] \in {"space", "nul"} THEN i
                    ELSE IF text[i] = "backslash" THEN IF i >= L THEN L + 1 ELSE f[i + 2]
                    ELSE f[i + 1]
  <2>1. SkipRec(f, text)
    BY SkipExists
  <2> HIDE DEF f
  <2> QED
    BY <2>1 DEF SkipRec
<1>2. /\ at \in [0 .. m -> Nat] /\ at[0] = 0 /\ at[m] < L
      /\ text[at[m] + 1] \in {"space", "nul"}
  BY DEF Placed
<1> HIDE DEF f
<1> DEFINE U == {d \in Nat : d <= m => f[at[m - d] + 1] = at[m] + 1 /\ at[m - d] <= at[m]}
<1>3. 0 \in U
  <2>1. m - 0 = m /\ at[m] \in Nat /\ at[m] + 1 \in 1 .. L + 1 /\ ~(at[m] + 1 > L)
    BY <1>0, <1>2
  <2>2. f[at[m] + 1] = at[m] + 1
    BY <1>1, <1>2, <2>1
  <2> QED
    BY <2>1, <2>2
<1>4. ASSUME NEW d \in U PROVE d + 1 \in U
  <2>1. CASE d + 1 <= m
    <3> DEFINE k == m - d
    <3>1. d \in Nat /\ k \in 1 .. m /\ k \in 0 .. m /\ k - 1 \in 0 .. m /\ m - (d + 1) = k - 1
          /\ d + 1 \in Nat /\ d <= m
      BY <1>0, <2>1
    <3>2. f[at[k] + 1] = at[m] + 1 /\ at[k] <= at[m]
      BY <3>1
    <3> HIDE DEF k
    <3> DEFINE a == at[k]
               b == at[k - 1]
               e == at[m]
    <3>3. a \in Nat /\ b \in Nat /\ e \in Nat /\ e < L /\ a <= e
      <4>0. m \in 0 .. m
        BY <1>0
      <4>1. a \in Nat /\ b \in Nat /\ e \in Nat
        BY <1>2, <3>1, <4>0
      <4> QED
        BY <1>2, <3>2, <4>1
    <3>4. CASE a = b + 1 /\ text[a] = w[k] /\ w[k] \notin {"space", "backslash", "nul"}
      <4> HIDE DEF a, b, e
      <4>1. b + 1 \in 1 .. L + 1 /\ ~(b + 1 > L) /\ b + 1 = a /\ (b + 1) + 1 = a + 1 /\ b <= e
        BY <1>0, <3>3, <3>4
      <4>2. text[b + 1] \notin {"space", "nul"} /\ text[b + 1] # "backslash"
        BY <3>4, <4>1
      <4>3. f[b + 1] = f[(b + 1) + 1]
        BY <1>1, <4>1, <4>2
      <4>4. f[b + 1] = e + 1
        BY <3>2, <4>1, <4>3 DEF a, e
      <4> QED
        BY <3>1, <4>1, <4>4 DEF b, e
    <3>5. CASE a = b + 2 /\ text[a] = w[k] /\ text[a - 1] = "backslash"
      <4> HIDE DEF a, b, e
      <4>1. b + 1 \in 1 .. L + 1 /\ ~(b + 1 > L) /\ a - 1 = b + 1 /\ (b + 1) + 2 = a + 1
            /\ ~(b + 1 >= L) /\ b <= e
        BY <1>0, <3>3, <3>5
      <4>2. text[b + 1] \notin {"space", "nul"} /\ text[b + 1] = "backslash"
        BY <3>5, <4>1
      <4>3. f[b + 1] = f[(b + 1) + 2]
        BY <1>1, <4>1, <4>2
      <4>4. f[b + 1] = e + 1
        BY <3>2, <4>1, <4>3 DEF a, e
      <4> QED
        BY <3>1, <4>1, <4>4 DEF b, e
    <3>6. \/ a = b + 1 /\ text[a] = w[k] /\ w[k] \notin {"space", "backslash", "nul"}
          \/ a = b + 2 /\ text[a] = w[k] /\ text[a - 1] = "backslash"
      BY <3>1 DEF Placed
    <3> QED
      BY <3>4, <3>5, <3>6
  <2>2. CASE ~(d + 1 <= m)
    BY <2>2
  <2> QED
    BY <2>1, <2>2
<1>5. U = Nat
  <2>1. U \in SUBSET Nat
    OBVIOUS
  <2> HIDE DEF U
  <2> QED
    BY <1>3, <1>4, <2>1, NatSet
<1>6. m \in U
  <2> HIDE DEF U
  <2> QED
    BY <1>0, <1>5
<1>7. m - m = 0 /\ at[0] + 1 = 1
  BY <1>0, <1>2
<1>8. f[1] = at[m] + 1
  BY <1>0, <1>6, <1>7
<1>9. at[m] + 1 \in 1 .. L
  <2>1. at[m] \in Nat
    BY <1>0, <1>2
  <2> QED
    BY <1>0, <1>2, <2>1
<1> QED
  BY <1>8, <1>9 DEF f

(* The field has the characters of the word.                               *)
LEMMA KeptIs ==
    ASSUME NEW text \in Seq(Chars), NEW w, IsWord(w), NEW at, Placed(text, w, at)
    PROVE  KeptFcn(text, at[Len(w)] + 1)[1] = w
<1> DEFINE m == Len(w)
           L == Len(text)
           end == at[m] + 1
           f == KeptFcn(text, end)
<1>0. m \in Nat /\ L \in Nat /\ w \in Seq(Chars)
  BY DEF IsWord
<1>2. at \in [0 .. m -> Nat] /\ at[0] = 0 /\ at[m] < L
  BY DEF Placed
<1>9. at[m] \in Nat /\ end \in 1 .. L
  <2>1. at[m] \in Nat
    BY <1>0, <1>2
  <2> QED
    BY <1>0, <1>2, <2>1
<1>1. ASSUME NEW i \in 1 .. end + 1
      PROVE  f[i] = IF i >= end THEN <<>>
                    ELSE IF text[i] = "backslash" THEN <<text[i + 1]>> \o f[i + 2]
                    ELSE <<text[i]>> \o f[i + 1]
  <2>1. KeptRec(f, text, end)
    <3> HIDE DEF end, L
    <3> QED
      BY <1>9, KeptExists DEF L
  <2> HIDE DEF f, end
  <2> QED
    BY <2>1 DEF KeptRec
<1> HIDE DEF f
<1> DEFINE U == {d \in Nat : d <= m => /\ f[at[m - d] + 1] = SubSeq(w, (m - d) + 1, m)
                                       /\ at[m - d] <= at[m]}
<1>3. 0 \in U
  <2>1. m - 0 = m /\ end \in 1 .. end + 1 /\ end >= end
    BY <1>0, <1>9
  <2>2. f[end] = <<>>
    <3> HIDE DEF end
    <3> QED
      BY <1>1, <2>1
  <2>3. SubSeq(w, m + 1, m) = <<>>
    BY <1>0
  <2>4. at[m] <= at[m]
    BY <1>9
  <2> QED
    BY <2>1, <2>2, <2>3, <2>4
<1>4. ASSUME NEW d \in U PROVE d + 1 \in U
  <2>1. CASE d + 1 <= m
    <3> DEFINE k == m - d
    <3>1. d \in Nat /\ k \in 1 .. m /\ k \in 0 .. m /\ k - 1 \in 0 .. m /\ m - (d + 1) = k - 1
          /\ d + 1 \in Nat /\ d <= m
      BY <1>0, <2>1
    <3>2. f[at[k] + 1] = SubSeq(w, k + 1, m) /\ at[k] <= at[m]
      BY <3>1
    <3> HIDE DEF k
    <3> DEFINE a == at[k]
               b == at[k - 1]
               rest == SubSeq(w, k + 1, m)
    <3>3. a \in Nat /\ b \in Nat /\ a < end
      <4>1. a \in Nat /\ b \in Nat
        BY <1>0, <1>2, <3>1
      <4> HIDE DEF a, b
      <4> QED
        BY <1>9, <3>2, <4>1 DEF a
    <3>7. SubSeq(w, (k - 1) + 1, m) = <<w[k]>> \o rest
      <4>1. (k - 1) + 1 = k
        BY <1>0, <3>1
      <4>2. SubSeq(w, k, m) = <<w[k]>> \o SubSeq(w, k + 1, m)
        <5> DEFINE x == SubSeq(w, k, m)
                   y == SubSeq(w, k + 1, m)
                   z == <<w[k]>>
        <5>1. /\ x \in Seq(Chars) /\ Len(x) = (m - k) + 1
              /\ \A j \in 1 .. (m - k) + 1 : x[j] = w[(k + j) - 1]
          BY <1>0, <3>1
        <5>2. /\ y \in Seq(Chars) /\ Len(y) = m - k
              /\ \A j \in 1 .. m - k : y[j] = w[k + j]
          BY <1>0, <3>1
        <5>3. z \in Seq(Chars) /\ Len(z) = 1 /\ z[1] = w[k]
          BY <1>0, <3>1
        <5> HIDE DEF x, y, z
        <5>4. /\ z \o y \in Seq(Chars) /\ Len(z \o y) = (m - k) + 1
              /\ (z \o y)[1] = w[k]
              /\ \A j \in 2 .. (m - k) + 1 : (z \o y)[j] = w[(k + j) - 1]
          <6>0. \A u, v \in Seq(Chars) :
                   /\ u \o v \in Seq(Chars) /\ Len(u \o v) = Len(u) + Len(v)
                   /\ \A j \in 1 .. Len(u) : (u \o v)[j] = u[j]
                   /\ \A j \in 1 .. Len(v) : (u \o v)[Len(u) + j] = v[j]
            OBVIOUS
          <6>1. z \o y \in Seq(Chars) /\ Len(z \o y) = Len(z) + Len(y)
            BY <5>2, <5>3, <6>0
          <6>2. (z \o y)[1] = z[1]
            <7>1. 1 \in 1 .. Len(z)
              BY <5>3
            <7> QED
              BY <5>2, <5>3, <6>0, <7>1
          <6>3. ASSUME NEW j \in 2 .. (m - k) + 1 PROVE (z \o y)[j] = w[(k + j) - 1]
            <7>1. j - 1 \in 1 .. Len(y) /\ Len(z) + (j - 1) = j /\ k + (j - 1) = (k + j) - 1
              BY <1>0, <3>1, <5>2, <5>3
            <7>2. (z \o y)[Len(z) + (j - 1)] = y[j - 1]
              BY <5>2, <5>3, <6>0, <7>1
            <7> QED
              BY <5>2, <7>1, <7>2
          <6>4. Len(z) + Len(y) = (m - k) + 1
            BY <1>0, <3>1, <5>2, <5>3
          <6> QED
            BY <5>3, <6>1, <6>2, <6>3, <6>4
        <5>5. ASSUME NEW j \in 1 .. (m - k) + 1 PROVE x[j] = (z \o y)[j]
          <6>1. CASE j = 1
            <7>1. (k + 1) - 1 = k
              BY <1>0, <3>1
            <7> QED
              BY <5>1, <5>4, <6>1, <7>1
          <6>2. CASE j # 1
            <7>1. j \in 2 .. (m - k) + 1
              BY <6>2
            <7> QED
              BY <5>1, <5>4, <7>1
          <6> QED
            BY <6>1, <6>2
        <5>6. \A u, v \in Seq(Chars) :
                 Len(u) = Len(v) /\ (\A j \in 1 .. Len(u) : u[j] = v[j]) => u = v
          OBVIOUS
        <5>7. x = z \o y
          BY <5>1, <5>4, <5>5, <5>6
        <5> QED
          BY <5>7 DEF x, y, z
      <4> QED
        BY <4>1, <4>2
    <3>4. CASE a = b + 1 /\ text[a] = w[k] /\ w[k] \notin {"space", "backslash", "nul"}
      <4> HIDE DEF a, b, end, rest
      <4>1. b + 1 \in 1 .. end + 1 /\ ~(b + 1 >= end) /\ b + 1 = a /\ (b + 1) + 1 = a + 1
            /\ b <= a
        BY <1>9, <3>3, <3>4
      <4>2. text[b + 1] # "backslash"
        BY <3>4, <4>1
      <4>3. f[b + 1] = <<text[b + 1]>> \o f[(b + 1) + 1]
        BY <1>1, <4>1, <4>2
      <4>4. f[b + 1] = <<w[k]>> \o rest
        BY <3>2, <3>4, <4>1, <4>3 DEF a, rest
      <4>5. b <= at[m]
        BY <1>9, <3>2, <3>3, <4>1 DEF a
      <4> QED
        BY <3>1, <3>7, <4>4, <4>5 DEF b
    <3>5. CASE a = b + 2 /\ text[a] = w[k] /\ text[a - 1] = "backslash"
      <4> HIDE DEF a, b, end, rest
      <4>1. b + 1 \in 1 .. end + 1 /\ ~(b + 1 >= end) /\ a - 1 = b + 1 /\ (b + 1) + 2 = a + 1
            /\ (b + 1) + 1 = a /\ b <= a
        BY <1>9, <3>3, <3>5
      <4>2. text[b + 1] = "backslash"
        BY <3>5, <4>1
      <4>3. f[b + 1] = <<text[(b + 1) + 1]>> \o f[(b + 1) + 2]
        BY <1>1, <4>1, <4>2
      <4>4. f[b + 1] = <<w[k]>> \o rest
        BY <3>2, <3>5, <4>1, <4>3 DEF a, rest
      <4>5. b <= at[m]
        BY <1>9, <3>2, <3>3, <4>1 DEF a
      <4> QED
        BY <3>1, <3>7, <4>4, <4>5 DEF b
    <3>6. \/ a = b + 1 /\ text[a] = w[k] /\ w[k] \notin {"space", "backslash", "nul"}
          \/ a = b + 2 /\ text[a] = w[k] /\ text[a - 1] = "backslash"
      BY <3>1 DEF Placed
    <3> QED
      BY <3>4, <3>5, <3>6
  <2>2. CASE ~(d + 1 <= m)
    BY <2>2
  <2> QED
    BY <2>1, <2>2
<1>5. U = Nat
  <2>1. U \in SUBSET Nat
    OBVIOUS
  <2> HIDE DEF U
  <2> QED
    BY <1>3, <1>4, <2>1, NatSet
<1>6. m \in U
  <2> HIDE DEF U
  <2> QED
    BY <1>0, <1>5
<1>7. m - m = 0 /\ at[0] + 1 = 1 /\ 0 + 1 = 1
  BY <1>0, <1>2
<1>8. f[1] = SubSeq(w, 1, m)
  BY <1>0, <1>6, <1>7
<1>10. SubSeq(w, 1, m) = w
  BY <1>0
<1> QED
  BY <1>8, <1>10 DEF f

(* buffer_get_field finds the word at the start of a line, and the rest.   *)
LEMMA FieldFound ==
    ASSUME NEW w, IsWord(w), NEW text, Leads(text, w)
    PROVE  BufferGetField(text) =
              [status |-> 0, field |-> w,
               rest |-> SubSeq(text, Len(BufferAddString(w)) + 1, Len(text))]
<1>1. text \in Seq(Chars)
  BY DEF Leads
<1>2. PICK at : Placed(text, w, at) /\ at[Len(w)] = Len(Joined(Sent(w), Len(w)))
  BY WordPlaces
<1> DEFINE end == at[Len(w)] + 1
<1>3. SkipFcn(text)[1] = end /\ end \in 1 .. Len(text)
  BY <1>1, <1>2, SkipIs
<1>4. KeptFcn(text, end)[1] = w
  BY <1>1, <1>2, KeptIs
<1>5. Len(BufferAddString(w)) = end
  <2>1. Pieces(Chars, Len(w), Sent(w)) /\ Len(w) \in Nat
        /\ BufferAddString(w) = Joined(Sent(w), Len(w)) \o <<"space">>
    BY SentPieces
  <2>2. Joined(Sent(w), Len(w)) \in Seq(Chars)
    BY <2>1, JoinedStarts
  <2> QED
    BY <1>2, <2>1, <2>2
<1> HIDE DEF end
<1>6. ~(end > Len(text))
  BY <1>1, <1>3
<1> QED
  BY <1>3, <1>4, <1>5, <1>6, FieldIs

\* What is left of s behind the first a elements.
From(s, a) == SubSeq(s, a + 1, Len(s))

IsFrom(S, s, a) ==
    /\ From(s, a) \in Seq(S) /\ Len(From(s, a)) = Len(s) - a
    /\ \A j \in 1 .. Len(s) - a : From(s, a)[j] = s[a + j]

(* The elements of what is left.                                           *)
LEMMA FromIs ==
    ASSUME NEW S, NEW s \in Seq(S), NEW a \in 0 .. Len(s)
    PROVE  IsFrom(S, s, a)
<1>1. Len(s) \in Nat /\ a \in Nat /\ a <= Len(s)
  OBVIOUS
<1>2. SubSeq(s, a + 1, Len(s)) \in Seq(S)
  <2>1. \A i \in (a + 1) .. Len(s) : s[i] \in S
    BY <1>1
  <2> QED
    BY <1>1, <2>1
<1>3. Len(SubSeq(s, a + 1, Len(s))) = Len(s) - a
  BY <1>1
<1>4. ASSUME NEW j \in 1 .. Len(s) - a PROVE SubSeq(s, a + 1, Len(s))[j] = s[a + j]
  BY <1>1
<1> QED
  BY <1>2, <1>3, <1>4 DEF IsFrom, From

(* Sequences with the same elements are equal.                             *)
LEMMA SameSeq ==
    ASSUME NEW S, NEW s \in Seq(S), NEW t \in Seq(S), Len(s) = Len(t),
           \A j \in 1 .. Len(s) : s[j] = t[j]
    PROVE  s = t
OBVIOUS

\* v behind u.
IsCat(S, u, v) ==
    /\ u \o v \in Seq(S) /\ Len(u \o v) = Len(u) + Len(v)
    /\ \A j \in 1 .. Len(u) : (u \o v)[j] = u[j]
    /\ \A j \in 1 .. Len(v) : (u \o v)[Len(u) + j] = v[j]

(* The elements of two sequences, one behind the other.                    *)
LEMMA CatIs ==
    ASSUME NEW S, NEW u \in Seq(S), NEW v \in Seq(S)
    PROVE  IsCat(S, u, v)
BY DEF IsCat

(* Taking twice from the start.                                            *)
LEMMA FromFrom ==
    ASSUME NEW S, NEW s \in Seq(S), NEW a \in 0 .. Len(s), NEW b \in 0 .. Len(s) - a
    PROVE  From(From(s, a), b) = From(s, a + b)
<1> DEFINE t == From(s, a)
           u == From(t, b)
           v == From(s, a + b)
<1>1. Len(s) \in Nat /\ a \in Nat /\ b \in Nat /\ a + b \in 0 .. Len(s)
  OBVIOUS
<1>2. IsFrom(S, s, a) /\ IsFrom(S, s, a + b)
  BY <1>1, FromIs
<1>3. t \in Seq(S) /\ Len(t) = Len(s) - a /\ \A j \in 1 .. Len(s) - a : t[j] = s[a + j]
  BY <1>2 DEF IsFrom
<1>4. /\ v \in Seq(S) /\ Len(v) = Len(s) - (a + b)
      /\ \A j \in 1 .. Len(s) - (a + b) : v[j] = s[(a + b) + j]
  BY <1>2 DEF IsFrom
<1> HIDE DEF t, v
<1>5. b \in 0 .. Len(t)
  BY <1>3
<1>6. IsFrom(S, t, b)
  BY <1>3, <1>5, FromIs
<1>7. u \in Seq(S) /\ Len(u) = Len(t) - b /\ \A j \in 1 .. Len(t) - b : u[j] = t[b + j]
  BY <1>6 DEF IsFrom
<1> HIDE DEF u
<1>8. Len(u) = Len(v)
  BY <1>1, <1>3, <1>4, <1>7
<1>9. ASSUME NEW j \in 1 .. Len(u) PROVE u[j] = v[j]
  <2>1. j \in 1 .. Len(t) - b /\ j \in 1 .. Len(s) - (a + b) /\ b + j \in 1 .. Len(s) - a
        /\ a + (b + j) = (a + b) + j
    BY <1>1, <1>3, <1>4, <1>7
  <2> QED
    BY <1>3, <1>4, <1>7, <2>1
<1>10. u = v
  BY <1>4, <1>7, <1>8, <1>9, SameSeq
<1> QED
  BY <1>10 DEF t, u, v

-----------------------------------------------------------------------------
(* The words of a request                                                  *)

\* The words with a space behind each, and the line they are sent on.
Framed(ws) == [i \in DOMAIN ws |-> BufferAddString(ws[i])]
Place(ws, k) == Len(Joined(Framed(ws), k))
Wire(ws) == Front(Joined(Framed(ws), Len(ws))) \o <<"nul">>

AreWords(ws) ==
    /\ Len(ws) \in Nat \ {0} /\ ws \in Seq(Seq(Chars))
    /\ \A i \in 1 .. Len(ws) : IsWord(ws[i])

(* The pieces of a line.                                                   *)
LEMMA FramedPieces ==
    ASSUME NEW ws, AreWords(ws)
    PROVE  /\ Pieces(Chars, Len(ws), Framed(ws)) /\ Joined(Framed(ws), 0) = <<>>
           /\ Joined(Framed(ws), Len(ws)) = FlattenSeq([i \in DOMAIN ws |-> BufferAddString(ws[i])])
<1>1. Len(ws) \in Nat /\ DOMAIN ws = 1 .. Len(ws)
  BY DEF AreWords
<1>2. ASSUME NEW i \in 1 .. Len(ws) PROVE BufferAddString(ws[i]) \in Seq(Chars)
  <2> DEFINE w == ws[i]
  <2>1. IsWord(w)
    BY DEF AreWords
  <2> HIDE DEF w
  <2>2. Pieces(Chars, Len(w), Sent(w)) /\ Len(w) \in Nat
        /\ BufferAddString(w) = Joined(Sent(w), Len(w)) \o <<"space">>
    BY <2>1, SentPieces
  <2>3. Joined(Sent(w), Len(w)) \in Seq(Chars)
    BY <2>2, JoinedStarts
  <2>4. <<"space">> \in Seq(Chars)
    BY DEF Chars
  <2>5. \A a, b \in Seq(Chars) : a \o b \in Seq(Chars)
    OBVIOUS
  <2> QED
    BY <2>2, <2>3, <2>4, <2>5 DEF w
<1>3. Framed(ws) \in [1 .. Len(ws) -> Seq(Chars)]
  BY <1>1, <1>2 DEF Framed
<1>4. Pieces(Chars, Len(ws), Framed(ws))
  BY <1>1, <1>3 DEF Pieces
<1>5. [i \in 1 .. Len(ws) |-> Framed(ws)[i]] = [i \in DOMAIN ws |-> BufferAddString(ws[i])]
  BY <1>1 DEF Framed
<1>6. Joined(Framed(ws), Len(ws)) = FlattenSeq([i \in DOMAIN ws |-> BufferAddString(ws[i])])
  BY <1>5 DEF Joined
<1>7. Joined(Framed(ws), 0) = <<>>
  BY <1>1, <1>3, JoinedIs
<1> QED
  BY <1>4, <1>6, <1>7

\* The k-th word begins behind place k - 1 and its separator is at place k.
WordAt(ws, k) ==
    LET w == ws[k]
        x == Len(Joined(Sent(w), Len(w)))
    IN  /\ x \in Nat /\ Place(ws, k - 1) \in Nat /\ Len(BufferAddString(w)) = x + 1
        /\ Place(ws, k) = Place(ws, k - 1) + (x + 1)
        /\ Place(ws, k) <= Place(ws, Len(ws))
        /\ \A j \in 1 .. x : Wire(ws)[Place(ws, k - 1) + j] = Joined(Sent(w), Len(w))[j]
        /\ Wire(ws)[Place(ws, k)] \in {"space", "nul"}

(* The line is the joined words with the last space replaced.              *)
LEMMA WireIs ==
    ASSUME NEW ws, AreWords(ws), NEW k \in 1 .. Len(ws)
    PROVE  WordAt(ws, k) /\ Wire(ws) \in Seq(Chars) /\ Len(Wire(ws)) = Place(ws, Len(ws))
<1> DEFINE n == Len(ws)
           g == Framed(ws)
           w == ws[k]
           E == Joined(Sent(w), Len(w))
           x == Len(E)
           J == Joined(g, n)
           W == Wire(ws)
<1>1. Pieces(Chars, n, g) /\ n \in Nat /\ n \in 1 .. n /\ n \in 0 .. n
  <2>1. Pieces(Chars, n, g)
    BY FramedPieces
  <2>2. n \in Nat \ {0}
    BY DEF AreWords
  <2> HIDE DEF g, n
  <2> QED
    BY <2>1, <2>2
<1>2. IsWord(w)
  BY DEF AreWords
<1>3. Pieces(Chars, Len(w), Sent(w)) /\ Len(w) \in Nat
      /\ BufferAddString(w) = E \o <<"space">>
  <2> HIDE DEF w
  <2> QED
    BY <1>2, SentPieces
<1>4. E \in Seq(Chars) /\ x \in Nat
  <2> HIDE DEF w
  <2>1. E \in Seq(Chars)
    BY <1>3, JoinedStarts
  <2> QED
    BY <2>1
<1>5. PieceAt(g, k, n)
  <2>1. k \in 1 .. n
    OBVIOUS
  <2> HIDE DEF g, n
  <2> QED
    BY <1>1, <2>1, JoinedPiece
<1>6. g[k] = E \o <<"space">>
  <2>1. k \in DOMAIN ws
    BY DEF AreWords
  <2>2. g[k] = BufferAddString(w)
    BY <2>1 DEF Framed
  <2> HIDE DEF g, w, E
  <2> QED
    BY <1>3, <2>2
<1> HIDE DEF E
<1>7. /\ Len(E \o <<"space">>) = x + 1
      /\ \A j \in 1 .. x : (E \o <<"space">>)[j] = E[j]
      /\ (E \o <<"space">>)[x + 1] = "space"
  BY <1>4
<1> DEFINE p == Place(ws, k - 1)
           q == Place(ws, k)
           z == Place(ws, n)
<1>8. /\ p \in Nat /\ z \in Nat /\ q = p + (x + 1) /\ q <= z
      /\ \A j \in 1 .. x + 1 : J[p + j] = g[k][j]
  <2> HIDE DEF g, n
  <2> QED
    BY <1>5, <1>6, <1>7 DEF PieceAt, Place, g
<1>9. J \in Seq(Chars) /\ Len(J) = z
  <2>1. J \in Seq(Chars)
    <3> HIDE DEF g, n
    <3> QED
      BY <1>1, JoinedStarts
  <2> QED
    BY <2>1 DEF Place
<1> HIDE DEF J
<1>10. z \in Nat /\ z >= 1
  BY <1>4, <1>8
<1>11. /\ W \in Seq(Chars) /\ Len(W) = z
       /\ \A j \in 1 .. z - 1 : W[j] = J[j]
       /\ W[z] = "nul"
  <2>1. W = SubSeq(J, 1, Len(J) - 1) \o <<"nul">>
    BY DEF Wire, Front, J
  <2> HIDE DEF W, z
  <2> DEFINE F == SubSeq(J, 1, Len(J) - 1)
             N == <<"nul">>
  <2>2. F \in Seq(Chars) /\ Len(F) = z - 1 /\ \A j \in 1 .. z - 1 : F[j] = J[j]
    BY <1>9, <1>10
  <2>3. N \in Seq(Chars) /\ Len(N) = 1 /\ N[1] = "nul"
    BY DEF Chars
  <2> HIDE DEF F, N
  <2>4. IsCat(Chars, F, N)
    BY <2>2, <2>3, CatIs
  <2>5. W = F \o N
    BY <2>1 DEF F, N
  <2>6. W \in Seq(Chars) /\ Len(W) = (z - 1) + 1
    BY <2>2, <2>3, <2>4, <2>5 DEF IsCat
  <2>7. ASSUME NEW j \in 1 .. z - 1 PROVE W[j] = J[j]
    <3>1. j \in 1 .. Len(F)
      BY <2>2
    <3>2. (F \o N)[j] = F[j]
      BY <2>2, <2>3, <2>4, <3>1 DEF IsCat
    <3> QED
      BY <2>2, <2>5, <3>2
  <2>8. W[(z - 1) + 1] = "nul"
    <3>1. 1 \in 1 .. Len(N)
      BY <2>3
    <3>2. (F \o N)[Len(F) + 1] = N[1]
      BY <2>2, <2>3, <2>4, <3>1 DEF IsCat
    <3> QED
      BY <2>2, <2>3, <2>5, <3>2
  <2>9. (z - 1) + 1 = z
    BY <1>10
  <2> QED
    BY <2>6, <2>7, <2>8, <2>9
<1> HIDE DEF W, p, q, z
<1>12. ASSUME NEW j \in 1 .. x PROVE W[p + j] = E[j]
  <2>1. p + j \in 1 .. z - 1 /\ j \in 1 .. x + 1
    BY <1>4, <1>8
  <2> QED
    BY <1>6, <1>7, <1>8, <1>11, <2>1
<1>13. W[q] \in {"space", "nul"}
  <2>1. CASE q = z
    BY <1>11, <2>1
  <2>2. CASE q # z
    <3>1. q \in 1 .. z - 1 /\ x + 1 \in 1 .. x + 1
      BY <1>4, <1>8, <2>2
    <3>2. W[q] = J[p + (x + 1)]
      BY <1>8, <1>11, <3>1
    <3> QED
      BY <1>6, <1>7, <1>8, <3>1, <3>2
  <2> QED
    BY <2>1, <2>2
<1>14. Len(BufferAddString(w)) = x + 1
  BY <1>3, <1>7
<1>15. WordAt(ws, k)
  <2> HIDE DEF x
  <2> QED
    BY <1>4, <1>8, <1>12, <1>13, <1>14 DEF WordAt, W, p, q, z, E, x
<1> QED
  BY <1>11, <1>15 DEF W, z

\* k words have been taken off the line.
Taken(l, k) ==
    /\ k \in 0 .. Len(l.words)
    /\ l.fields = SubSeq(l.words, 1, k) /\ l.text = From(Wire(l.words), Place(l.words, k))

\* The line is not put together yet, or some words have been taken off it.
WordsSound(l) ==
    /\ AreWords(l.words) /\ l = [words |-> l.words, text |-> l.text, fields |-> l.fields]
    /\ \/ l.text = <<>> /\ l.fields = <<>>
       \/ \E k \in 0 .. Len(l.words) : Taken(l, k)

WordsInv ==
    /\ mode = "words" => WordsSound(line)
    /\ mode # "words" => line = [words |-> <<>>, text |-> <<>>, fields |-> <<>>]

(* How much is left of a line.                                             *)
LEMMA TakenLeft ==
    ASSUME NEW l, AreWords(l.words), NEW k, Taken(l, k)
    PROVE  /\ Len(l.words) \in Nat /\ l.words \in Seq(Seq(Chars)) /\ l.words # <<>>
           /\ Place(l.words, k) \in 0 .. Len(Wire(l.words))
           /\ Wire(l.words) \in Seq(Chars) /\ IsFrom(Chars, Wire(l.words), Place(l.words, k))
           /\ k < Len(l.words) => l.text # <<>>
           /\ k = Len(l.words) => l.text = <<>> /\ l.fields = l.words
<1> DEFINE ws == l.words
           n == Len(ws)
<1>1. n \in Nat \ {0} /\ ws \in Seq(Seq(Chars)) /\ k \in 0 .. n
  BY DEF AreWords, Taken
<1>2. ws # <<>>
  BY <1>1
<1>3. n \in 1 .. n
  BY <1>1
<1>4. WordAt(ws, n) /\ Wire(ws) \in Seq(Chars) /\ Len(Wire(ws)) = Place(ws, n)
  <2> HIDE DEF n
  <2> QED
    BY <1>3, WireIs DEF n
<1>5. Pieces(Chars, n, Framed(ws))
  BY FramedPieces
<1>6. Place(ws, k) \in Nat /\ Place(ws, k) <= Place(ws, n)
  <2> HIDE DEF n
  <2>1. Joined(Framed(ws), k) \in Seq(Chars) /\ Starts(Framed(ws), k, n)
    BY <1>1, <1>5, JoinedStarts
  <2> QED
    BY <2>1 DEF Starts, Place
<1>7. Place(ws, n) \in Nat
  BY <1>4 DEF WordAt
<1>8. Place(ws, k) \in 0 .. Len(Wire(ws))
  BY <1>4, <1>6, <1>7
<1>9. IsFrom(Chars, Wire(ws), Place(ws, k))
  BY <1>4, <1>8, FromIs
<1>10. ASSUME k < n PROVE l.text # <<>>
  <2>1. k + 1 \in 1 .. n /\ (k + 1) - 1 = k
    BY <1>1, <1>10
  <2>2. WordAt(ws, k + 1)
    BY <2>1, WireIs
  <2>3. Place(ws, k) < Place(ws, n)
    BY <1>6, <1>7, <2>1, <2>2 DEF WordAt
  <2>4. Len(From(Wire(ws), Place(ws, k))) = Place(ws, n) - Place(ws, k)
    BY <1>4, <1>9 DEF IsFrom
  <2>5. Len(l.text) > 0
    BY <1>6, <1>7, <2>3, <2>4 DEF Taken
  <2> QED
    BY <2>5
<1>11. ASSUME k = n PROVE l.text = <<>> /\ l.fields = ws
  <2>1. /\ From(Wire(ws), Place(ws, k)) \in Seq(Chars)
        /\ Len(From(Wire(ws), Place(ws, k))) = 0
    BY <1>4, <1>7, <1>9, <1>11 DEF IsFrom
  <2>2. From(Wire(ws), Place(ws, k)) = <<>>
    BY <2>1
  <2>3. SubSeq(ws, 1, n) = ws
    BY <1>1
  <2> QED
    BY <1>11, <2>2, <2>3 DEF Taken
<1> QED
  BY <1>1, <1>2, <1>4, <1>8, <1>9, <1>10, <1>11

(* rrdc_update puts the words on the line.                                 *)
LEMMA EncodeKeeps == WordsSound(line) /\ Encode => WordsSound(line)'
<1> SUFFICES ASSUME WordsSound(line), Encode PROVE WordsSound(line)'
  OBVIOUS
<1> DEFINE ws == line.words
           new == [line EXCEPT !.text = Wire(ws)]
<1>1. AreWords(ws) /\ line = [words |-> ws, text |-> line.text, fields |-> line.fields]
      /\ line.fields = <<>>
  BY DEF WordsSound, Encode
<1>2. line' = new
  <2>1. Joined(Framed(ws), Len(ws)) = FlattenSeq([i \in DOMAIN ws |-> BufferAddString(ws[i])])
    BY <1>1, FramedPieces
  <2> QED
    BY <2>1 DEF Encode, Wire
<1>3. new.words = ws /\ new.text = Wire(ws) /\ new.fields = <<>>
      /\ new = [words |-> new.words, text |-> new.text, fields |-> new.fields]
  BY <1>1
<1> HIDE DEF new
<1>4. Taken(new, 0)
  <2>1. Len(ws) \in Nat \ {0} /\ ws \in Seq(Seq(Chars))
    BY <1>1 DEF AreWords
  <2>2. Place(ws, 0) = 0
    <3>1. Joined(Framed(ws), 0) = <<>>
      BY <1>1, FramedPieces
    <3> QED
      BY <3>1 DEF Place
  <2>3. 1 \in 1 .. Len(ws)
    BY <2>1
  <2>4. Wire(ws) \in Seq(Chars)
    BY <1>1, <2>3, WireIs
  <2>5. From(Wire(ws), 0) = Wire(ws)
    BY <2>4 DEF From
  <2>6. SubSeq(ws, 1, 0) = <<>>
    BY <2>1
  <2> QED
    BY <1>3, <2>1, <2>2, <2>5, <2>6 DEF Taken
<1>5. 0 \in 0 .. Len(new.words)
  BY <1>4 DEF Taken
<1>6. WordsSound(new)
  BY <1>1, <1>3, <1>4, <1>5 DEF WordsSound
<1> QED
  BY <1>2, <1>6

(* What is left of the line starts with the next word.                     *)
LEMMA NextLeads ==
    ASSUME NEW l, AreWords(l.words), NEW k, Taken(l, k), k < Len(l.words)
    PROVE  /\ Leads(l.text, l.words[k + 1]) /\ IsWord(l.words[k + 1])
           /\ From(l.text, Len(BufferAddString(l.words[k + 1])))
                 = From(Wire(l.words), Place(l.words, k + 1))
<1> DEFINE ws == l.words
           n == Len(ws)
           w == ws[k + 1]
           E == Joined(Sent(w), Len(w))
           x == Len(E)
           p == Place(ws, k)
           W == Wire(ws)
<1>1. /\ n \in Nat /\ p \in 0 .. Len(W) /\ W \in Seq(Chars) /\ IsFrom(Chars, W, p)
      /\ k \in 0 .. n /\ l.text = From(W, p)
  BY TakenLeft DEF Taken
<1>2. k + 1 \in 1 .. n /\ (k + 1) - 1 = k
  BY <1>1
<1>3. WordAt(ws, k + 1) /\ Len(W) = Place(ws, n)
  <2> HIDE DEF n
  <2> QED
    BY <1>2, WireIs DEF n
<1>4. /\ x \in Nat /\ p \in Nat /\ Len(BufferAddString(w)) = x + 1
      /\ Place(ws, k + 1) = p + (x + 1) /\ p + (x + 1) <= Len(W)
      /\ \A j \in 1 .. x : W[p + j] = E[j]
      /\ W[p + (x + 1)] \in {"space", "nul"}
  <2> HIDE DEF n
  <2> QED
    BY <1>2, <1>3 DEF WordAt, n
<1>5. IsWord(w)
  BY <1>2 DEF AreWords
<1> DEFINE t == From(W, p)
<1>6. t \in Seq(Chars) /\ Len(t) = Len(W) - p /\ \A j \in 1 .. Len(W) - p : t[j] = W[p + j]
  BY <1>1 DEF IsFrom
<1>7. Leads(t, w)
  <2> HIDE DEF t, W, p, x, E
  <2>1. x < Len(t) /\ x + 1 \in 1 .. Len(W) - p /\ \A j \in 1 .. x : j \in 1 .. Len(W) - p
    BY <1>1, <1>4, <1>6
  <2>2. \A j \in 1 .. x : t[j] = E[j]
    BY <1>4, <1>6, <2>1
  <2>3. t[x + 1] \in {"space", "nul"}
    BY <1>4, <1>6, <2>1
  <2> QED
    BY <1>6, <2>1, <2>2, <2>3 DEF Leads, E, x
<1>8. From(t, x + 1) = From(W, p + (x + 1))
  <2> HIDE DEF W, p, x
  <2>1. x + 1 \in 0 .. Len(W) - p
    BY <1>1, <1>4
  <2> QED
    BY <1>1, <2>1, FromFrom
<1> QED
  BY <1>1, <1>4, <1>5, <1>7, <1>8

(* One element more of a sequence.                                         *)
LEMMA AppendNext ==
    ASSUME NEW S, NEW v \in Seq(S), NEW j \in Nat, j + 1 \in 1 .. Len(v)
    PROVE  Append(SubSeq(v, 1, j), v[j + 1]) = SubSeq(v, 1, j + 1)
<1> DEFINE a == SubSeq(v, 1, j)
           b == SubSeq(v, 1, j + 1)
<1>1. a \in Seq(S) /\ Len(a) = j /\ \A i \in 1 .. j : a[i] = v[i]
  OBVIOUS
<1>2. b \in Seq(S) /\ Len(b) = j + 1 /\ \A i \in 1 .. j + 1 : b[i] = v[i]
  OBVIOUS
<1>3. v[j + 1] \in S
  OBVIOUS
<1> HIDE DEF a, b
<1>4. Append(a, v[j + 1]) \in Seq(S) /\ Len(Append(a, v[j + 1])) = j + 1
  BY <1>1, <1>3
<1>5. ASSUME NEW i \in 1 .. j + 1 PROVE Append(a, v[j + 1])[i] = b[i]
  BY <1>1, <1>2, <1>3
<1>6. Append(a, v[j + 1]) = b
  BY <1>2, <1>4, <1>5, SameSeq
<1> QED
  BY <1>6 DEF a, b

(* handle_request takes a word off the line.                               *)
LEMMA DecodeKeeps == WordsSound(line) /\ Decode => WordsSound(line)'
<1> SUFFICES ASSUME WordsSound(line), Decode PROVE WordsSound(line)'
  OBVIOUS
<1> DEFINE ws == line.words
           n == Len(ws)
<1>1. AreWords(ws) /\ line = [words |-> ws, text |-> line.text, fields |-> line.fields]
  BY DEF WordsSound
<1>2. line.text # <<>>
  BY DEF Decode
<1>3. PICK k \in 0 .. n : Taken(line, k)
  BY <1>2 DEF WordsSound
<1>4. n \in Nat /\ ws \in Seq(Seq(Chars)) /\ k < n
  <2>1. n \in Nat /\ ws \in Seq(Seq(Chars)) /\ (k = n => line.text = <<>>)
    BY <1>1, <1>3, TakenLeft
  <2> QED
    BY <1>2, <1>3, <2>1
<1> DEFINE w == ws[k + 1]
           rest == From(Wire(ws), Place(ws, k + 1))
<1>5. Leads(line.text, w) /\ IsWord(w)
      /\ From(line.text, Len(BufferAddString(w))) = rest
  BY <1>1, <1>3, <1>4, NextLeads
<1>6. BufferGetField(line.text) = [status |-> 0, field |-> w, rest |-> rest]
  <2> HIDE DEF w, rest
  <2>1. BufferGetField(line.text) =
           [status |-> 0, field |-> w,
            rest |-> SubSeq(line.text, Len(BufferAddString(w)) + 1, Len(line.text))]
    BY <1>5, FieldFound
  <2> QED
    BY <1>5, <2>1 DEF From
<1> DEFINE new == [line EXCEPT !.fields = Append(line.fields, w), !.text = rest]
<1>7. line' = new
  <2> HIDE DEF w, rest
  <2> QED
    BY <1>6 DEF Decode
<1>8. new.words = ws /\ new.text = rest /\ new.fields = Append(line.fields, w)
      /\ new = [words |-> new.words, text |-> new.text, fields |-> new.fields]
  <2>1. ASSUME NEW a, NEW b, NEW c, NEW d, NEW e
        PROVE  [[words |-> a, text |-> b, fields |-> c] EXCEPT !.fields = d, !.text = e]
                  = [words |-> a, text |-> e, fields |-> d]
    <3> DEFINE x == [words |-> a, text |-> b, fields |-> c]
               y == [x EXCEPT !.fields = d]
    <3>1. y = [words |-> a, text |-> b, fields |-> d]
      OBVIOUS
    <3>2. [x EXCEPT !.fields = d, !.text = e] = [y EXCEPT !.text = e]
      OBVIOUS
    <3> HIDE DEF x, y
    <3>3. [y EXCEPT !.text = e] = [words |-> a, text |-> e, fields |-> d]
      BY <3>1
    <3> QED
      BY <3>2, <3>3 DEF x
  <2> HIDE DEF w, rest
  <2>2. new = [words |-> ws, text |-> rest, fields |-> Append(line.fields, w)]
    <3> DEFINE b == line.text
               c == line.fields
               d == Append(line.fields, w)
    <3>1. line = [words |-> ws, text |-> b, fields |-> c]
      BY <1>1
    <3>2. new = [line EXCEPT !.fields = d, !.text = rest]
      OBVIOUS
    <3> HIDE DEF ws, b, c, d, new
    <3>3. new = [[words |-> ws, text |-> b, fields |-> c] EXCEPT !.fields = d, !.text = rest]
      BY <3>1, <3>2, Zenon
    <3>4. new = [words |-> ws, text |-> rest, fields |-> d]
      BY <2>1, <3>3
    <3> QED
      BY <3>4 DEF d
  <2> HIDE DEF new
  <2> QED
    BY <2>2
<1> HIDE DEF new
<1>9. Append(SubSeq(ws, 1, k), w) = SubSeq(ws, 1, k + 1)
  <2>1. k \in Nat /\ k + 1 \in 1 .. Len(ws)
    BY <1>4
  <2> HIDE DEF n, ws
  <2> QED
    BY <1>4, <2>1, AppendNext
<1>10. k + 1 \in 0 .. n
  BY <1>4
<1>11. Taken(new, k + 1)
  BY <1>3, <1>8, <1>9, <1>10 DEF Taken
<1>12. WordsSound(new)
  BY <1>1, <1>8, <1>10, <1>11 DEF WordsSound
<1> QED
  BY <1>7, <1>12

(* The words of a request are words of C.                                  *)
LEMMA WordsInit == Init => WordsInv
<1> SUFFICES ASSUME Init PROVE WordsInv
  OBVIOUS
<1>1. CASE mode # "words"
  BY <1>1 DEF Init, WordsInv
<1>2. CASE mode = "words"
  <2>1. /\ line.words \in SeqOf(Words, 2) \ {<<>>} /\ line.text = <<>> /\ line.fields = <<>>
        /\ line = [words |-> line.words, text |-> line.text, fields |-> line.fields]
    BY <1>2 DEF Init
  <2> DEFINE ws == line.words
  <2>2. PICK m \in 0 .. 2 : ws \in [1 .. m -> Words]
    BY <2>1 DEF SeqOf
  <2>3. ASSUME NEW w \in Words PROVE IsWord(w) /\ w \in Seq(Chars)
    <3>1. w \in Seq(STRING) /\ \A i \in DOMAIN w : w[i] # "nul"
      BY ClientAssumption
    <3>2. w \in Seq(Chars)
      <4>1. Len(w) \in Nat /\ w = [i \in 1 .. Len(w) |-> w[i]]
            /\ \A i \in 1 .. Len(w) : w[i] \in Chars
        BY <3>1 DEF Chars
      <4> QED
        BY <4>1
    <3> QED
      BY <3>1, <3>2 DEF IsWord
  <2>4. ws \in Seq(Words) /\ Len(ws) = m
    BY <2>2
  <2>5. m # 0
    BY <2>1, <2>4
  <2>6. ws \in Seq(Seq(Chars))
    BY <2>3, <2>4
  <2>7. \A i \in 1 .. Len(ws) : IsWord(ws[i])
    BY <2>2, <2>3, <2>4
  <2>8. AreWords(ws)
    BY <2>4, <2>5, <2>6, <2>7 DEF AreWords
  <2> QED
    BY <1>2, <2>1, <2>8 DEF WordsInv, WordsSound
<1> QED
  BY <1>1, <1>2

(* Every step keeps what is on the line.                                   *)
LEMMA WordsNext == WordsInv /\ [Next]_vars => WordsInv'
<1> SUFFICES ASSUME WordsInv, [Next]_vars PROVE WordsInv'
  OBVIOUS
<1>1. CASE line' = line /\ mode' = mode
  BY <1>1 DEF WordsInv
<1>2. CASE mode = "words" /\ mode' = mode /\ (Encode \/ Decode)
  <2>1. WordsSound(line)
    BY <1>2 DEF WordsInv
  <2>2. WordsSound(line)'
    BY <1>2, <2>1, EncodeKeeps, DecodeKeeps
  <2> QED
    BY <1>2, <2>2 DEF WordsInv
<1> QED
  BY <1>1, <1>2 DEF Next, vars

(* From the lines to the fields.                                           *)
LEMMA InvWords == WordsInv => WordsKept
<1> SUFFICES ASSUME WordsInv PROVE WordsKept
  OBVIOUS
<1>1. CASE mode # "words"
  <2>1. line.fields = <<>> /\ line.words = <<>>
    BY <1>1 DEF WordsInv
  <2> QED
    BY <2>1 DEF WordsKept, IsPrefix
<1>2. CASE mode = "words"
  <2> DEFINE ws == line.words
  <2>1. AreWords(ws) /\ ws \in Seq(Seq(Chars)) /\ Len(ws) \in Nat
    BY <1>2 DEF WordsInv, WordsSound, AreWords
  <2>2. CASE line.fields = <<>>
    <3>1. IsPrefix(<<>>, ws)
      <4>1. Len(<<>>) = 0 /\ SubSeq(<<>>, 1, 0) = <<>>
        OBVIOUS
      <4>2. SubSeq(ws, 1, 0) = <<>>
        BY <2>1
      <4> QED
        BY <2>1, <4>1, <4>2 DEF IsPrefix
    <3> QED
      BY <2>2, <3>1 DEF WordsKept
  <2>3. CASE \E k \in 0 .. Len(ws) : Taken(line, k)
    <3>1. PICK k \in 0 .. Len(ws) : Taken(line, k)
      BY <2>3
    <3>2. line.fields = SubSeq(ws, 1, k)
      BY <3>1 DEF Taken
    <3>3. IsPrefix(SubSeq(ws, 1, k), ws)
      <4>1. \A v \in Seq(Seq(Chars)) : \A j \in 0 .. Len(v) :
               /\ Len(SubSeq(v, 1, j)) = j
               /\ SubSeq(SubSeq(v, 1, j), 1, j) = SubSeq(v, 1, j)
        OBVIOUS
      <4>2. Len(SubSeq(ws, 1, k)) = k /\ SubSeq(SubSeq(ws, 1, k), 1, k) = SubSeq(ws, 1, k)
        BY <2>1, <4>1
      <4>3. k <= Len(ws)
        BY <2>1
      <4> QED
        BY <4>2, <4>3 DEF IsPrefix
    <3>4. line.text = <<>> => line.fields = ws
      <4>1. k < Len(ws) => line.text # <<>>
        BY <2>1, <3>1, TakenLeft
      <4>2. k = Len(ws) => line.fields = ws
        BY <2>1, <3>1, TakenLeft
      <4> QED
        BY <2>1, <4>1, <4>2
    <3> QED
      BY <3>2, <3>3, <3>4 DEF WordsKept
  <2> QED
    BY <1>2, <2>2, <2>3 DEF WordsInv, WordsSound
<1> QED
  BY <1>1, <1>2

(* The fields the daemon takes off a line are the words the client put on  *)
(* it, whatever spaces and backslashes they hold, for words of any length  *)
(* (buffer_add_string and buffer_get_field).                               *)
THEOREM ClientWordsKept == Spec => []WordsKept
<1>1. Init => WordsInv
  BY WordsInit
<1>2. WordsInv /\ [Next]_vars => WordsInv'
  BY WordsNext
<1>3. WordsInv => WordsKept
  BY InvWords
<1> QED
  BY <1>1, <1>2, <1>3, PTL DEF Spec

-----------------------------------------------------------------------------
(* The answers to a script                                                 *)

Texts == [kind : {"status", "info", "error"}, id : Nat, num : Int]
Replies == [id : Nat, kind : {"status"}, status : Int, lines : Seq(Texts)]

\* The status line counts the lines behind it, or says that there are none.
IsReply(a) ==
    /\ a \in Replies
    /\ a.status = Len(a.lines) \/ (a.status = -1 /\ a.lines = <<>>)

\* An answer as it is written to the socket, and a sequence of them.
Block(a) == <<Line(a.kind, a.id, a.status)>> \o a.lines
Blocks(A) == [i \in DOMAIN A |-> Block(A[i])]
Mark(A, r) == Len(Joined(Blocks(A), r))
Text(A) == Joined(Blocks(A), Len(A))

AreReplies(A) == A \in Seq(Replies) /\ \A i \in 1 .. Len(A) : IsReply(A[i])

\* Of the answers A the script has read those in reps, and out holds the others.
Answers(A, reps, out) ==
    /\ AreReplies(A) /\ Len(reps) \in 0 .. Len(A) /\ reps = SubSeq(A, 1, Len(reps))
    /\ out = From(Text(A), Mark(A, Len(reps)))

IsBlock(a) ==
    /\ Block(a) \in Seq(Texts) /\ a.lines \in Seq(Texts) /\ Len(a.lines) \in Nat
    /\ Len(Block(a)) = Len(a.lines) + 1 /\ Block(a)[1] = Line("status", a.id, a.status)
    /\ \A j \in 1 .. Len(a.lines) : Block(a)[j + 1] = a.lines[j]
    /\ a.status \in Int
    /\ (IF a.status > 0 THEN a.status ELSE 0) = Len(a.lines)
    /\ a = [id |-> a.id, kind |-> "status", status |-> a.status, lines |-> a.lines]

(* A status line and the lines behind it.                                  *)
LEMMA BlockIs ==
    ASSUME NEW a, IsReply(a)
    PROVE  IsBlock(a)
<1>1. a \in Replies /\ a.id \in Nat /\ a.kind = "status" /\ a.status \in Int
      /\ a.lines \in Seq(Texts)
  BY DEF IsReply, Replies
<1>2. a = [id |-> a.id, kind |-> "status", status |-> a.status, lines |-> a.lines]
  BY <1>1 DEF Replies
<1> DEFINE l == Line("status", a.id, a.status)
           u == <<l>>
           v == a.lines
<1>3. l \in Texts
  BY <1>1 DEF Texts, Line
<1> HIDE DEF l
<1>4. u \in Seq(Texts) /\ Len(u) = 1 /\ u[1] = l
  BY <1>3
<1>5. Block(a) = u \o v
  BY <1>1 DEF Block, l
<1>6. v \in Seq(Texts) /\ Len(v) \in Nat
  BY <1>1
<1>7. (IF a.status > 0 THEN a.status ELSE 0) = Len(v)
  <2>1. CASE a.status = Len(v)
    BY <1>6, <2>1
  <2>2. CASE a.status = -1 /\ v = <<>>
    BY <2>2
  <2> QED
    BY <2>1, <2>2 DEF IsReply
<1> HIDE DEF u, v
<1>8. IsCat(Texts, u, v)
  BY <1>4, <1>6, CatIs
<1>9. Block(a) \in Seq(Texts) /\ Len(Block(a)) = Len(v) + 1
  BY <1>4, <1>5, <1>6, <1>8 DEF IsCat
<1>10. Block(a)[1] = l
  <2>1. 1 \in 1 .. Len(u)
    BY <1>4
  <2> QED
    BY <1>4, <1>5, <1>8, <2>1 DEF IsCat
<1>11. ASSUME NEW j \in 1 .. Len(v) PROVE Block(a)[j + 1] = v[j]
  <2>1. (u \o v)[Len(u) + j] = v[j] /\ Len(u) + j = j + 1
    BY <1>4, <1>6, <1>8 DEF IsCat
  <2> QED
    BY <1>5, <2>1
<1> QED
  BY <1>1, <1>2, <1>6, <1>7, <1>9, <1>10, <1>11 DEF IsBlock, v, l

(* The pieces of what is written to the socket.                            *)
LEMMA BlocksPieces ==
    ASSUME NEW A, AreReplies(A)
    PROVE  /\ Pieces(Texts, Len(A), Blocks(A)) /\ Len(A) \in Nat /\ A \in Seq(Replies)
           /\ Text(A) \in Seq(Texts) /\ Len(Text(A)) = Mark(A, Len(A))
           /\ Joined(Blocks(A), 0) = <<>>
<1>1. A \in Seq(Replies) /\ Len(A) \in Nat /\ DOMAIN A = 1 .. Len(A)
  BY DEF AreReplies
<1>2. ASSUME NEW i \in 1 .. Len(A) PROVE Block(A[i]) \in Seq(Texts)
  <2> DEFINE a == A[i]
  <2>1. IsReply(a)
    BY DEF AreReplies
  <2> HIDE DEF a
  <2>2. IsBlock(a)
    BY <2>1, BlockIs
  <2> QED
    BY <2>2 DEF IsBlock, a
<1>3. Blocks(A) \in [1 .. Len(A) -> Seq(Texts)]
  BY <1>1, <1>2 DEF Blocks
<1>4. Pieces(Texts, Len(A), Blocks(A))
  BY <1>1, <1>3 DEF Pieces
<1>5. Joined(Blocks(A), 0) = <<>>
  BY <1>1, <1>3, JoinedIs
<1>6. Len(A) \in 0 .. Len(A)
  BY <1>1
<1>7. Text(A) \in Seq(Texts)
  BY <1>4, <1>6, JoinedStarts DEF Text
<1> QED
  BY <1>1, <1>4, <1>5, <1>7 DEF Text, Mark

(* How far the marks reach.                                                *)
LEMMA MarkIs ==
    ASSUME NEW A, AreReplies(A), NEW r \in 0 .. Len(A)
    PROVE  Mark(A, r) \in 0 .. Len(Text(A))
<1>1. Pieces(Texts, Len(A), Blocks(A)) /\ Text(A) \in Seq(Texts)
      /\ Len(Text(A)) = Mark(A, Len(A))
  BY BlocksPieces
<1>2. Joined(Blocks(A), r) \in Seq(Texts) /\ Starts(Blocks(A), r, Len(A))
  BY <1>1, JoinedStarts
<1>3. Mark(A, r) \in Nat /\ Mark(A, r) <= Mark(A, Len(A))
  BY <1>2 DEF Starts, Mark
<1>4. Len(Text(A)) \in Nat
  BY <1>1
<1> QED
  BY <1>1, <1>3, <1>4

(* send_response writes an answer behind the others.                       *)
LEMMA AnswerAdded ==
    ASSUME NEW A, NEW reps, NEW out, Answers(A, reps, out), NEW a, IsReply(a)
    PROVE  Answers(Append(A, a), reps, out \o Block(a)) /\ out \in Seq(Texts)
<1> DEFINE B == Append(A, a)
           n == Len(A)
           r == Len(reps)
           m == Mark(A, r)
           T == Text(A)
           b == Block(a)
<1>1. A \in Seq(Replies) /\ n \in Nat /\ AreReplies(A) /\ r \in 0 .. n
  BY BlocksPieces DEF Answers
<1>2. IsBlock(a) /\ a \in Replies
  BY BlockIs DEF IsReply
<1>3. /\ B \in Seq(Replies) /\ Len(B) = n + 1 /\ B[n + 1] = a
      /\ \A i \in 1 .. n : B[i] = A[i]
  BY <1>1, <1>2
<1> HIDE DEF B
<1>4. AreReplies(B)
  <2>1. ASSUME NEW i \in 1 .. n + 1 PROVE IsReply(B[i])
    <3>1. CASE i = n + 1
      BY <1>3, <3>1
    <3>2. CASE i # n + 1
      <4>1. i \in 1 .. n
        BY <1>1, <3>2
      <4> QED
        BY <1>1, <1>3, <4>1 DEF AreReplies
    <3> QED
      BY <3>1, <3>2
  <2> QED
    BY <1>3, <2>1 DEF AreReplies
<1>5. ASSUME NEW k \in 0 .. n PROVE Joined(Blocks(B), k) = Joined(Blocks(A), k)
  <2>1. ASSUME NEW i \in 1 .. k PROVE Blocks(B)[i] = Blocks(A)[i]
    <3>1. i \in 1 .. n /\ i \in 1 .. n + 1
      BY <1>1
    <3>2. DOMAIN B = 1 .. n + 1 /\ DOMAIN A = 1 .. n
      BY <1>1, <1>3
    <3> HIDE DEF n
    <3>3. Blocks(B)[i] = Block(B[i]) /\ Blocks(A)[i] = Block(A[i])
      BY <3>1, <3>2 DEF Blocks
    <3> QED
      BY <1>3, <3>1, <3>3
  <2>2. [i \in 1 .. k |-> Blocks(B)[i]] = [i \in 1 .. k |-> Blocks(A)[i]]
    BY <2>1
  <2> QED
    BY <2>2 DEF Joined
<1>6. Text(B) = T \o b
  <2>1. Pieces(Texts, n + 1, Blocks(B))
    BY <1>3, <1>4, BlocksPieces
  <2>2. Blocks(B)[n + 1] = b
    <3>1. n + 1 \in DOMAIN B
      BY <1>1, <1>3
    <3> QED
      BY <1>3, <3>1 DEF Blocks
  <2>3. n + 1 \in 1 .. n + 1 /\ (n + 1) - 1 = n /\ n \in 0 .. n
    BY <1>1
  <2> HIDE DEF n
  <2>4. Joined(Blocks(B), n + 1) = Joined(Blocks(B), (n + 1) - 1) \o Blocks(B)[n + 1]
    BY <2>1, <2>3, JoinedIs DEF Pieces
  <2> QED
    BY <1>3, <1>5, <2>2, <2>3, <2>4 DEF Text, n
<1>7. Mark(B, r) = m
  BY <1>1, <1>5 DEF Mark
<1>8. T \in Seq(Texts) /\ m \in 0 .. Len(T) /\ b \in Seq(Texts)
  BY <1>1, <1>2, BlocksPieces, MarkIs DEF IsBlock
<1> HIDE DEF T, m, b
<1>9. /\ From(T, m) \in Seq(Texts) /\ Len(From(T, m)) = Len(T) - m
      /\ \A j \in 1 .. Len(T) - m : From(T, m)[j] = T[m + j]
  BY <1>8, FromIs DEF IsFrom
<1>10. From(T \o b, m) = From(T, m) \o b
  <2> DEFINE x == T \o b
             y == From(T, m)
             u == From(x, m)
             v == y \o b
             p == Len(T)
             q == Len(b)
  <2>1. p \in Nat /\ q \in Nat /\ m \in Nat /\ m <= p
    BY <1>8
  <2>2. /\ x \in Seq(Texts) /\ Len(x) = p + q /\ \A j \in 1 .. p : x[j] = T[j]
        /\ \A j \in 1 .. q : x[p + j] = b[j]
    BY <1>8, CatIs DEF IsCat
  <2> HIDE DEF x
  <2>3. /\ u \in Seq(Texts) /\ Len(u) = (p + q) - m
        /\ \A j \in 1 .. (p + q) - m : u[j] = x[m + j]
    <3>1. m \in 0 .. Len(x)
      BY <2>1, <2>2
    <3>2. IsFrom(Texts, x, m)
      BY <2>2, <3>1, FromIs
    <3> QED
      BY <2>2, <3>2 DEF IsFrom
  <2>4. y \in Seq(Texts) /\ Len(y) = p - m /\ \A j \in 1 .. p - m : y[j] = T[m + j]
    BY <1>9
  <2> HIDE DEF u, y, p, q
  <2>5. /\ v \in Seq(Texts) /\ Len(v) = Len(y) + Len(b) /\ \A j \in 1 .. Len(y) : v[j] = y[j]
        /\ \A j \in 1 .. Len(b) : v[Len(y) + j] = b[j]
    <3>1. IsCat(Texts, y, b)
      BY <1>8, <2>4, CatIs
    <3> QED
      BY <3>1 DEF IsCat
  <2> HIDE DEF v
  <2>6. Len(u) = Len(v)
    BY <2>1, <2>3, <2>4, <2>5 DEF q
  <2>7. ASSUME NEW j \in 1 .. Len(u) PROVE u[j] = v[j]
    <3>1. j \in 1 .. (p + q) - m /\ j \in Nat
      BY <2>3
    <3>2. CASE j <= p - m
      <4>1. j \in 1 .. p - m /\ m + j \in 1 .. p
        BY <2>1, <3>1, <3>2
      <4>2. u[j] = T[m + j]
        BY <2>2, <2>3, <3>1, <4>1
      <4>3. v[j] = T[m + j]
        BY <2>4, <2>5, <4>1
      <4> QED
        BY <4>2, <4>3
    <3>3. CASE ~(j <= p - m)
      <4> DEFINE i == j - (p - m)
      <4>1. i \in 1 .. q /\ p + i = m + j /\ (p - m) + i = j
        BY <2>1, <3>1, <3>3
      <4> HIDE DEF i
      <4>2. u[j] = b[i]
        BY <2>2, <2>3, <3>1, <4>1
      <4>3. v[(p - m) + i] = b[i]
        BY <2>4, <2>5, <4>1 DEF q
      <4> QED
        BY <4>1, <4>2, <4>3
    <3> QED
      BY <3>2, <3>3
  <2>8. u = v
    BY <2>3, <2>5, <2>6, <2>7, SameSeq
  <2> QED
    BY <2>8 DEF u, v, x, y
<1>11. reps = SubSeq(B, 1, r)
  <2>1. reps = SubSeq(A, 1, r)
    BY DEF Answers
  <2> HIDE DEF r
  <2>2. /\ SubSeq(A, 1, r) \in Seq(Replies) /\ Len(SubSeq(A, 1, r)) = r
        /\ \A i \in 1 .. r : SubSeq(A, 1, r)[i] = A[i]
    BY <1>1
  <2>3. /\ SubSeq(B, 1, r) \in Seq(Replies) /\ Len(SubSeq(B, 1, r)) = r
        /\ \A i \in 1 .. r : SubSeq(B, 1, r)[i] = B[i]
    BY <1>1, <1>3
  <2>4. \A i \in 1 .. r : A[i] = B[i]
    BY <1>1, <1>3
  <2> DEFINE x == SubSeq(A, 1, r)
             y == SubSeq(B, 1, r)
  <2>5. \A i \in 1 .. Len(x) : x[i] = y[i]
    BY <2>2, <2>3, <2>4
  <2> HIDE DEF x, y
  <2>6. x = y
    BY <2>2, <2>3, <2>5, SameSeq DEF x, y
  <2> QED
    BY <2>1, <2>6 DEF x, y
<1>12. out = From(T, m) /\ r \in 0 .. Len(B)
  BY <1>1, <1>3 DEF Answers, T, m
<1> QED
  BY <1>4, <1>6, <1>7, <1>9, <1>10, <1>11, <1>12 DEF Answers, b, B

(* The script reads the next answer.                                       *)
LEMMA AnswerRead ==
    ASSUME NEW A, NEW reps, NEW out, Answers(A, reps, out), out # <<>>,
           NEW more, more = IF out[1].num > 0 THEN out[1].num ELSE 0,
           NEW new, new = [id |-> out[1].id, kind |-> out[1].kind, status |-> out[1].num,
                           lines |-> SubSeq(out, 2, more + 1)]
    PROVE  Answers(A, Append(reps, new), SubSeq(out, more + 2, Len(out)))
<1> DEFINE n == Len(A)
           r == Len(reps)
           m == Mark(A, r)
           T == Text(A)
<1>1. A \in Seq(Replies) /\ n \in Nat /\ AreReplies(A) /\ r \in 0 .. n
      /\ reps = SubSeq(A, 1, r) /\ out = From(T, m)
  BY BlocksPieces DEF Answers
<1>2. T \in Seq(Texts) /\ m \in 0 .. Len(T) /\ Len(T) = Mark(A, n)
      /\ Pieces(Texts, n, Blocks(A))
  BY <1>1, BlocksPieces, MarkIs
<1>3. out \in Seq(Texts) /\ Len(out) = Len(T) - m
      /\ \A j \in 1 .. Len(T) - m : out[j] = T[m + j]
  BY <1>1, <1>2, FromIs DEF IsFrom
<1>4. r < n
  <2>1. CASE r = n
    <3>1. Len(out) = 0
      BY <1>2, <1>3, <2>1
    <3> QED
      BY <1>3, <3>1
  <2> QED
    BY <1>1, <2>1
<1> DEFINE a == A[r + 1]
           k == Len(a.lines)
<1>5. r + 1 \in 1 .. n /\ (r + 1) - 1 = r
  BY <1>1, <1>4
<1>6. IsBlock(a) /\ a \in Replies
  <2>1. IsReply(a)
    BY <1>1, <1>5 DEF AreReplies
  <2> HIDE DEF a
  <2> QED
    BY <2>1, BlockIs DEF IsReply
<1>7. PieceAt(Blocks(A), r + 1, n)
  <2> HIDE DEF n, r
  <2> QED
    BY <1>2, <1>5, JoinedPiece
<1>8. Blocks(A)[r + 1] = Block(a)
  <2>1. r + 1 \in DOMAIN A
    BY <1>1, <1>5
  <2> QED
    BY <2>1 DEF Blocks
<1> HIDE DEF a
<1>9. /\ k \in Nat /\ Len(Block(a)) = k + 1 /\ Block(a)[1] = Line("status", a.id, a.status)
      /\ \A j \in 1 .. k : Block(a)[j + 1] = a.lines[j]
      /\ (IF a.status > 0 THEN a.status ELSE 0) = k /\ a.lines \in Seq(Texts)
      /\ a = [id |-> a.id, kind |-> "status", status |-> a.status, lines |-> a.lines]
  BY <1>6 DEF IsBlock
<1>10. /\ m \in Nat /\ Mark(A, r + 1) = m + (k + 1) /\ m + (k + 1) <= Len(T)
       /\ \A p \in 1 .. k + 1 : T[m + p] = Block(a)[p]
  <2> HIDE DEF n, r, k
  <2> QED
    BY <1>2, <1>5, <1>7, <1>8, <1>9 DEF PieceAt, Mark, m, T, Text, n
<1> HIDE DEF T, m, k
<1>11. \A p \in 1 .. k + 1 : out[p] = Block(a)[p]
  <2>1. ASSUME NEW p \in 1 .. k + 1 PROVE p \in 1 .. Len(T) - m
    BY <1>2, <1>9, <1>10
  <2> QED
    BY <1>3, <1>10, <2>1
<1>12. out[1] = Line("status", a.id, a.status)
  <2>1. 1 \in 1 .. k + 1
    BY <1>9
  <2> QED
    BY <1>9, <1>11, <2>1
<1>13. out[1].id = a.id /\ out[1].kind = "status" /\ out[1].num = a.status
  BY <1>12 DEF Line
<1>14. more = k
  BY <1>9, <1>13
<1>15. SubSeq(out, 2, k + 1) = a.lines
  <2>1. k + 1 <= Len(out) /\ Len(out) \in Nat
    BY <1>2, <1>3, <1>9, <1>10
  <2> DEFINE u == SubSeq(out, 2, k + 1)
  <2>2. u \in Seq(Texts) /\ Len(u) = k /\ \A j \in 1 .. k : u[j] = out[j + 1]
    BY <1>3, <1>9, <2>1
  <2> HIDE DEF u
  <2>3. ASSUME NEW j \in 1 .. k PROVE u[j] = a.lines[j]
    <3>1. j + 1 \in 1 .. k + 1
      BY <1>9
    <3> QED
      BY <1>9, <1>11, <2>2, <3>1
  <2>4. u = a.lines
    BY <1>9, <2>2, <2>3, SameSeq DEF k
  <2> QED
    BY <2>4 DEF u
<1>16. new = a
  BY <1>9, <1>13, <1>14, <1>15
<1>17. Append(reps, new) = SubSeq(A, 1, r + 1)
  <2>1. r \in Nat /\ r + 1 \in 1 .. Len(A)
    BY <1>1, <1>5
  <2> HIDE DEF r
  <2> QED
    BY <1>1, <1>16, <2>1, AppendNext DEF a
<1>18. Len(SubSeq(A, 1, r + 1)) = r + 1
  BY <1>1, <1>5
<1>19. SubSeq(out, more + 2, Len(out)) = From(T, Mark(A, r + 1))
  <2>1. k + 1 \in 0 .. Len(T) - m
    BY <1>2, <1>9, <1>10
  <2>2. From(From(T, m), k + 1) = From(T, m + (k + 1))
    BY <1>2, <2>1, FromFrom
  <2>3. more + 2 = (k + 1) + 1
    BY <1>9, <1>14
  <2> QED
    BY <1>1, <1>10, <2>2, <2>3 DEF From
<1>20. r + 1 \in 0 .. n
  BY <1>1, <1>5
<1> QED
  BY <1>1, <1>17, <1>18, <1>19, <1>20 DEF Answers, T

-----------------------------------------------------------------------------
(* The commands of a script                                                *)

ScriptUnits == [id : Nat, name : {c.name : c \in Script}, eol : BOOLEAN]

\* The commands as they are sent, where the one behind the k-th begins, and the
\* whole stream.
Commands(sc) == [i \in DOMAIN sc |-> CommandUnits(i, sc[i].name, sc[i].len)]
Offset(sc, k) == Len(Joined(Commands(sc), k))
Stream(sc) == Joined(Commands(sc), Len(sc))

\* The daemon has handled k commands; the others are in its buffer and behind it.
Incoming(rbuf, in, sc, k) ==
    /\ rbuf \in Seq(ScriptUnits) /\ in \in Seq(ScriptUnits) /\ Len(rbuf) <= RbufSize
    /\ k \in 0 .. Len(sc) /\ rbuf \o in = From(Stream(sc), Offset(sc, k))

(* The pieces of the stream.                                               *)
LEMMA CommandPieces ==
    ASSUME NEW sc \in Seq(Script)
    PROVE  /\ Pieces(ScriptUnits, Len(sc), Commands(sc)) /\ Len(sc) \in Nat
           /\ Joined(Commands(sc), 0) = <<>> /\ Stream(sc) \in Seq(ScriptUnits)
           /\ Stream(sc) = FlattenSeq([i \in DOMAIN sc |->
                               CommandUnits(i, sc[i].name, sc[i].len)])
<1>1. Len(sc) \in Nat /\ DOMAIN sc = 1 .. Len(sc)
  OBVIOUS
<1>2. ASSUME NEW i \in 1 .. Len(sc)
      PROVE  CommandUnits(i, sc[i].name, sc[i].len) \in Seq(ScriptUnits)
  <2> DEFINE l == sc[i].len
             nm == sc[i].name
  <2>1. sc[i] \in Script /\ l \in Nat /\ i \in Nat
    BY <1>1, ClientAssumption
  <2>2. nm \in {c.name : c \in Script}
    BY <2>1
  <2> HIDE DEF l, nm
  <2>3. \A j \in 1 .. l : Unit(i, nm, j = l) \in ScriptUnits
    BY <2>1, <2>2 DEF Unit, ScriptUnits
  <2>4. [j \in 1 .. l |-> Unit(i, nm, j = l)] \in Seq(ScriptUnits)
    BY <2>1, <2>3
  <2> QED
    BY <2>4 DEF CommandUnits, l, nm
<1>3. Commands(sc) \in [1 .. Len(sc) -> Seq(ScriptUnits)]
  BY <1>1, <1>2 DEF Commands
<1>4. Pieces(ScriptUnits, Len(sc), Commands(sc))
  BY <1>1, <1>3 DEF Pieces
<1>5. Joined(Commands(sc), 0) = <<>>
  BY <1>1, <1>3, JoinedIs
<1>6. Len(sc) \in 0 .. Len(sc)
  BY <1>1
<1>7. Stream(sc) \in Seq(ScriptUnits)
  BY <1>4, <1>6, JoinedStarts DEF Stream
<1>8. [i \in 1 .. Len(sc) |-> Commands(sc)[i]]
         = [i \in DOMAIN sc |-> CommandUnits(i, sc[i].name, sc[i].len)]
  BY <1>1 DEF Commands
<1> QED
  BY <1>1, <1>4, <1>5, <1>7, <1>8 DEF Stream, Joined

CommandAt(sc, k) ==
    LET o == Offset(sc, k - 1)
        l == sc[k].len
    IN  /\ o \in Nat /\ l \in Nat \ {0} /\ Offset(sc, k) = o + l
        /\ o + l <= Len(Stream(sc))
        /\ \A j \in 1 .. l : Stream(sc)[o + j] = Unit(k, sc[k].name, j = l)

(* Where the k-th command is in the stream.                                *)
LEMMA CommandIs ==
    ASSUME NEW sc \in Seq(Script), NEW k \in 1 .. Len(sc)
    PROVE  CommandAt(sc, k)
<1> DEFINE n == Len(sc)
           l == sc[k].len
           o == Offset(sc, k - 1)
<1>1. Pieces(ScriptUnits, n, Commands(sc)) /\ n \in Nat
  BY CommandPieces
<1>2. k \in DOMAIN sc /\ l \in Nat \ {0}
  BY ClientAssumption
<1>3. Commands(sc)[k] = [j \in 1 .. l |-> Unit(k, sc[k].name, j = l)]
  BY <1>2 DEF Commands, CommandUnits
<1>4. PieceAt(Commands(sc), k, n)
  <2>1. k \in 1 .. n
    OBVIOUS
  <2> HIDE DEF n
  <2> QED
    BY <1>1, <2>1, JoinedPiece
<1> HIDE DEF l
<1> DEFINE g == [j \in 1 .. l |-> Unit(k, sc[k].name, j = l)]
<1>5. Len(g) = l /\ \A j \in 1 .. l : g[j] = Unit(k, sc[k].name, j = l)
  BY <1>2
<1> HIDE DEF g
<1>6. /\ o \in Nat /\ Offset(sc, k) = o + l /\ o + l <= Len(Stream(sc))
      /\ \A j \in 1 .. l : Stream(sc)[o + j] = g[j]
  <2>1. Commands(sc)[k] = g
    BY <1>3 DEF g
  <2> QED
    BY <1>4, <1>5, <2>1 DEF PieceAt, Offset, Stream
<1> QED
  BY <1>2, <1>5, <1>6 DEF CommandAt, l

\* What is left is the stream behind the k-th command.
LeftOver(sc, k) ==
    /\ Offset(sc, k) \in 0 .. Len(Stream(sc))
    /\ IsFrom(ScriptUnits, Stream(sc), Offset(sc, k))
    /\ k = Len(sc) => Offset(sc, k) = Len(Stream(sc))

(* How much is left.                                                       *)
LEMMA LeftOverIs ==
    ASSUME NEW sc \in Seq(Script), NEW k \in 0 .. Len(sc)
    PROVE  LeftOver(sc, k)
<1>1. Pieces(ScriptUnits, Len(sc), Commands(sc)) /\ Stream(sc) \in Seq(ScriptUnits)
  BY CommandPieces
<1>2. Joined(Commands(sc), k) \in Seq(ScriptUnits) /\ Starts(Commands(sc), k, Len(sc))
  BY <1>1, JoinedStarts
<1>3. Offset(sc, k) \in Nat /\ Offset(sc, k) <= Len(Stream(sc)) /\ Len(Stream(sc)) \in Nat
  BY <1>1, <1>2 DEF Starts, Offset, Stream
<1>4. Offset(sc, k) \in 0 .. Len(Stream(sc))
  BY <1>3
<1>5. IsFrom(ScriptUnits, Stream(sc), Offset(sc, k))
  BY <1>1, <1>4, FromIs
<1> QED
  BY <1>4, <1>5 DEF LeftOver, Offset, Stream

(* read() moves units from the socket to the buffer.                       *)
LEMMA ReadsKeep ==
    ASSUME NEW rbuf, NEW in, NEW sc, NEW k, Incoming(rbuf, in, sc, k),
           NEW n \in 1 .. Len(in), n + Len(rbuf) <= RbufSize
    PROVE  Incoming(rbuf \o SubSeq(in, 1, n), SubSeq(in, n + 1, Len(in)), sc, k)
<1> DEFINE a == SubSeq(in, 1, n)
           b == SubSeq(in, n + 1, Len(in))
<1>1. rbuf \in Seq(ScriptUnits) /\ in \in Seq(ScriptUnits)
  BY DEF Incoming
<1>2. a \in Seq(ScriptUnits) /\ Len(a) = n /\ b \in Seq(ScriptUnits) /\ a \o b = in
  <2>1. n \in Nat /\ n <= Len(in) /\ Len(in) \in Nat
    BY <1>1
  <2>2. a \in Seq(ScriptUnits) /\ Len(a) = n /\ \A j \in 1 .. n : a[j] = in[j]
    BY <1>1, <2>1
  <2>3. n \in 0 .. Len(in)
    BY <2>1
  <2>4. IsFrom(ScriptUnits, in, n)
    BY <1>1, <2>3, FromIs
  <2>5. b \in Seq(ScriptUnits) /\ Len(b) = Len(in) - n
        /\ \A j \in 1 .. Len(in) - n : b[j] = in[n + j]
    BY <2>4 DEF IsFrom, From
  <2> HIDE DEF a, b
  <2>6. IsCat(ScriptUnits, a, b)
    BY <2>2, <2>5, CatIs
  <2> DEFINE x == a \o b
  <2>7. x \in Seq(ScriptUnits) /\ Len(x) = n + (Len(in) - n)
        /\ (\A j \in 1 .. n : x[j] = a[j])
        /\ \A j \in 1 .. Len(in) - n : x[n + j] = b[j]
    BY <2>2, <2>5, <2>6 DEF IsCat
  <2> HIDE DEF x
  <2>8. Len(x) = Len(in)
    BY <2>1, <2>7
  <2>9. ASSUME NEW j \in 1 .. Len(in) PROVE x[j] = in[j]
    <3>1. CASE j <= n
      <4>1. j \in 1 .. n
        BY <2>1, <3>1
      <4> QED
        BY <2>2, <2>7, <4>1
    <3>2. CASE ~(j <= n)
      <4> DEFINE i == j - n
      <4>1. i \in 1 .. Len(in) - n /\ n + i = j
        BY <2>1, <3>2
      <4> HIDE DEF i
      <4>2. x[n + i] = in[n + i]
        BY <2>5, <2>7, <4>1
      <4> QED
        BY <4>1, <4>2
    <3> QED
      BY <3>1, <3>2
  <2>10. x = in
    BY <1>1, <2>7, <2>8, <2>9, SameSeq
  <2> QED
    BY <2>2, <2>5, <2>10 DEF x
<1> HIDE DEF a, b
<1>3. rbuf \o a \in Seq(ScriptUnits) /\ Len(rbuf \o a) = Len(rbuf) + n
  <2>1. IsCat(ScriptUnits, rbuf, a)
    BY <1>1, <1>2, CatIs
  <2> QED
    BY <1>2, <2>1 DEF IsCat
<1>4. (rbuf \o a) \o b = rbuf \o in
  <2>1. \A u, v, w \in Seq(ScriptUnits) : (u \o v) \o w = u \o (v \o w)
    OBVIOUS
  <2> QED
    BY <1>1, <1>2, <2>1
<1>5. Len(rbuf) + n <= RbufSize
  BY <1>1
<1> QED
  BY <1>2, <1>3, <1>4, <1>5 DEF Incoming, a, b

\* The next command is complete at place p of the buffer.
NextAt(c, sc, k, p) ==
    /\ k + 1 \in 1 .. Len(sc) /\ p \in 1 .. Len(c.rbuf) /\ p <= RbufSize
    /\ p = sc[k + 1].len
    /\ c.rbuf[p].id = k + 1 /\ c.rbuf[p].name = sc[k + 1].name
    /\ Incoming(SubSeq(c.rbuf, p + 1, Len(c.rbuf)), c.in, sc, k + 1)

(* next_cmd finds the end of the next command.                             *)
LEMMA NextIs ==
    ASSUME NEW sc \in Seq(Script), NEW c, NEW k, Incoming(c.rbuf, c.in, sc, k),
           NextCmd(c) # 0
    PROVE  NextAt(c, sc, k, NextCmd(c))
<1> DEFINE n == Len(sc)
           rb == c.rbuf
           x == rb \o c.in
           o == Offset(sc, k)
           S == Stream(sc)
<1>0. /\ rb \in Seq(ScriptUnits) /\ c.in \in Seq(ScriptUnits) /\ Len(rb) <= RbufSize
      /\ k \in 0 .. n /\ x = From(S, o)
  BY DEF Incoming
<1>1. /\ rb \in Seq(ScriptUnits) /\ c.in \in Seq(ScriptUnits) /\ Len(rb) <= RbufSize
      /\ k \in 0 .. n /\ x = From(S, o) /\ n \in Nat /\ Len(rb) \in Nat
      /\ S \in Seq(ScriptUnits) /\ DOMAIN rb = 1 .. Len(rb)
  <2>1. S \in Seq(ScriptUnits) /\ n \in Nat
    BY CommandPieces
  <2> HIDE DEF rb, x, S, o, n
  <2>2. Len(rb) \in Nat /\ DOMAIN rb = 1 .. Len(rb)
    BY <1>0
  <2> QED
    BY <1>0, <2>1, <2>2
<1>2. o \in 0 .. Len(S) /\ IsFrom(ScriptUnits, S, o) /\ (k = n => o = Len(S))
  BY <1>1, LeftOverIs DEF LeftOver
<1>3. Len(x) = Len(S) - o /\ \A j \in 1 .. Len(S) - o : x[j] = S[o + j]
  BY <1>1, <1>2 DEF IsFrom
<1>4. IsCat(ScriptUnits, rb, c.in)
  <2> HIDE DEF rb
  <2> QED
    BY <1>1, CatIs
<1>5. /\ Len(x) = Len(rb) + Len(c.in) /\ Len(c.in) \in Nat
      /\ \A j \in 1 .. Len(rb) : x[j] = rb[j]
  <2> HIDE DEF rb
  <2>1. Len(c.in) \in Nat
    BY <1>1
  <2> QED
    BY <1>4, <2>1 DEF IsCat
<1>6. PICK e \in DOMAIN rb : rb[e].eol
  BY DEF NextCmd
<1>7. NextCmd(c) = CHOOSE i \in DOMAIN rb : rb[i].eol /\ \A j \in 1 .. i - 1 : ~rb[j].eol
  BY <1>6 DEF NextCmd
<1> HIDE DEF x, o, S, rb, n
<1>8. k + 1 \in 1 .. n /\ (k + 1) - 1 = k
  <2>1. CASE k = n
    <3>1. Len(rb) = 0
      BY <1>1, <1>2, <1>3, <1>5, <2>1
    <3> QED
      BY <1>1, <1>6, <3>1
  <2> QED
    BY <1>1, <2>1
<1>9. CommandAt(sc, k + 1)
  BY <1>8, CommandIs DEF n
<1> DEFINE l == sc[k + 1].len
           nm == sc[k + 1].name
<1>10. /\ o \in Nat /\ l \in Nat \ {0} /\ Offset(sc, k + 1) = o + l /\ o + l <= Len(S)
       /\ \A j \in 1 .. l : S[o + j] = Unit(k + 1, nm, j = l)
  BY <1>8, <1>9 DEF CommandAt, o, S
<1> HIDE DEF l, nm
<1>11. ASSUME NEW j \in 1 .. l, j \in 1 .. Len(rb) PROVE rb[j] = Unit(k + 1, nm, j = l)
  <2>1. j \in 1 .. Len(S) - o
    BY <1>1, <1>2, <1>10
  <2> QED
    BY <1>3, <1>5, <1>10, <1>11, <2>1
<1>12. l <= Len(rb)
  <2>1. CASE ~(l <= Len(rb))
    <3>1. e \in 1 .. l /\ e \in 1 .. Len(rb) /\ e # l
      BY <1>1, <1>6, <1>10, <2>1
    <3>2. rb[e] = Unit(k + 1, nm, FALSE)
      BY <1>11, <3>1
    <3> QED
      BY <1>6, <3>2 DEF Unit
  <2> QED
    BY <2>1
<1>13. l \in DOMAIN rb /\ l \in 1 .. l /\ l \in 1 .. Len(rb)
  BY <1>1, <1>10, <1>12
<1>14. rb[l] = Unit(k + 1, nm, TRUE)
  BY <1>11, <1>13
<1>15. ASSUME NEW j \in 1 .. l - 1 PROVE ~rb[j].eol
  <2>1. j \in 1 .. l /\ j \in 1 .. Len(rb) /\ j # l
    BY <1>1, <1>10, <1>12
  <2>2. rb[j] = Unit(k + 1, nm, FALSE)
    BY <1>11, <2>1
  <2> QED
    BY <2>2 DEF Unit
<1> DEFINE First(i) == i \in DOMAIN rb /\ rb[i].eol /\ \A j \in 1 .. i - 1 : ~rb[j].eol
<1>16. First(l)
  BY <1>13, <1>14, <1>15 DEF Unit
<1>17. ASSUME NEW i, First(i) PROVE i = l
  <2>1. i \in 1 .. Len(rb)
    BY <1>1, <1>17
  <2>2. ~(i < l)
    <3>1. ASSUME i < l PROVE i \in 1 .. l - 1
      BY <1>10, <2>1, <3>1
    <3> QED
      BY <1>15, <1>17, <3>1
  <2>3. ~(l < i)
    <3>1. ASSUME l < i PROVE l \in 1 .. i - 1
      BY <1>10, <2>1, <3>1
    <3>2. rb[l].eol
      BY <1>14 DEF Unit
    <3> QED
      BY <1>17, <3>1, <3>2
  <2> QED
    BY <1>10, <2>1, <2>2, <2>3
<1>18. NextCmd(c) = l
  <2>1. NextCmd(c) = CHOOSE i : First(i)
    BY <1>7
  <2> HIDE DEF First
  <2> QED
    BY <1>16, <1>17, <2>1
<1> DEFINE left == SubSeq(rb, l + 1, Len(rb))
<1>19. left \in Seq(ScriptUnits) /\ Len(left) = Len(rb) - l
       /\ \A j \in 1 .. Len(rb) - l : left[j] = rb[l + j]
  <2>1. l \in 0 .. Len(rb)
    BY <1>10, <1>13
  <2>2. IsFrom(ScriptUnits, rb, l)
    BY <1>1, <2>1, FromIs
  <2> QED
    BY <2>2 DEF IsFrom, From
<1>20. left \o c.in = From(S, o + l)
  <2>1. l \in 0 .. Len(S) - o
    BY <1>2, <1>10
  <2>2. From(x, l) = From(S, o + l)
    BY <1>1, <1>2, <2>1, FromFrom
  <2>3. left \o c.in = From(x, l)
    <3> DEFINE u == left \o c.in
               v == From(x, l)
    <3> HIDE DEF left
    <3>1. IsCat(ScriptUnits, left, c.in)
      BY <1>1, <1>19, CatIs
    <3>2. /\ u \in Seq(ScriptUnits) /\ Len(u) = (Len(rb) - l) + Len(c.in)
          /\ (\A j \in 1 .. Len(rb) - l : u[j] = left[j])
          /\ \A j \in 1 .. Len(c.in) : u[(Len(rb) - l) + j] = c.in[j]
      BY <1>19, <3>1 DEF IsCat
    <3>3. x \in Seq(ScriptUnits) /\ l \in 0 .. Len(x)
      BY <1>1, <1>4, <1>5, <1>10, <1>12 DEF IsCat, x
    <3>4. IsFrom(ScriptUnits, x, l)
      BY <3>3, FromIs
    <3>5. v \in Seq(ScriptUnits) /\ Len(v) = Len(x) - l
          /\ \A j \in 1 .. Len(x) - l : v[j] = x[l + j]
      BY <3>4 DEF IsFrom
    <3>6. \A j \in 1 .. Len(c.in) : x[Len(rb) + j] = c.in[j]
      BY <1>4 DEF IsCat, x
    <3> HIDE DEF u, v
    <3>7. Len(u) = Len(v)
      BY <1>1, <1>5, <1>10, <3>2, <3>5
    <3>8. ASSUME NEW j \in 1 .. Len(u) PROVE u[j] = v[j]
      <4>0. j \in Nat /\ j >= 1 /\ j <= (Len(rb) - l) + Len(c.in) /\ j \in 1 .. Len(x) - l
        BY <1>1, <1>5, <1>10, <1>12, <3>2, <3>5, <3>7
      <4>1. CASE j <= Len(rb) - l
        <5>1. j \in 1 .. Len(rb) - l /\ l + j \in 1 .. Len(rb)
          BY <1>1, <1>10, <4>0, <4>1
        <5>2. u[j] = rb[l + j] /\ v[j] = x[l + j] /\ x[l + j] = rb[l + j]
          BY <1>5, <1>19, <3>2, <3>5, <4>0, <5>1
        <5> QED
          BY <5>2
      <4>2. CASE ~(j <= Len(rb) - l)
        <5> DEFINE i == j - (Len(rb) - l)
        <5>1. i \in 1 .. Len(c.in) /\ (Len(rb) - l) + i = j /\ Len(rb) + i = l + j
          BY <1>1, <1>5, <1>10, <4>0, <4>2
        <5> HIDE DEF i
        <5>2. u[(Len(rb) - l) + i] = c.in[i]
          BY <3>2, <5>1
        <5>3. v[j] = x[l + j] /\ x[Len(rb) + i] = c.in[i]
          BY <3>5, <3>6, <4>0, <5>1
        <5> QED
          BY <5>1, <5>2, <5>3
      <4> QED
        BY <4>1, <4>2
    <3>9. u = v
      BY <3>2, <3>5, <3>7, <3>8, SameSeq
    <3> QED
      BY <3>9 DEF u, v
  <2> QED
    BY <2>2, <2>3
<1>21. Len(left) <= RbufSize
  <2>1. RbufSize \in Nat
    BY ClientAssumption
  <2> HIDE DEF left
  <2>2. Len(left) = Len(rb) - l
    BY <1>19
  <2>3. Len(rb) <= RbufSize /\ Len(rb) \in Nat /\ l \in Nat
    BY <1>1, <1>10
  <2> QED
    BY <2>1, <2>2, <2>3
<1> HIDE DEF left
<1>22. k + 1 \in 0 .. n
  BY <1>1, <1>8
<1>23. Incoming(left, c.in, sc, k + 1)
  BY <1>1, <1>10, <1>19, <1>20, <1>21, <1>22 DEF Incoming, S, n
<1>24. rb[l].id = k + 1 /\ rb[l].name = nm
  BY <1>14 DEF Unit
<1>25. l <= RbufSize
  <2>1. RbufSize \in Nat
    BY ClientAssumption
  <2> QED
    BY <1>1, <1>10, <1>12, <2>1
<1> QED
  BY <1>8, <1>13, <1>18, <1>23, <1>24, <1>25 DEF NextAt, left, rb, l, nm, n

-----------------------------------------------------------------------------
(* What a script can expect                                                *)

Hopes == [ids : Seq(Nat), start : Nat, over : BOOLEAN, batches : Seq(Nat \X Nat)]
NoHope == [ids |-> <<>>, start |-> 0, over |-> FALSE, batches |-> <<>>]

\* No answer comes after command c.
Overs(e, c) == e.over \/ c.len > RbufSize \/ c.name = "QUIT"

\* The n-th command c after the hope e.
Hope(e, c, n) ==
    CASE Overs(e, c) -> [e EXCEPT !.over = TRUE]
      [] ~Overs(e, c) /\ e.start # 0 /\ c.name # "." -> e
      [] ~Overs(e, c) /\ e.start # 0 /\ c.name = "." ->
           [e EXCEPT !.ids = Append(@, n), !.start = 0, !.batches = Append(@, <<e.start, n>>)]
      [] OTHER ->
           [e EXCEPT !.ids = Append(@, n),
                     !.start = IF c.name = "BATCH" /\ c.name \in Permissions THEN n ELSE 0]

HopeRec(h, sc) ==
    h = [n \in 0 .. Len(sc) |-> IF n = 0 THEN NoHope ELSE Hope(h[n - 1], sc[n], n)]
HopeFcn(sc) == CHOOSE h : HopeRec(h, sc)

(* Expect is the same for as long as the script is.                        *)
LEMMA ExpectIs == Expect = HopeFcn(script)
BY DEF Expect, HopeFcn, HopeRec, Hope, Overs, NoHope

\* d is the hope after e and the n-th command.
HopeGoes(e, d, c, n) ==
    /\ d \in Hopes
    /\ Overs(e, c) =>
          d.over /\ d.ids = e.ids /\ d.start = e.start /\ d.batches = e.batches
    /\ ~Overs(e, c) /\ e.start # 0 /\ c.name # "." => d = e
    /\ ~Overs(e, c) /\ e.start # 0 /\ c.name = "." =>
          /\ ~d.over /\ d.ids = Append(e.ids, n) /\ d.start = 0
          /\ d.batches = Append(e.batches, <<e.start, n>>)
    /\ ~Overs(e, c) /\ e.start = 0 =>
          /\ ~d.over /\ d.ids = Append(e.ids, n) /\ d.batches = e.batches
          /\ d.start = IF c.name = "BATCH" /\ c.name \in Permissions THEN n ELSE 0

(* The cases of Expect.                                                    *)
LEMMA HopeIs ==
    ASSUME NEW e \in Hopes, NEW c, NEW n \in Nat
    PROVE  HopeGoes(e, Hope(e, c, n), c, n)
<1> DEFINE d == Hope(e, c, n)
           p == e.ids
           q == e.start
           r == e.batches
<1>1. e.ids \in Seq(Nat) /\ e.start \in Nat /\ e.over \in BOOLEAN /\ e.batches \in Seq(Nat \X Nat)
  BY DEF Hopes
<1>2. e = [ids |-> e.ids, start |-> e.start, over |-> e.over, batches |-> e.batches]
  BY DEF Hopes
<1>4. CASE Overs(e, c)
  <2>1. d = [e EXCEPT !.over = TRUE]
    BY <1>4 DEF Hope
  <2>2. d \in Hopes /\ d.over = TRUE /\ d.ids = e.ids /\ d.start = e.start /\ d.batches = e.batches
    BY <1>1, <2>1 DEF Hopes
  <2> QED
    BY <1>4, <2>2 DEF HopeGoes
<1>5. CASE ~Overs(e, c) /\ e.start # 0 /\ c.name # "."
  <2>1. d = e
    BY <1>5 DEF Hope
  <2> QED
    BY <1>5, <2>1 DEF HopeGoes
<1>6. CASE ~Overs(e, c) /\ e.start # 0 /\ c.name = "."
  <2>1. d = [e EXCEPT !.ids = Append(@, n), !.start = 0, !.batches = Append(@, <<e.start, n>>)]
    BY <1>6 DEF Hope
  <2> DEFINE x == Append(e.ids, n)
             y == Append(e.batches, <<e.start, n>>)
  <2>2. x \in Seq(Nat) /\ y \in Seq(Nat \X Nat)
    BY <1>1
  <2>3. d = [e EXCEPT !.ids = x, !.start = 0, !.batches = y]
    BY <2>1
  <2> HIDE DEF x, y, d
  <2>4. d = [ids |-> x, start |-> 0, over |-> e.over, batches |-> y]
    BY <1>2, <2>3
  <2>5. d \in Hopes /\ d.over = e.over /\ d.ids = x /\ d.start = 0 /\ d.batches = y
    BY <1>1, <2>2, <2>4 DEF Hopes
  <2> QED
    BY <1>6, <2>5 DEF HopeGoes, Overs, x, y, d
<1>7. CASE ~Overs(e, c) /\ e.start = 0
  <2> DEFINE x == Append(e.ids, n)
             y == IF c.name = "BATCH" /\ c.name \in Permissions THEN n ELSE 0
  <2>1. d = [e EXCEPT !.ids = Append(@, n),
                      !.start = IF c.name = "BATCH" /\ c.name \in Permissions THEN n ELSE 0]
    BY <1>7 DEF Hope
  <2>2. x \in Seq(Nat) /\ y \in Nat
    BY <1>1
  <2>3. d = [e EXCEPT !.ids = x, !.start = y]
    BY <2>1
  <2> HIDE DEF x, y, d
  <2>4. d = [ids |-> x, start |-> y, over |-> e.over, batches |-> e.batches]
    BY <1>2, <2>3
  <2>5. d \in Hopes /\ d.over = e.over /\ d.ids = x /\ d.start = y /\ d.batches = e.batches
    BY <1>1, <2>2, <2>4 DEF Hopes
  <2> QED
    BY <1>7, <2>5 DEF HopeGoes, Overs, x, y, d
<1> QED
  BY <1>1, <1>4, <1>5, <1>6, <1>7

\* The hopes of a script, command by command.
IsHope(E, sc) ==
    /\ E[0] = NoHope /\ \A n \in 0 .. Len(sc) : E[n] \in Hopes
    /\ \A n \in 1 .. Len(sc) : HopeGoes(E[n - 1], E[n], sc[n], n)

(* Expect computes them.                                                   *)
LEMMA HopesAre ==
    ASSUME NEW sc \in Seq(Script)
    PROVE  IsHope(HopeFcn(sc), sc)
<1> DEFINE N == Len(sc)
           st == [p \in Hopes \X (1 .. N) |-> Hope(p[1], sc[p[2]], p[2])]
           E == HopeFcn(sc)
<1>1. N \in Nat
  OBVIOUS
<1> HIDE DEF N
<1>2. st \in [Hopes \X (1 .. N) -> Hopes]
  <2>1. ASSUME NEW p \in Hopes \X (1 .. N) PROVE Hope(p[1], sc[p[2]], p[2]) \in Hopes
    <3> DEFINE e == p[1]
               n == p[2]
               c == sc[p[2]]
    <3>1. e \in Hopes /\ n \in Nat
      BY <1>1
    <3> HIDE DEF e, n, c
    <3>2. HopeGoes(e, Hope(e, c, n), c, n)
      BY <3>1, HopeIs
    <3> QED
      BY <3>2 DEF HopeGoes, e, n, c
  <2> QED
    BY <2>1
<1>3. NoHope \in Hopes
  BY DEF NoHope, Hopes
<1>4. PICK f : Steps(f, Hopes, NoHope, N, st)
  <2> HIDE DEF st
  <2> QED
    BY <1>1, <1>2, <1>3, Recursion
<1>5. f \in [0 .. N -> Hopes] /\ f[0] = NoHope /\ \A n \in 1 .. N : f[n] = st[<<f[n - 1], n>>]
  <2> HIDE DEF st
  <2> QED
    BY <1>4 DEF Steps
<1>6. ASSUME NEW n \in 1 .. N PROVE f[n] = Hope(f[n - 1], sc[n], n)
  <2>1. n - 1 \in 0 .. N
    BY <1>1
  <2>2. <<f[n - 1], n>> \in Hopes \X (1 .. N)
    BY <1>5, <2>1
  <2>3. f[n] = st[<<f[n - 1], n>>]
    <3> HIDE DEF st
    <3> QED
      BY <1>5
  <2> DEFINE g == f[n - 1]
  <2> HIDE DEF g
  <2>4. st[<<g, n>>] = Hope(g, sc[n], n)
    BY <2>2 DEF g
  <2> QED
    BY <2>3, <2>4 DEF g
<1>7. HopeRec(f, sc)
  <2>1. f = [n \in 0 .. N |-> f[n]]
    BY <1>5
  <2>2. ASSUME NEW n \in 0 .. N
        PROVE  f[n] = IF n = 0 THEN NoHope ELSE Hope(f[n - 1], sc[n], n)
    <3>1. CASE n = 0
      <4> HIDE DEF st
      <4> QED
        BY <1>5, <3>1
    <3>2. CASE n # 0
      <4>1. n \in 1 .. N
        BY <1>1, <3>2
      <4> QED
        BY <1>6, <3>2, <4>1
    <3> QED
      BY <3>1, <3>2
  <2> QED
    BY <2>1, <2>2 DEF HopeRec, N
<1>8. HopeRec(E, sc)
  BY <1>7 DEF HopeFcn
<1> HIDE DEF E
<1>9. \A n \in 0 .. N : E[n] = IF n = 0 THEN NoHope ELSE Hope(E[n - 1], sc[n], n)
  BY <1>8 DEF HopeRec, N
<1>10. E[0] = NoHope
  <2>1. 0 \in 0 .. N
    BY <1>1
  <2> QED
    BY <1>9, <2>1
<1>11. ASSUME NEW n \in 1 .. N, E[n - 1] \in Hopes PROVE HopeGoes(E[n - 1], E[n], sc[n], n)
  <2>1. n \in 0 .. N /\ n # 0 /\ n \in Nat
    BY <1>1
  <2> DEFINE e == E[n - 1]
             c == sc[n]
  <2>2. E[n] = Hope(e, c, n) /\ e \in Hopes
    BY <1>9, <1>11, <2>1
  <2> HIDE DEF e, c
  <2>3. HopeGoes(e, Hope(e, c, n), c, n)
    BY <2>1, <2>2, HopeIs
  <2> QED
    BY <2>2, <2>3 DEF e, c
<1> DEFINE U == {n \in Nat : n <= N => E[n] \in Hopes}
<1>12. 0 \in U
  BY <1>3, <1>10
<1>13. ASSUME NEW n \in U PROVE n + 1 \in U
  <2>1. CASE n + 1 <= N
    <3>1. n \in Nat /\ E[n] \in Hopes /\ n + 1 \in 1 .. N /\ (n + 1) - 1 = n
      BY <1>1, <2>1
    <3>2. HopeGoes(E[(n + 1) - 1], E[n + 1], sc[n + 1], n + 1)
      BY <1>11, <3>1
    <3>3. E[n + 1] \in Hopes
      BY <3>2 DEF HopeGoes
    <3> QED
      BY <3>1, <3>3
  <2> QED
    BY <2>1
<1>14. U = Nat
  <2>1. U \in SUBSET Nat
    OBVIOUS
  <2> HIDE DEF U
  <2> QED
    BY <1>12, <1>13, <2>1, NatSet
<1>15. ASSUME NEW n \in 0 .. N PROVE E[n] \in Hopes
  <2>1. n \in U /\ n <= N
    BY <1>1, <1>14
  <2> QED
    BY <2>1
<1>16. ASSUME NEW n \in 1 .. N PROVE HopeGoes(E[n - 1], E[n], sc[n], n)
  <2>1. n - 1 \in 0 .. N
    BY <1>1
  <2> QED
    BY <1>11, <1>15, <2>1
<1> QED
  BY <1>10, <1>15, <1>16 DEF IsHope, N, E

\* What k commands leave behind.
Hopeful(e, k) ==
    /\ e.start <= k /\ (e.start # 0 => "BATCH" \in Permissions)
    /\ \A i \in 1 .. Len(e.ids) : e.ids[i] <= k
    /\ \A b \in ToSet(e.batches) : b[2] <= k

\* d is the hope of k commands, e that of more.
Grown(d, e, k) ==
    /\ Len(d.ids) <= Len(e.ids) /\ \A i \in 1 .. Len(d.ids) : e.ids[i] = d.ids[i]
    /\ \A b \in ToSet(e.batches) : b[2] <= k => b \in ToSet(d.batches)

(* One more element.                                                       *)
LEMMA AppendIs ==
    ASSUME NEW S, NEW s \in Seq(S), NEW x \in S
    PROVE  /\ Append(s, x) \in Seq(S) /\ Len(Append(s, x)) = Len(s) + 1 /\ Len(s) \in Nat
           /\ \A i \in 1 .. Len(s) : Append(s, x)[i] = s[i]
           /\ Append(s, x)[Len(s) + 1] = x
           /\ ToSet(Append(s, x)) = ToSet(s) \cup {x}
<1> DEFINE t == Append(s, x)
<1>1. /\ t \in Seq(S) /\ Len(t) = Len(s) + 1 /\ Len(s) \in Nat
      /\ \A i \in 1 .. Len(s) : t[i] = s[i]
      /\ t[Len(s) + 1] = x /\ DOMAIN s = 1 .. Len(s) /\ DOMAIN t = 1 .. Len(t)
  OBVIOUS
<1> HIDE DEF t
<1>2. ToSet(t) = ToSet(s) \cup {x}
  <2>1. ASSUME NEW y \in ToSet(t) PROVE y \in ToSet(s) \cup {x}
    <3>1. PICK i \in 1 .. Len(s) + 1 : y = t[i]
      BY <1>1 DEF ToSet
    <3>2. CASE i = Len(s) + 1
      BY <1>1, <3>1, <3>2
    <3>3. CASE i # Len(s) + 1
      <4>1. i \in DOMAIN s /\ y = s[i]
        BY <1>1, <3>1, <3>3
      <4> QED
        BY <4>1 DEF ToSet
    <3> QED
      BY <3>2, <3>3
  <2>2. ASSUME NEW y \in ToSet(s) PROVE y \in ToSet(t)
    <3>1. PICK i \in DOMAIN s : y = s[i]
      BY DEF ToSet
    <3>2. i \in DOMAIN t /\ y = t[i]
      BY <1>1, <3>1
    <3> QED
      BY <3>2 DEF ToSet
  <2>3. x \in ToSet(t)
    <3>1. Len(s) + 1 \in DOMAIN t
      BY <1>1
    <3> QED
      BY <1>1, <3>1 DEF ToSet
  <2> QED
    BY <2>1, <2>2, <2>3
<1> QED
  BY <1>1, <1>2 DEF t

(* One command more.                                                       *)
LEMMA HopeStep ==
    ASSUME NEW e \in Hopes, NEW d, NEW c, NEW k \in Nat, HopeGoes(e, d, c, k + 1), Hopeful(e, k)
    PROVE  Hopeful(d, k + 1) /\ Grown(e, d, k)
<1> DEFINE n == k + 1
<1>1. e.ids \in Seq(Nat) /\ e.start \in Nat /\ e.batches \in Seq(Nat \X Nat) /\ Len(e.ids) \in Nat
  BY DEF Hopes
<1>2. n \in Nat /\ n > k
  OBVIOUS
<1>3. \A b \in ToSet(e.batches) : b \in Nat \X Nat
  BY <1>1 DEF ToSet
<1>4. ASSUME NEW i \in 1 .. Len(e.ids) PROVE e.ids[i] \in Nat /\ e.ids[i] <= k /\ e.ids[i] <= n
  BY <1>1 DEF Hopeful
<1>5. ASSUME NEW b \in ToSet(e.batches) PROVE b[2] \in Nat /\ b[2] <= k /\ b[2] <= n
  BY <1>3 DEF Hopeful
<1>6. e.start <= n /\ (e.start # 0 => "BATCH" \in Permissions)
  BY <1>1 DEF Hopeful
<1> HIDE DEF n
<1>7. CASE d.ids = e.ids /\ d.start = e.start /\ d.batches = e.batches
  <2>1. Hopeful(d, n)
    BY <1>4, <1>5, <1>6, <1>7 DEF Hopeful
  <2>2. Grown(e, d, k)
    BY <1>1, <1>7 DEF Grown
  <2> QED
    BY <2>1, <2>2 DEF n
<1>8. CASE /\ d.ids = Append(e.ids, n)
           /\ d.start = 0 \/ (d.start = n /\ "BATCH" \in Permissions)
           /\ d.batches = e.batches \/ d.batches = Append(e.batches, <<e.start, n>>)
  <2> DEFINE t == Append(e.ids, n)
  <2>1. /\ Len(t) = Len(e.ids) + 1 /\ (\A i \in 1 .. Len(e.ids) : t[i] = e.ids[i])
        /\ t[Len(e.ids) + 1] = n
    BY <1>1, <1>2, AppendIs
  <2> HIDE DEF t
  <2>2. ASSUME NEW i \in 1 .. Len(t) PROVE t[i] <= n
    <3>1. CASE i = Len(e.ids) + 1
      BY <1>2, <2>1, <3>1
    <3>2. CASE i # Len(e.ids) + 1
      <4>1. i \in 1 .. Len(e.ids)
        BY <1>1, <2>1, <3>2
      <4> QED
        BY <1>4, <2>1, <4>1
    <3> QED
      BY <3>1, <3>2
  <2>3. ASSUME NEW b \in ToSet(d.batches)
        PROVE  b \in ToSet(e.batches) \/ b = <<e.start, n>>
    <3>1. CASE d.batches = e.batches
      BY <3>1
    <3>2. CASE d.batches = Append(e.batches, <<e.start, n>>)
      <4> DEFINE y == <<e.start, n>>
      <4>1. y \in Nat \X Nat
        BY <1>1, <1>2
      <4> HIDE DEF y
      <4>2. ToSet(Append(e.batches, y)) = ToSet(e.batches) \cup {y}
        BY <1>1, <4>1, AppendIs
      <4> QED
        BY <3>2, <4>2 DEF y
    <3> QED
      BY <1>8, <3>1, <3>2
  <2>4. ASSUME NEW b \in ToSet(d.batches) PROVE b[2] <= n
    <3>1. CASE b = <<e.start, n>>
      BY <1>2, <3>1
    <3> QED
      BY <1>5, <2>3, <3>1
  <2>5. ASSUME NEW b \in ToSet(d.batches), b[2] <= k PROVE b \in ToSet(e.batches)
    <3>1. CASE b = <<e.start, n>>
      BY <1>2, <2>5, <3>1
    <3> QED
      BY <2>3, <3>1
  <2>6. d.start <= n /\ (d.start # 0 => "BATCH" \in Permissions)
    BY <1>2, <1>8
  <2>7. Hopeful(d, n)
    BY <1>8, <2>2, <2>4, <2>6 DEF Hopeful, t
  <2>8. Grown(e, d, k)
    <3>1. d.ids = t
      BY <1>8 DEF t
    <3>2. Len(e.ids) <= Len(t)
      BY <1>1, <2>1
    <3> QED
      BY <2>1, <2>5, <3>1, <3>2 DEF Grown
  <2> QED
    BY <2>7, <2>8 DEF n
<1>9. \/ d.ids = e.ids /\ d.start = e.start /\ d.batches = e.batches
      \/ /\ d.ids = Append(e.ids, n)
         /\ d.start = 0 \/ (d.start = n /\ "BATCH" \in Permissions)
         /\ d.batches = e.batches \/ d.batches = Append(e.batches, <<e.start, n>>)
  <2>1. CASE Overs(e, c)
    BY <2>1 DEF HopeGoes
  <2>2. CASE ~Overs(e, c) /\ e.start # 0 /\ c.name # "."
    BY <2>2 DEF HopeGoes
  <2>3. CASE ~Overs(e, c) /\ e.start # 0 /\ c.name = "."
    BY <2>3 DEF HopeGoes, n
  <2>4. CASE ~Overs(e, c) /\ e.start = 0
    <3>1. /\ d.ids = Append(e.ids, n) /\ d.batches = e.batches
          /\ d.start = IF c.name = "BATCH" /\ c.name \in Permissions THEN n ELSE 0
      BY <2>4 DEF HopeGoes, n
    <3> QED
      BY <3>1
  <2> QED
    BY <2>1, <2>2, <2>3, <2>4
<1> QED
  BY <1>7, <1>8, <1>9

(* The hope of k commands.                                                 *)
LEMMA HopeBounds ==
    ASSUME NEW sc \in Seq(Script), NEW E, IsHope(E, sc), NEW k \in 0 .. Len(sc)
    PROVE  Hopeful(E[k], k)
<1> DEFINE N == Len(sc)
           U == {n \in Nat : n <= N => Hopeful(E[n], n)}
<1>1. N \in Nat
  OBVIOUS
<1>2. 0 \in U
  <2>1. E[0] = NoHope
    BY DEF IsHope
  <2>2. Hopeful(NoHope, 0)
    BY DEF Hopeful, NoHope, ToSet
  <2> QED
    BY <2>1, <2>2
<1>3. ASSUME NEW n \in U PROVE n + 1 \in U
  <2>1. CASE n + 1 <= N
    <3>1. n \in Nat /\ n \in 0 .. N /\ n + 1 \in 1 .. N /\ (n + 1) - 1 = n /\ Hopeful(E[n], n)
      BY <1>1, <2>1
    <3>2. E[n] \in Hopes /\ HopeGoes(E[(n + 1) - 1], E[n + 1], sc[n + 1], n + 1)
      BY <3>1 DEF IsHope
    <3> DEFINE e == E[n]
               d == E[n + 1]
               c == sc[n + 1]
    <3>3. e \in Hopes /\ HopeGoes(e, d, c, n + 1) /\ Hopeful(e, n)
      BY <3>1, <3>2
    <3> HIDE DEF e, d, c
    <3>4. Hopeful(d, n + 1)
      BY <3>1, <3>3, HopeStep
    <3> QED
      BY <3>1, <3>4 DEF d
  <2> QED
    BY <2>1
<1>4. U = Nat
  <2>1. U \in SUBSET Nat
    OBVIOUS
  <2> HIDE DEF U
  <2> QED
    BY <1>2, <1>3, <2>1, NatSet
<1>5. k \in U /\ k <= N
  BY <1>1, <1>4
<1> QED
  BY <1>5

(* The hopes only grow.                                                    *)
LEMMA HopeGrows ==
    ASSUME NEW sc \in Seq(Script), NEW E, IsHope(E, sc), NEW k \in 0 .. Len(sc)
    PROVE  Grown(E[k], E[Len(sc)], k)
<1> DEFINE N == Len(sc)
           U == {n \in Nat : k + n <= N => Grown(E[k], E[k + n], k)}
<1>1. N \in Nat /\ k \in Nat /\ k <= N
  OBVIOUS
<1>2. 0 \in U
  <2>1. E[k] \in Hopes /\ k + 0 = k
    BY <1>1 DEF IsHope
  <2>2. Len(E[k].ids) \in Nat
    BY <2>1 DEF Hopes
  <2>3. Grown(E[k], E[k], k)
    BY <2>2 DEF Grown
  <2> QED
    BY <2>1, <2>3
<1>3. ASSUME NEW n \in U PROVE n + 1 \in U
  <2>1. CASE k + (n + 1) <= N
    <3> DEFINE m == k + n
    <3>1. n \in Nat /\ m \in Nat /\ m \in 0 .. N /\ m + 1 \in 1 .. N /\ (m + 1) - 1 = m
          /\ k + (n + 1) = m + 1 /\ k <= m
      BY <1>1, <2>1
    <3>2. Grown(E[k], E[m], k)
      BY <3>1
    <3> DEFINE e == E[m]
               d == E[m + 1]
               c == sc[m + 1]
               x == E[k]
    <3> HIDE DEF m
    <3>3. e \in Hopes /\ HopeGoes(e, d, c, m + 1) /\ Hopeful(e, m) /\ x \in Hopes
      BY <3>1, HopeBounds DEF IsHope
    <3>4. Grown(x, e, k)
      BY <3>2
    <3> HIDE DEF e, d, c, x
    <3>5. Grown(e, d, m) /\ d \in Hopes
      BY <3>1, <3>3, HopeStep DEF HopeGoes
    <3>6. Len(x.ids) \in Nat /\ Len(e.ids) \in Nat /\ Len(d.ids) \in Nat
      BY <3>3, <3>5 DEF Hopes
    <3>7. Len(x.ids) <= Len(d.ids)
      BY <3>4, <3>5, <3>6 DEF Grown
    <3>8. ASSUME NEW i \in 1 .. Len(x.ids) PROVE d.ids[i] = x.ids[i]
      <4>1. i \in 1 .. Len(e.ids)
        BY <3>4, <3>6 DEF Grown
      <4> QED
        BY <3>4, <3>5, <4>1 DEF Grown
    <3>9. ASSUME NEW b \in ToSet(d.batches), b[2] <= k PROVE b \in ToSet(x.batches)
      <4>1. b \in Nat \X Nat
        <5>1. d.batches \in Seq(Nat \X Nat)
          BY <3>5 DEF Hopes
        <5> QED
          BY <5>1 DEF ToSet
      <4>2. b[2] <= m
        BY <1>1, <3>1, <3>9, <4>1
      <4> QED
        BY <3>4, <3>5, <3>9, <4>2 DEF Grown
    <3>10. Grown(x, d, k)
      BY <3>7, <3>8, <3>9 DEF Grown
    <3> QED
      BY <3>1, <3>10 DEF x, d
  <2> QED
    BY <2>1
<1>4. U = Nat
  <2>1. U \in SUBSET Nat
    OBVIOUS
  <2> HIDE DEF U
  <2> QED
    BY <1>2, <1>3, <2>1, NatSet
<1> DEFINE n == N - k
<1>5. n \in Nat /\ k + n = N
  BY <1>1
<1> HIDE DEF n, N
<1>6. n \in U
  <2> HIDE DEF U
  <2> QED
    BY <1>4, <1>5
<1>7. Grown(E[k], E[k + n], k)
  BY <1>1, <1>5, <1>6
<1> QED
  BY <1>5, <1>7 DEF N

-----------------------------------------------------------------------------
(* The report of a batch                                                   *)

\* The i-th of a set of commands.
Ranked(bad, i) == CHOOSE x \in bad : Cardinality({y \in bad : y < x}) = i - 1

\* The lines about the commands bad of the batch that command s began.
Listed(bad, s) ==
    [i \in 1 .. Cardinality(bad) |-> Line("error", Ranked(bad, i), Ranked(bad, i) - s)]

\* The lines about the commands between s and e, of which fl failed.
Report(fl, s, e) == Listed(fl \cap (s + 1) .. (e - 1), s)

(* The ranks in a set that gets a larger element.                          *)
LEMMA RankedGrows ==
    ASSUME NEW bad \in SUBSET Nat, IsFiniteSet(bad), NEW m \in Nat, \A x \in bad : x < m,
           NEW i \in 1 .. Cardinality(bad) + 1
    PROVE  Ranked(bad \cup {m}, i) = IF i = Cardinality(bad) + 1 THEN m ELSE Ranked(bad, i)
<1> DEFINE n == Cardinality(bad)
           new == bad \cup {m}
           Below(S, x) == {y \in S : y < x}
<1>1. n \in Nat
  BY FS_CardinalityType
<1>2. Below(new, m) = bad
  <2>1. ASSUME NEW y PROVE y \in Below(new, m) <=> y \in bad
    <3>1. ~(m < m)
      OBVIOUS
    <3> QED
      BY <3>1
  <2> QED
    BY <2>1
<1>3. ASSUME NEW x \in bad PROVE Below(new, x) = Below(bad, x)
  <2>1. ~(m < x)
    OBVIOUS
  <2> QED
    BY <2>1
<1>4. ASSUME NEW x \in bad
      PROVE  Cardinality(Below(bad, x)) \in Nat /\ Cardinality(Below(bad, x)) < n
  <2>1. IsFiniteSet(bad \ {x}) /\ Cardinality(bad \ {x}) = n - 1
    BY FS_RemoveElement
  <2>2. Below(bad, x) \in SUBSET (bad \ {x})
    OBVIOUS
  <2> HIDE DEF Below
  <2>3. IsFiniteSet(Below(bad, x)) /\ Cardinality(Below(bad, x)) <= n - 1
    BY <2>1, <2>2, FS_Subset
  <2>4. Cardinality(Below(bad, x)) \in Nat
    BY <2>3, FS_CardinalityType
  <2> QED
    BY <1>1, <2>3, <2>4
<1> DEFINE P(x) == x \in new /\ Cardinality(Below(new, x)) = i - 1
           Q(x) == x \in bad /\ Cardinality(Below(bad, x)) = i - 1
<1>5. Ranked(new, i) = CHOOSE x : P(x)
  BY DEF Ranked
<1>6. Ranked(bad, i) = CHOOSE x : Q(x)
  BY DEF Ranked
<1>7. CASE i = n + 1
  <2>1. P(m)
    <3> HIDE DEF Below
    <3> QED
      BY <1>1, <1>2, <1>7
  <2>2. ASSUME NEW x, P(x) PROVE x = m
    <3>1. CASE x \in bad
      <4>1. Cardinality(Below(bad, x)) = i - 1
        BY <1>3, <2>2, <3>1
      <4> HIDE DEF Below
      <4> QED
        BY <1>1, <1>4, <1>7, <3>1, <4>1
    <3> QED
      BY <2>2, <3>1
  <2> HIDE DEF P
  <2>3. (CHOOSE x : P(x)) = m
    BY <2>1, <2>2
  <2>4. Ranked(new, i) = m
    BY <1>5, <2>3
  <2> QED
    BY <1>7, <2>4
<1>8. CASE i # n + 1
  <2>1. ASSUME NEW x PROVE P(x) <=> Q(x)
    <3>1. CASE x \in bad
      BY <1>3, <3>1
    <3>2. CASE x = m
      <4>1. ~(m \in bad)
        OBVIOUS
      <4>2. Cardinality(Below(new, m)) = n
        <5> HIDE DEF Below
        <5> QED
          BY <1>2
      <4> HIDE DEF Below, n
      <4>3. ~P(m)
        BY <1>1, <1>8, <4>2
      <4> QED
        BY <3>2, <4>1, <4>3
    <3>3. CASE x \notin bad /\ x # m
      BY <3>3
    <3> QED
      BY <3>1, <3>2, <3>3
  <2> HIDE DEF P, Q
  <2>2. (CHOOSE x : P(x)) = (CHOOSE x : Q(x))
    BY <2>1, Zenon
  <2> QED
    BY <1>5, <1>6, <1>8, <2>2
<1> QED
  BY <1>7, <1>8

(* One more command fails.                                                 *)
LEMMA ListedGrows ==
    ASSUME NEW bad \in SUBSET Nat, IsFiniteSet(bad), NEW m \in Nat, \A x \in bad : x < m, NEW s
    PROVE  Listed(bad \cup {m}, s) = Append(Listed(bad, s), Line("error", m, m - s))
<1> DEFINE n == Cardinality(bad)
           u == Listed(bad \cup {m}, s)
           w == Listed(bad, s)
           z == Line("error", m, m - s)
           v == Append(w, z)
           F(i) == Line("error", Ranked(bad, i), Ranked(bad, i) - s)
<1>1. n \in Nat /\ Cardinality(bad \cup {m}) = n + 1
  <2>1. m \notin bad
    OBVIOUS
  <2> QED
    BY <2>1, FS_CardinalityType, FS_AddElement
<1>2. w = [i \in 1 .. n |-> F(i)]
  BY DEF Listed
<1>3. u = [i \in 1 .. n + 1 |-> Line("error", Ranked(bad \cup {m}, i), Ranked(bad \cup {m}, i) - s)]
  BY <1>1 DEF Listed
<1>4. ASSUME NEW i \in 1 .. n + 1 PROVE u[i] = IF i = n + 1 THEN z ELSE F(i)
  <2>1. Ranked(bad \cup {m}, i) = IF i = n + 1 THEN m ELSE Ranked(bad, i)
    BY RankedGrows
  <2>2. u[i] = Line("error", Ranked(bad \cup {m}, i), Ranked(bad \cup {m}, i) - s)
    BY <1>3
  <2> HIDE DEF u, n
  <2> QED
    BY <2>1, <2>2
<1> HIDE DEF u, z, n, F
<1>5. u = [i \in 1 .. n + 1 |-> IF i = n + 1 THEN z ELSE F(i)]
  <2>1. u = [i \in 1 .. n + 1 |-> u[i]]
    BY <1>3
  <2> QED
    BY <1>4, <2>1
<1>6. v = [i \in 1 .. n + 1 |-> IF i = n + 1 THEN z ELSE F(i)]
  <2> DEFINE T == {F(i) : i \in 1 .. n} \cup {z}
  <2>1. w \in Seq(T) /\ z \in T /\ Len(w) = n /\ \A i \in 1 .. n : w[i] = F(i)
    BY <1>1, <1>2
  <2> HIDE DEF T, w
  <2>2. v \in Seq(T) /\ Len(v) = n + 1 /\ (\A i \in 1 .. n : v[i] = w[i]) /\ v[n + 1] = z
    BY <1>1, <2>1
  <2> HIDE DEF v
  <2>3. v = [i \in 1 .. n + 1 |-> v[i]]
    BY <2>2
  <2>4. ASSUME NEW i \in 1 .. n + 1 PROVE v[i] = IF i = n + 1 THEN z ELSE F(i)
    <3>1. CASE i = n + 1
      BY <2>2, <3>1
    <3>2. CASE i # n + 1
      <4>1. i \in 1 .. n
        BY <1>1, <3>2
      <4> QED
        BY <2>1, <2>2, <3>2, <4>1
    <3> QED
      BY <3>1, <3>2
  <2> QED
    BY <2>3, <2>4
<1> QED
  BY <1>5, <1>6 DEF u, v, w, z

\* What the next command does to a report.
ReportGoes(fl, s, k) ==
    /\ Report(fl, s, k + 2) = Report(fl, s, k + 1)
    /\ Report(fl \cup {k + 1}, s, k + 2)
         = Append(Report(fl, s, k + 1), Line("error", k + 1, (k + 1) - s))

(* The report of a batch that goes on.                                     *)
LEMMA ReportGrows ==
    ASSUME NEW k \in Nat, NEW s \in 0 .. k, NEW fl \in SUBSET (1 .. k)
    PROVE  ReportGoes(fl, s, k)
<1> DEFINE bad == fl \cap (s + 1) .. ((k + 1) - 1)
<1>1. fl \cap (s + 1) .. ((k + 2) - 1) = bad
  OBVIOUS
<1>2. (fl \cup {k + 1}) \cap (s + 1) .. ((k + 2) - 1) = bad \cup {k + 1}
  OBVIOUS
<1>3. bad \in SUBSET Nat /\ bad \in SUBSET (1 .. k) /\ k + 1 \in Nat
  OBVIOUS
<1>4. \A x \in bad : x < k + 1
  BY <1>3
<1> HIDE DEF bad
<1>5. IsFiniteSet(bad)
  <2>1. IsFiniteSet(1 .. k)
    BY FS_Interval
  <2> QED
    BY <1>3, <2>1, FS_Subset
<1> DEFINE m == k + 1
<1> HIDE DEF m
<1>6. Listed(bad \cup {m}, s) = Append(Listed(bad, s), Line("error", m, m - s))
  BY <1>3, <1>4, <1>5, ListedGrows DEF m
<1>7. Report(fl, s, k + 2) = Listed(bad, s) /\ Report(fl, s, k + 1) = Listed(bad, s)
  BY <1>1 DEF Report, bad
<1>8. Report(fl \cup {k + 1}, s, k + 2) = Listed(bad \cup {m}, s)
  BY <1>2 DEF Report, m
<1> QED
  BY <1>6, <1>7, <1>8 DEF ReportGoes, m

(* The report of a batch that has ended.                                   *)
LEMMA ReportStays ==
    ASSUME NEW k \in Nat, NEW s \in Nat, NEW e \in 0 .. k + 1, NEW fl
    PROVE  Report(fl \cup {k + 1}, s, e) = Report(fl, s, e)
<1>1. (fl \cup {k + 1}) \cap (s + 1) .. (e - 1) = fl \cap (s + 1) .. (e - 1)
  OBVIOUS
<1> QED
  BY <1>1 DEF Report

(* The report of a batch that begins.                                      *)
LEMMA ReportBegins ==
    ASSUME NEW k \in Nat, NEW fl
    PROVE  Report(fl, k, k + 1) = <<>>
<1>1. fl \cap (k + 1) .. ((k + 1) - 1) = {}
  OBVIOUS
<1>2. Cardinality({}) = 0
  BY FS_EmptySet
<1>3. Listed({}, k) = <<>>
  BY <1>2 DEF Listed
<1> QED
  BY <1>1, <1>3 DEF Report

-----------------------------------------------------------------------------
(* What handle_request does for a script                                   *)

ScriptConns == [open : BOOLEAN, peer : BOOLEAN, in : Seq(ScriptUnits), rbuf : Seq(ScriptUnits),
                batch : BOOLEAN, cmds : Nat, wbuf : Seq(Texts), out : Seq(Texts)]

\* The stream is not touched.
SameStream(c, x) == x.open = c.open /\ x.peer = c.peer /\ x.in = c.in /\ x.rbuf = c.rbuf

\* The connection is closed and nothing more is written.
Shut(c, x) == x \in ScriptConns /\ ~x.open /\ x.out = c.out

\* An answer with the lines given is written.
Wrote(c, x, id, lines) ==
    \E a : IsReply(a) /\ a.id = id /\ a.lines = lines /\ x.out = c.out \o Block(a)

(* A HELP answer has a number of lines.                                    *)
LEMMA HelpLines == Cardinality(HasSyntax) \in Nat
<1> DEFINE A == {"UPDATE", "WROTE", "FLUSH"}
           B == {"FLUSHALL", "PENDING", "FORGET"}
           C == {"QUEUE", "STATS", "HELP"}
           D == {"BATCH", ".", "QUIT"}
<1>1. ASSUME NEW x, NEW y, NEW z PROVE IsFiniteSet({x, y, z})
  <2>1. IsFiniteSet({x})
    BY FS_Singleton
  <2>2. IsFiniteSet({x} \cup {y})
    BY <2>1, FS_AddElement, Zenon
  <2>3. IsFiniteSet(({x} \cup {y}) \cup {z})
    BY <2>2, FS_AddElement, Zenon
  <2>4. ({x} \cup {y}) \cup {z} = {x, y, z}
    OBVIOUS
  <2> QED
    BY <2>3, <2>4
<1>2. IsFiniteSet(A) /\ IsFiniteSet(B) /\ IsFiniteSet(C) /\ IsFiniteSet(D)
  BY <1>1
<1>3. Known = (A \cup B) \cup (C \cup D)
  BY DEF Known
<1> HIDE DEF A, B, C, D
<1>4. IsFiniteSet(A \cup B) /\ IsFiniteSet(C \cup D)
  BY <1>2, FS_Union, Zenon
<1>5. IsFiniteSet((A \cup B) \cup (C \cup D))
  BY <1>4, FS_Union, Zenon
<1>6. HasSyntax \in SUBSET Known
  BY DEF HasSyntax
<1>7. IsFiniteSet(HasSyntax)
  BY <1>3, <1>5, <1>6, FS_Subset
<1> QED
  BY <1>7, FS_CardinalityType

(* The fields of a connection.                                             *)
LEMMA ConnFields ==
    ASSUME NEW c \in ScriptConns
    PROVE  /\ c.open \in BOOLEAN /\ c.peer \in BOOLEAN /\ c.in \in Seq(ScriptUnits)
           /\ c.rbuf \in Seq(ScriptUnits) /\ c.batch \in BOOLEAN /\ c.cmds \in Nat
           /\ c.wbuf \in Seq(Texts) /\ c.out \in Seq(Texts)
BY DEF ScriptConns

(* Writing one field.                                                      *)
LEMMA FieldsWritten ==
    ASSUME NEW c \in ScriptConns, NEW u \in Seq(ScriptUnits), NEW w \in Seq(Texts)
    PROVE  /\ LET x == [c EXCEPT !.in = u] IN
              x \in ScriptConns /\ x.open = c.open /\ x.out = c.out
           /\ LET x == [c EXCEPT !.rbuf = u] IN
              x \in ScriptConns /\ x.open = c.open /\ x.out = c.out
           /\ LET x == [c EXCEPT !.wbuf = w] IN
              /\ x \in ScriptConns /\ SameStream(c, x) /\ x.batch = c.batch
              /\ x.cmds = c.cmds /\ x.out = c.out /\ x.wbuf = w
<1> DEFINE a == [c EXCEPT !.in = u]
           b == [c EXCEPT !.rbuf = u]
           d == [c EXCEPT !.wbuf = w]
<1>1. a \in ScriptConns /\ a.open = c.open /\ a.out = c.out
  BY DEF ScriptConns
<1>2. b \in ScriptConns /\ b.open = c.open /\ b.out = c.out
  BY DEF ScriptConns
<1>3. d \in ScriptConns /\ d.batch = c.batch /\ d.cmds = c.cmds /\ d.out = c.out /\ d.wbuf = w
  BY DEF ScriptConns
<1>4. SameStream(c, d)
  BY DEF ScriptConns, SameStream
<1> QED
  BY <1>1, <1>2, <1>3, <1>4

\* x is c but for the answer.
Replied(c, x, id, rc) ==
    /\ x \in ScriptConns /\ SameStream(c, x) /\ x.batch = FALSE /\ x.cmds = c.cmds
    /\ x.wbuf = <<>> /\ Wrote(c, x, id, IF rc = 0 THEN c.wbuf ELSE <<>>)

(* send_response outside a batch.                                          *)
LEMMA RepliedIs ==
    ASSUME NEW c \in ScriptConns, ~c.batch, NEW id \in Nat, NEW rc \in {0, -1}
    PROVE  Replied(c, SendResponse(c, id, rc), id, rc)
<1> DEFINE w == IF rc = 0 THEN c.wbuf ELSE <<>>
           st == IF rc = 0 THEN Len(c.wbuf) ELSE -1
           a == [id |-> id, kind |-> "status", status |-> st, lines |-> w]
           u == <<Line("status", id, st)>>
           o == (c.out \o u) \o w
           x == SendResponse(c, id, rc)
<1>1. c.wbuf \in Seq(Texts) /\ c.out \in Seq(Texts) /\ Len(c.wbuf) \in Nat
  BY ConnFields
<1>2. w \in Seq(Texts) /\ st \in Int /\ (st = Len(w) \/ (st = -1 /\ w = <<>>))
  BY <1>1
<1>3. x = [c EXCEPT !.wbuf = <<>>, !.out = o]
  BY DEF SendResponse
<1> HIDE DEF w, st, x
<1>4. IsReply(a) /\ a.id = id /\ a.lines = w /\ a.kind = "status" /\ a.status = st
  BY <1>2 DEF IsReply, Replies
<1>5. Line("status", id, st) \in Texts
  BY <1>2 DEF Texts, Line
<1>6. u \in Seq(Texts)
  BY <1>5
<1>7. Block(a) = u \o w
  BY <1>4 DEF Block
<1> HIDE DEF u, a
<1>8. o = c.out \o Block(a) /\ o \in Seq(Texts)
  <2>1. ASSUME NEW p \in Seq(Texts), NEW q \in Seq(Texts), NEW r \in Seq(Texts)
        PROVE  (p \o q) \o r = p \o (q \o r)
    OBVIOUS
  <2>2. ASSUME NEW p \in Seq(Texts), NEW q \in Seq(Texts), NEW r \in Seq(Texts)
        PROVE  (p \o q) \o r \in Seq(Texts)
    <3>1. p \o q \in Seq(Texts)
      BY CatIs DEF IsCat
    <3> QED
      BY <3>1, CatIs DEF IsCat
  <2> DEFINE p == c.out
  <2>3. p \in Seq(Texts)
    BY <1>1
  <2> HIDE DEF p
  <2>4. (p \o u) \o w = p \o (u \o w)
    BY <1>2, <1>6, <2>1, <2>3
  <2>5. (p \o u) \o w \in Seq(Texts)
    BY <1>2, <1>6, <2>2, <2>3
  <2> QED
    BY <1>7, <2>4, <2>5 DEF p
<1> HIDE DEF o
<1> DEFINE y == [c EXCEPT !.wbuf = <<>>]
<1>9. /\ y \in ScriptConns /\ SameStream(c, y) /\ y.batch = c.batch /\ y.cmds = c.cmds
      /\ y.wbuf = <<>>
  <2>1. <<>> \in Seq(Texts) /\ <<>> \in Seq(ScriptUnits)
    OBVIOUS
  <2> QED
    BY <2>1, FieldsWritten
<1>10. x = [y EXCEPT !.out = o]
  BY <1>3
<1> HIDE DEF y
<1>11. /\ x \in ScriptConns /\ SameStream(y, x) /\ x.batch = y.batch /\ x.cmds = y.cmds
       /\ x.wbuf = y.wbuf /\ x.out = o
  BY <1>8, <1>9, <1>10 DEF ScriptConns, SameStream
<1>12. x.batch = FALSE /\ SameStream(c, x)
  BY <1>9, <1>11, ConnFields DEF SameStream
<1>13. Wrote(c, x, id, w)
  BY <1>4, <1>8, <1>11 DEF Wrote
<1> QED
  BY <1>9, <1>11, <1>12, <1>13 DEF Replied, x, w

\* x is c but for the error of a batch.
Noted(c, x, id, rc) ==
    /\ x \in ScriptConns /\ SameStream(c, x) /\ x.batch = TRUE /\ x.cmds = c.cmds
    /\ x.out = c.out
    /\ x.wbuf = IF rc = 0 THEN c.wbuf ELSE Append(c.wbuf, Line("error", id, c.cmds))

(* send_response in a batch.                                               *)
LEMMA NotedIs ==
    ASSUME NEW c \in ScriptConns, c.batch, NEW id \in Nat, NEW rc \in {0, -1}
    PROVE  Noted(c, SendResponse(c, id, rc), id, rc)
<1>1. c.wbuf \in Seq(Texts) /\ c.cmds \in Nat /\ c.batch = TRUE
  BY ConnFields
<1>2. CASE rc = 0
  BY <1>1, <1>2 DEF SendResponse, Noted, SameStream
<1>3. CASE rc # 0
  <2> DEFINE l == Line("error", id, c.cmds)
             w == Append(c.wbuf, l)
             x == SendResponse(c, id, rc)
  <2>1. x = [c EXCEPT !.wbuf = w]
    BY <1>3 DEF SendResponse
  <2>2. l \in Texts
    BY <1>1 DEF Texts, Line
  <2> HIDE DEF l
  <2>3. w \in Seq(Texts)
    BY <1>1, <2>2
  <2> HIDE DEF w, x
  <2>4. /\ x \in ScriptConns /\ SameStream(c, x) /\ x.batch = c.batch /\ x.cmds = c.cmds
        /\ x.out = c.out /\ x.wbuf = w
    BY <2>1, <2>3 DEF ScriptConns, SameStream
  <2> QED
    BY <1>1, <1>3, <2>4 DEF Noted, x, w, l
<1> QED
  BY <1>2, <1>3

(* add_response_info.                                                      *)
LEMMA InfoIs ==
    ASSUME NEW c \in ScriptConns, NEW id \in Nat, NEW n \in Nat
    PROVE  LET x == AddResponseInfo(c, id, n) IN
           /\ x \in ScriptConns /\ SameStream(c, x) /\ x.batch = c.batch /\ x.cmds = c.cmds
           /\ x.out = c.out /\ (c.batch => x = c)
<1> DEFINE x == AddResponseInfo(c, id, n)
           g == [i \in 1 .. n |-> Line("info", id, i)]
           w == c.wbuf \o g
<1>1. CASE c.batch
  BY <1>1 DEF AddResponseInfo, SameStream
<1>2. CASE ~c.batch
  <2>1. x = [c EXCEPT !.wbuf = w]
    BY <1>2 DEF AddResponseInfo
  <2>2. c.wbuf \in Seq(Texts)
    BY ConnFields
  <2>3. g \in Seq(Texts)
    <3>1. \A i \in 1 .. n : Line("info", id, i) \in Texts
      BY DEF Texts, Line
    <3> QED
      BY <3>1
  <2> HIDE DEF g
  <2>4. w \in Seq(Texts)
    BY <2>2, <2>3
  <2> HIDE DEF w, x
  <2>5. /\ x \in ScriptConns /\ SameStream(c, x) /\ x.batch = c.batch /\ x.cmds = c.cmds
        /\ x.out = c.out
    BY <2>1, <2>4 DEF ScriptConns, SameStream
  <2> QED
    BY <1>2, <2>5 DEF x
<1> QED
  BY <1>1, <1>2

(* close_connection.                                                       *)
LEMMA ShutIs ==
    ASSUME NEW c \in ScriptConns
    PROVE  Shut(c, Closed(c))
<1> DEFINE a == [c EXCEPT !.open = FALSE]
           b == [a EXCEPT !.in = <<>>]
           d == [b EXCEPT !.rbuf = <<>>]
           e == [d EXCEPT !.wbuf = <<>>]
<1>1. a \in ScriptConns /\ a.open = FALSE /\ a.out = c.out
  BY DEF ScriptConns
<1>2. Closed(c) = e
  BY DEF Closed
<1>0. <<>> \in Seq(Texts) /\ <<>> \in Seq(ScriptUnits)
  OBVIOUS
<1> HIDE DEF a
<1>3. b \in ScriptConns /\ b.open = FALSE /\ b.out = c.out
  BY <1>0, <1>1, FieldsWritten
<1> HIDE DEF b
<1>4. d \in ScriptConns /\ d.open = FALSE /\ d.out = c.out
  BY <1>0, <1>3, FieldsWritten
<1> HIDE DEF d
<1>5. e \in ScriptConns /\ e.open = FALSE /\ e.out = c.out
  BY <1>0, <1>4, FieldsWritten DEF SameStream
<1> HIDE DEF e
<1> QED
  BY <1>2, <1>5 DEF Shut

(* The answers of the handlers.                                            *)
LEMMA OutcomesAre ==
    ASSUME NEW name \in Known \ {"BATCH", ".", "QUIT", "WROTE"}, NEW o \in Outcomes(name)
    PROVE  o[1] \in {0, -1} /\ o[2] \in Nat
<1>1. MaxInfo \in Nat
  BY ClientAssumption
<1>2. CASE name \in {"UPDATE", "FLUSH", "FORGET"}
  BY <1>2 DEF Outcomes
<1>3. CASE name = "FLUSHALL"
  BY <1>3 DEF Outcomes
<1>4. CASE name = "PENDING"
  BY <1>1, <1>4 DEF Outcomes
<1>5. CASE name = "QUEUE"
  BY <1>1, <1>5 DEF Outcomes
<1>6. CASE name = "STATS"
  BY <1>6, StatsLines DEF Outcomes
<1>7. CASE name = "HELP"
  BY <1>7, HelpLines DEF Outcomes
<1> QED
  BY <1>2, <1>3, <1>4, <1>5, <1>6, <1>7 DEF Known

\* The results of a command outside a batch: the connection is closed, or one
\* answer is written, and BATCH begins a batch.
HandlesOut(c, r, id, name) ==
    \/ Shut(c, r.conn) /\ r.rc = 0
    \/ /\ name # "QUIT" /\ r.conn \in ScriptConns /\ SameStream(c, r.conn) /\ r.conn.wbuf = <<>>
       /\ r.conn.batch = (name = "BATCH" /\ name \in Permissions)
       /\ r.conn.batch => r.conn.cmds = 0 /\ r.rc = 0
       /\ \E lines : Wrote(c, r.conn, id, lines)

(* handle_request outside a batch.                                         *)
LEMMA HandlesOutside ==
    ASSUME NEW c \in ScriptConns, ~c.batch, c.wbuf = <<>>, NEW id \in Nat, NEW name,
           NEW r \in HandleRequest(c, id, name)
    PROVE  HandlesOut(c, r, id, name)
<1>1. CountCommand(c) = c
  BY DEF CountCommand
<1> DEFINE Bad == \/ name \notin Known
                  \/ ~PermissionCheck(name)
                  \/ "client" \notin Contexts(name)
<1>2. CASE Bad
  <2>1. r = Result(SendResponse(c, id, -1), -1)
    BY <1>1, <1>2 DEF HandleRequest
  <2> DEFINE x == SendResponse(c, id, -1)
  <2>2. Replied(c, x, id, -1)
    BY RepliedIs
  <2>3. name # "QUIT" /\ ~(name = "BATCH" /\ name \in Permissions)
    BY <1>2 DEF Known, PermissionCheck, Contexts
  <2>4. r.conn = x
    BY <2>1 DEF Result
  <2> HIDE DEF x
  <2>5. /\ x \in ScriptConns /\ SameStream(c, x) /\ x.batch = FALSE /\ x.wbuf = <<>>
        /\ \E lines : Wrote(c, x, id, lines)
    BY <2>2 DEF Replied
  <2>6. (name = "BATCH" /\ name \in Permissions) = FALSE
    BY <2>3
  <2> QED
    BY <2>3, <2>4, <2>5, <2>6 DEF HandlesOut
<1>3. CASE ~Bad /\ name = "BATCH"
  <2> DEFINE y == SendResponse(c, id, 0)
             z == [y EXCEPT !.batch = TRUE]
             x == [z EXCEPT !.cmds = 0]
  <2>1. r = Result([y EXCEPT !.batch = TRUE, !.cmds = 0], 0)
    BY <1>1, <1>3 DEF HandleRequest
  <2>2. r.conn = x /\ r.rc = 0
    BY <2>1 DEF Result
  <2>3. name \in Permissions
    BY <1>3 DEF PermissionCheck
  <2>4. Replied(c, y, id, 0)
    BY RepliedIs
  <2> HIDE DEF y
  <2>5. /\ y \in ScriptConns /\ SameStream(c, y) /\ y.wbuf = <<>>
        /\ \E lines : Wrote(c, y, id, lines)
    BY <2>4 DEF Replied
  <2>6. /\ z \in ScriptConns /\ SameStream(y, z) /\ z.wbuf = y.wbuf /\ z.batch = TRUE
        /\ z.out = y.out
    BY <2>5 DEF ScriptConns, SameStream
  <2> HIDE DEF z
  <2>7. /\ x \in ScriptConns /\ SameStream(z, x) /\ x.wbuf = z.wbuf /\ x.batch = TRUE
        /\ x.cmds = 0 /\ x.out = z.out
    BY <2>6 DEF ScriptConns, SameStream
  <2> HIDE DEF x
  <2>8. SameStream(c, x) /\ x.wbuf = <<>> /\ \E lines : Wrote(c, x, id, lines)
    BY <2>5, <2>6, <2>7 DEF SameStream, Wrote
  <2>9. (name = "BATCH" /\ name \in Permissions) = TRUE /\ name # "QUIT"
    BY <1>3, <2>3
  <2> QED
    BY <2>2, <2>7, <2>8, <2>9 DEF HandlesOut
<1>4. CASE ~Bad /\ name = "QUIT"
  <2>1. r = Result(Closed(c), 0)
    BY <1>1, <1>4 DEF HandleRequest
  <2>2. r.conn = Closed(c) /\ r.rc = 0
    BY <2>1 DEF Result
  <2> QED
    BY <2>2, ShutIs DEF HandlesOut
<1>5. CASE ~Bad /\ name \notin {"BATCH", "QUIT"}
  <2>1. name \in Known \ {"BATCH", ".", "QUIT", "WROTE"}
    BY <1>5 DEF Contexts
  <2>2. r \in {Result(SendResponse(AddResponseInfo(c, id, o[2]), id, o[1]), o[1]) :
                    o \in Outcomes(name)}
              \cup IF name = "UPDATE" THEN {Result(Closed(c), 0)} ELSE {}
    BY <1>1, <1>5, <2>1 DEF HandleRequest
  <2>3. CASE r = Result(Closed(c), 0)
    <3>1. r.conn = Closed(c) /\ r.rc = 0
      BY <2>3 DEF Result
    <3> QED
      BY <3>1, ShutIs DEF HandlesOut
  <2>4. CASE r # Result(Closed(c), 0)
    <3>1. PICK o \in Outcomes(name) :
             r = Result(SendResponse(AddResponseInfo(c, id, o[2]), id, o[1]), o[1])
      BY <2>2, <2>4
    <3>2. o[1] \in {0, -1} /\ o[2] \in Nat
      BY <2>1, OutcomesAre
    <3> DEFINE rc == o[1]
               n == o[2]
               y == AddResponseInfo(c, id, n)
               x == SendResponse(y, id, rc)
    <3>3. r.conn = x
      BY <3>1 DEF Result
    <3> HIDE DEF rc, n
    <3>4. rc \in {0, -1} /\ n \in Nat
      BY <3>2 DEF rc, n
    <3>5. y \in ScriptConns /\ SameStream(c, y) /\ y.batch = c.batch /\ y.out = c.out
      BY <3>4, InfoIs
    <3> HIDE DEF y
    <3>6. ~y.batch
      BY <3>5
    <3>7. Replied(y, x, id, rc)
      BY <3>4, <3>5, <3>6, RepliedIs
    <3> HIDE DEF x
    <3>8. /\ x \in ScriptConns /\ SameStream(y, x) /\ x.batch = FALSE /\ x.wbuf = <<>>
          /\ \E lines : Wrote(y, x, id, lines)
      BY <3>7 DEF Replied
    <3>9. SameStream(c, x) /\ \E lines : Wrote(c, x, id, lines)
      BY <3>5, <3>8 DEF SameStream, Wrote
    <3>10. (name = "BATCH" /\ name \in Permissions) = FALSE /\ name # "QUIT"
      BY <1>5
    <3> QED
      BY <3>3, <3>8, <3>9, <3>10 DEF HandlesOut
  <2> QED
    BY <2>3, <2>4
<1> QED
  BY <1>2, <1>3, <1>4, <1>5

\* The results of a command of a batch: the connection is closed, the dot ends
\* the batch with an answer, or the command is counted and its error noted.
HandlesIn(c, r, id, name) ==
    \/ Shut(c, r.conn) /\ r.rc = 0
    \/ /\ name = "." /\ r.conn \in ScriptConns /\ SameStream(c, r.conn) /\ r.conn.wbuf = <<>>
       /\ r.conn.batch = FALSE /\ r.rc = 0 /\ Wrote(c, r.conn, id, c.wbuf)
    \/ /\ name \notin {".", "QUIT"} /\ r.conn \in ScriptConns /\ SameStream(c, r.conn)
       /\ r.conn.batch = TRUE /\ r.conn.cmds = c.cmds + 1 /\ r.conn.out = c.out
       /\ \/ r.rc = 0 /\ r.conn.wbuf = c.wbuf
          \/ r.rc # 0 /\ r.conn.wbuf = Append(c.wbuf, Line("error", id, c.cmds + 1))

(* A command is noted.                                                     *)
LEMMA HandlesNoted ==
    ASSUME NEW c \in ScriptConns, NEW d \in ScriptConns, SameStream(c, d), d.batch,
           d.cmds = c.cmds + 1, d.wbuf = c.wbuf, d.out = c.out, NEW id \in Nat,
           NEW name, name \notin {".", "QUIT"}, NEW rc \in {0, -1}, NEW r,
           r = Result(SendResponse(d, id, rc), rc)
    PROVE  HandlesIn(c, r, id, name)
<1> DEFINE x == SendResponse(d, id, rc)
<1>1. Noted(d, x, id, rc)
  BY NotedIs
<1>2. r.conn = x /\ r.rc = rc
  BY DEF Result
<1> HIDE DEF x
<1>3. /\ x \in ScriptConns /\ SameStream(d, x) /\ x.batch = TRUE /\ x.cmds = c.cmds + 1
      /\ x.out = c.out
      /\ x.wbuf = IF rc = 0 THEN c.wbuf ELSE Append(c.wbuf, Line("error", id, c.cmds + 1))
  BY <1>1 DEF Noted
<1>4. SameStream(c, x)
  BY <1>3 DEF SameStream
<1>5. \/ rc = 0 /\ x.wbuf = c.wbuf
      \/ rc # 0 /\ x.wbuf = Append(c.wbuf, Line("error", id, c.cmds + 1))
  BY <1>3
<1> QED
  BY <1>2, <1>3, <1>4, <1>5 DEF HandlesIn

(* handle_request in a batch.                                              *)
LEMMA HandlesInside ==
    ASSUME NEW c \in ScriptConns, c.batch, "BATCH" \in Permissions, NEW id \in Nat, NEW name,
           NEW r \in HandleRequest(c, id, name)
    PROVE  HandlesIn(c, r, id, name)
<1> DEFINE d == CountCommand(c)
           Bad == \/ name \notin Known
                  \/ ~PermissionCheck(name)
                  \/ "batch" \notin Contexts(name)
<1>1. c.cmds \in Nat
  BY ConnFields
<1>2. /\ d \in ScriptConns /\ SameStream(c, d) /\ d.batch = c.batch /\ d.cmds = c.cmds + 1
      /\ d.wbuf = c.wbuf /\ d.out = c.out
  <2> DEFINE n == c.cmds + 1
  <2>1. d = [c EXCEPT !.cmds = n]
    BY DEF CountCommand
  <2>2. n \in Nat
    BY <1>1
  <2> HIDE DEF d, n
  <2>3. /\ d \in ScriptConns /\ SameStream(c, d) /\ d.batch = c.batch /\ d.cmds = n
        /\ d.wbuf = c.wbuf /\ d.out = c.out
    BY <2>1, <2>2 DEF ScriptConns, SameStream
  <2> QED
    BY <2>3 DEF n
<1>3. d.batch
  BY <1>2
<1>4. HandleRequest(c, id, name) =
        IF Bad THEN {Result(SendResponse(d, id, -1), -1)}
        ELSE CASE name = "BATCH" ->
                    {Result([SendResponse(d, id, 0) EXCEPT !.batch = TRUE, !.cmds = 0], 0)}
               [] name = "." ->
                    {Result(SendResponse([d EXCEPT !.batch = FALSE, !.cmds = 0], id, 0), 0)}
               [] name = "QUIT" -> {Result(Closed(d), 0)}
               [] OTHER ->
                    {Result(SendResponse(AddResponseInfo(d, id, o[2]), id, o[1]), o[1]) :
                        o \in Outcomes(name)}
                    \cup IF name = "UPDATE" THEN {Result(Closed(d), 0)} ELSE {}
  BY <1>3 DEF HandleRequest
<1> HIDE DEF d
<1>5. CASE Bad
  <2>1. r = Result(SendResponse(d, id, -1), -1)
    BY <1>4, <1>5
  <2>2. name \notin {".", "QUIT"}
    BY <1>5 DEF Known, PermissionCheck, Contexts
  <2> QED
    BY <1>2, <1>3, <2>1, <2>2, HandlesNoted
<1>6. CASE ~Bad /\ name = "QUIT"
  <2>1. r = Result(Closed(d), 0)
    BY <1>4, <1>6
  <2>2. r.conn = Closed(d) /\ r.rc = 0
    BY <2>1 DEF Result
  <2>3. Shut(c, Closed(d))
    BY <1>2, ShutIs DEF Shut
  <2> QED
    BY <2>2, <2>3 DEF HandlesIn
<1>7. CASE ~Bad /\ name = "."
  <2> DEFINE z == [d EXCEPT !.batch = FALSE]
             y == [z EXCEPT !.cmds = 0]
             x == SendResponse(y, id, 0)
  <2>1. r = Result(SendResponse([d EXCEPT !.batch = FALSE, !.cmds = 0], id, 0), 0)
    BY <1>4, <1>7
  <2>2. r.conn = x /\ r.rc = 0
    BY <2>1 DEF Result
  <2>3. /\ z \in ScriptConns /\ SameStream(d, z) /\ z.wbuf = d.wbuf /\ z.batch = FALSE
        /\ z.out = d.out
    BY <1>2 DEF ScriptConns, SameStream
  <2> HIDE DEF z
  <2>4. /\ y \in ScriptConns /\ SameStream(z, y) /\ y.wbuf = z.wbuf /\ y.batch = FALSE
        /\ y.out = z.out
    BY <2>3 DEF ScriptConns, SameStream
  <2> HIDE DEF y
  <2>5. Replied(y, x, id, 0)
    BY <2>4, RepliedIs
  <2> HIDE DEF x
  <2>6. /\ x \in ScriptConns /\ SameStream(y, x) /\ x.batch = FALSE /\ x.wbuf = <<>>
        /\ Wrote(y, x, id, y.wbuf)
    BY <2>5 DEF Replied
  <2>7. SameStream(c, x)
    BY <1>2, <2>3, <2>4, <2>6 DEF SameStream
  <2>8. Wrote(c, x, id, c.wbuf)
    BY <1>2, <2>3, <2>4, <2>6 DEF Wrote
  <2> QED
    BY <1>7, <2>2, <2>6, <2>7, <2>8 DEF HandlesIn
<1>8. CASE ~Bad /\ name \notin {".", "QUIT"}
  <2>1. name \in Known \ {"BATCH", ".", "QUIT", "WROTE"}
    BY <1>8 DEF Contexts
  <2>2. r \in {Result(SendResponse(AddResponseInfo(d, id, o[2]), id, o[1]), o[1]) :
                    o \in Outcomes(name)}
              \cup IF name = "UPDATE" THEN {Result(Closed(d), 0)} ELSE {}
    BY <1>4, <1>8, <2>1
  <2>3. CASE r = Result(Closed(d), 0)
    <3>1. r.conn = Closed(d) /\ r.rc = 0
      BY <2>3 DEF Result
    <3>2. Shut(c, Closed(d))
      BY <1>2, ShutIs DEF Shut
    <3> QED
      BY <3>1, <3>2 DEF HandlesIn
  <2>4. CASE r # Result(Closed(d), 0)
    <3>1. PICK o \in Outcomes(name) :
             r = Result(SendResponse(AddResponseInfo(d, id, o[2]), id, o[1]), o[1])
      BY <2>2, <2>4
    <3>2. o[1] \in {0, -1} /\ o[2] \in Nat
      BY <2>1, OutcomesAre
    <3> DEFINE rc == o[1]
    <3>3. AddResponseInfo(d, id, o[2]) = d
      BY <1>3 DEF AddResponseInfo
    <3>4. r = Result(SendResponse(d, id, rc), rc)
      BY <3>1, <3>3
    <3>5. rc \in {0, -1}
      BY <3>2
    <3> HIDE DEF rc
    <3> QED
      BY <1>2, <1>3, <1>8, <3>4, <3>5, HandlesNoted
  <2> QED
    BY <2>3, <2>4
<1> QED
  BY <1>5, <1>6, <1>7, <1>8

-----------------------------------------------------------------------------
(* The invariant of a script                                               *)

\* The answers are those the hope e names, ...
Counted(e, A) == Len(A) = Len(e.ids) /\ \A i \in 1 .. Len(A) : A[i].id = e.ids[i]

\* ... those to the ends of its batches list what failed, ...
Reported(e, fl, A) ==
    \A i \in 1 .. Len(A) : \A b \in ToSet(e.batches) :
        A[i].id = b[2] => A[i].lines = Report(fl, b[1], b[2])

\* ... and an open connection is in the batch that e is in, with its failures so
\* far in the write buffer.
Going(e, c, sc, fl, k) ==
    /\ ~e.over /\ c.peer /\ Incoming(c.rbuf, c.in, sc, k)
    /\ c.batch = (e.start # 0)
    /\ c.batch => e.start + c.cmds = k /\ c.wbuf = Report(fl, e.start, k + 1)
    /\ ~c.batch => c.wbuf = <<>>

\* The daemon has handled k commands of the script sc with the answers A.
ScriptGood(E, sc, c, reps, fl, k, A) ==
    /\ c \in ScriptConns /\ k \in 0 .. Len(sc) /\ fl \in SUBSET (1 .. k)
    /\ Answers(A, reps, c.out) /\ Counted(E[k], A) /\ Reported(E[k], fl, A)
    /\ c.open => Going(E[k], c, sc, fl, k)

(* The connection is closed.                                               *)
LEMMA GoodShut ==
    ASSUME NEW E, NEW sc, NEW c, NEW reps, NEW fl, NEW k, NEW A,
           ScriptGood(E, sc, c, reps, fl, k, A), NEW x, Shut(c, x)
    PROVE  ScriptGood(E, sc, x, reps, fl, k, A)
BY DEF ScriptGood, Shut

(* An answer is added, and no batch ends.                                  *)
LEMMA ReportedMore ==
    ASSUME NEW e \in Hopes, NEW d \in Hopes, NEW k \in Nat, Hopeful(e, k), NEW fl, NEW A,
           Counted(e, A), Reported(e, fl, A), A \in Seq(Replies), NEW B,
           B = A \/ (\E a \in Replies : a.id = k + 1 /\ B = Append(A, a)),
           d.batches = e.batches, NEW gl, gl = fl \/ gl = fl \cup {k + 1}
    PROVE  Reported(d, gl, B)
<1> SUFFICES ASSUME NEW i \in 1 .. Len(B), NEW b \in ToSet(e.batches), B[i].id = b[2]
             PROVE  B[i].lines = Report(gl, b[1], b[2])
  BY DEF Reported
<1>1. b \in Nat \X Nat /\ b[2] <= k
  <2>1. e.batches \in Seq(Nat \X Nat)
    BY DEF Hopes
  <2> QED
    BY <2>1 DEF ToSet, Hopeful
<1>2. b[1] \in Nat /\ b[2] \in 0 .. k + 1 /\ b[2] # k + 1
  BY <1>1
<1>3. Report(gl, b[1], b[2]) = Report(fl, b[1], b[2])
  <2> DEFINE s == b[1]
             t == b[2]
  <2>1. s \in Nat /\ t \in 0 .. k + 1
    BY <1>2
  <2> HIDE DEF s, t
  <2>2. Report(fl \cup {k + 1}, s, t) = Report(fl, s, t)
    BY <2>1, ReportStays
  <2> QED
    BY <2>2 DEF s, t
<1>4. i \in 1 .. Len(A) /\ B[i] = A[i]
  <2>1. CASE B = A
    BY <2>1
  <2>2. CASE B # A
    <3>1. PICK a \in Replies : a.id = k + 1 /\ B = Append(A, a)
      BY <2>2
    <3>2. Len(B) = Len(A) + 1 /\ B[Len(A) + 1] = a /\ Len(A) \in Nat
          /\ \A j \in 1 .. Len(A) : B[j] = A[j]
      BY <3>1
    <3>3. i # Len(A) + 1
      BY <1>2, <3>1, <3>2
    <3>4. i \in 1 .. Len(A)
      BY <3>2, <3>3
    <3> QED
      BY <3>2, <3>4
  <2> QED
    BY <2>1, <2>2
<1> QED
  BY <1>3, <1>4 DEF Reported

(* An answer is added that the hope names.                                 *)
LEMMA CountedMore ==
    ASSUME NEW e \in Hopes, NEW d, NEW n \in Nat, NEW A \in Seq(Replies), Counted(e, A),
           NEW a \in Replies, a.id = n, d.ids = Append(e.ids, n)
    PROVE  Counted(d, Append(A, a))
<1> DEFINE B == Append(A, a)
           t == Append(e.ids, n)
           l == Len(A)
<1>1. e.ids \in Seq(Nat)
  BY DEF Hopes
<1>2. l \in Nat /\ Len(B) = l + 1 /\ B[l + 1] = a /\ \A i \in 1 .. l : B[i] = A[i]
  OBVIOUS
<1>3. /\ Len(t) = Len(e.ids) + 1 /\ (\A i \in 1 .. Len(e.ids) : t[i] = e.ids[i])
      /\ t[Len(e.ids) + 1] = n
  BY <1>1, AppendIs
<1>4. Len(e.ids) = l /\ \A i \in 1 .. l : A[i].id = e.ids[i]
  BY DEF Counted
<1> HIDE DEF B, t, l
<1>5. ASSUME NEW i \in 1 .. l + 1 PROVE B[i].id = t[i]
  <2>1. CASE i = l + 1
    BY <1>2, <1>3, <1>4, <2>1
  <2>2. CASE i # l + 1
    <3>1. i \in 1 .. l
      BY <1>2, <2>2
    <3> QED
      BY <1>2, <1>3, <1>4, <3>1
  <2> QED
    BY <2>1, <2>2
<1>6. Len(B) = Len(t)
  BY <1>2, <1>3, <1>4
<1> QED
  BY <1>2, <1>5, <1>6 DEF Counted, B, t

\* The connection c has taken command k + 1 off its buffer.
Taking(E, sc, c, reps, fl, k, A) ==
    /\ sc \in Seq(Script) /\ IsHope(E, sc) /\ c \in ScriptConns /\ k \in Nat
    /\ k + 1 \in 1 .. Len(sc) /\ fl \in SUBSET (1 .. k)
    /\ Answers(A, reps, c.out) /\ Counted(E[k], A) /\ Reported(E[k], fl, A)
    /\ ~E[k].over /\ c.peer /\ Incoming(c.rbuf, c.in, sc, k + 1)
    /\ sc[k + 1].len <= RbufSize
    /\ c.batch = (E[k].start # 0)
    /\ c.batch => E[k].start + c.cmds = k /\ c.wbuf = Report(fl, E[k].start, k + 1)
    /\ ~c.batch => c.wbuf = <<>>

\* e and d are the hopes before and after command k + 1, which ends nothing.
Turn(E, sc, k, e, d) ==
    /\ e = E[k] /\ d = E[k + 1] /\ e \in Hopes /\ d \in Hopes
    /\ HopeGoes(e, d, sc[k + 1], k + 1) /\ Hopeful(e, k)
    /\ e.start \in Nat /\ e.start <= k

(* The hopes around a command.                                             *)
LEMMA TurnIs ==
    ASSUME NEW E, NEW sc \in Seq(Script), IsHope(E, sc), NEW k \in Nat, k + 1 \in 1 .. Len(sc)
    PROVE  Turn(E, sc, k, E[k], E[k + 1])
<1>1. k \in 0 .. Len(sc) /\ k + 1 \in 0 .. Len(sc) /\ (k + 1) - 1 = k
  OBVIOUS
<1>2. E[k] \in Hopes /\ E[k + 1] \in Hopes
  BY <1>1 DEF IsHope
<1>3. HopeGoes(E[(k + 1) - 1], E[k + 1], sc[k + 1], k + 1)
  BY DEF IsHope
<1>4. Hopeful(E[k], k)
  BY <1>1, HopeBounds
<1>5. E[k].start \in Nat /\ E[k].start <= k
  BY <1>2, <1>4 DEF Hopes, Hopeful
<1> QED
  BY <1>1, <1>2, <1>3, <1>4, <1>5 DEF Turn

(* A line that fits is not the end, unless it is QUIT.                     *)
LEMMA NotOver ==
    ASSUME NEW e, ~e.over, NEW c \in Script, c.len <= RbufSize, c.name # "QUIT"
    PROVE  ~Overs(e, c)
<1>1. c.len \in Nat /\ RbufSize \in Nat
  BY ClientAssumption
<1>2. ~(c.len > RbufSize)
  BY <1>1
<1> QED
  BY <1>2 DEF Overs

(* The failures after command k + 1.                                       *)
LEMMA FailedMore ==
    ASSUME NEW k \in Nat, NEW fl \in SUBSET (1 .. k), NEW gl, gl = fl \/ gl = fl \cup {k + 1}
    PROVE  gl \in SUBSET (1 .. (k + 1))
<1>1. k + 1 \in 1 .. k + 1 /\ \A x \in 1 .. k : x \in 1 .. k + 1
  OBVIOUS
<1> QED
  BY <1>1

(* A command outside a batch.                                              *)
LEMMA GoodOutside ==
    ASSUME NEW E, NEW sc, NEW c, NEW reps, NEW fl, NEW k, NEW A,
           Taking(E, sc, c, reps, fl, k, A), ~c.batch,
           NEW r, HandlesOut(c, r, k + 1, sc[k + 1].name), ~Shut(c, r.conn),
           NEW gl, gl = fl \/ gl = fl \cup {k + 1}
    PROVE  \E B : ScriptGood(E, sc, r.conn, reps, gl, k + 1, B)
<1> DEFINE e == E[k]
           d == E[k + 1]
           x == r.conn
           s == sc[k + 1]
           nm == sc[k + 1].name
<1>1. /\ sc \in Seq(Script) /\ IsHope(E, sc) /\ k \in Nat /\ k + 1 \in 1 .. Len(sc)
      /\ fl \in SUBSET (1 .. k) /\ s \in Script /\ Len(sc) \in Nat
  BY DEF Taking
<1>2. Turn(E, sc, k, e, d)
  BY <1>1, TurnIs
<1>3. /\ nm # "QUIT" /\ x \in ScriptConns /\ SameStream(c, x) /\ x.wbuf = <<>>
      /\ x.batch = (nm = "BATCH" /\ nm \in Permissions)
      /\ (x.batch => x.cmds = 0)
      /\ \E lines : Wrote(c, x, k + 1, lines)
  BY DEF HandlesOut
<1>4. /\ ~e.over /\ s.len <= RbufSize /\ e.start = 0 /\ Answers(A, reps, c.out)
      /\ Counted(e, A) /\ Reported(e, fl, A) /\ c.peer /\ Incoming(c.rbuf, c.in, sc, k + 1)
  BY DEF Taking
<1>5. PICK a : IsReply(a) /\ a.id = k + 1 /\ x.out = c.out \o Block(a)
  BY <1>3 DEF Wrote
<1>6. e \in Hopes /\ d \in Hopes /\ HopeGoes(e, d, s, k + 1) /\ Hopeful(e, k)
  BY <1>2 DEF Turn
<1> HIDE DEF e, d, x
<1>7. ~Overs(e, s)
  <2> HIDE DEF s
  <2> QED
    BY <1>1, <1>3, <1>4, NotOver DEF s
<1>8. /\ ~d.over /\ d.ids = Append(e.ids, k + 1) /\ d.batches = e.batches
      /\ d.start = IF nm = "BATCH" /\ nm \in Permissions THEN k + 1 ELSE 0
  <2> HIDE DEF s
  <2> QED
    BY <1>4, <1>6, <1>7 DEF HopeGoes, s
<1> HIDE DEF s, nm
<1>9. A \in Seq(Replies) /\ a \in Replies
  BY <1>4, <1>5 DEF Answers, AreReplies, IsReply
<1> DEFINE B == Append(A, a)
<1>10. Answers(B, reps, x.out)
  BY <1>4, <1>5, AnswerAdded
<1>11. Counted(d, B)
  <2> DEFINE n == k + 1
  <2>1. n \in Nat /\ a.id = n /\ d.ids = Append(e.ids, n)
    BY <1>1, <1>5, <1>8
  <2> HIDE DEF n
  <2> QED
    BY <1>4, <1>6, <1>9, <2>1, CountedMore
<1>12. Reported(d, gl, B)
  <2>1. \E z \in Replies : z.id = k + 1 /\ B = Append(A, z)
    BY <1>5, <1>9
  <2> HIDE DEF B
  <2> QED
    BY <1>1, <1>4, <1>6, <1>8, <1>9, <2>1, ReportedMore
<1>13. gl \in SUBSET (1 .. (k + 1)) /\ k + 1 \in 0 .. Len(sc)
  <2>1. gl \in SUBSET (1 .. (k + 1))
    BY <1>1, FailedMore
  <2> QED
    BY <1>1, <2>1
<1>14. Going(d, x, sc, gl, k + 1)
  <2>1. x.peer /\ Incoming(x.rbuf, x.in, sc, k + 1)
    BY <1>3, <1>4 DEF SameStream
  <2>2. x.batch = (d.start # 0)
    <3>1. k + 1 # 0
      BY <1>1
    <3> QED
      BY <1>3, <1>8, <3>1
  <2>3. ASSUME x.batch PROVE d.start + x.cmds = k + 1 /\ x.wbuf = Report(gl, d.start, (k + 1) + 1)
    <3>1. d.start = k + 1 /\ x.cmds = 0
      BY <1>3, <1>8, <2>3
    <3> DEFINE n == k + 1
    <3>2. n \in Nat
      BY <1>1
    <3> HIDE DEF n
    <3>3. Report(gl, n, n + 1) = <<>>
      BY <3>2, ReportBegins
    <3>4. (k + 1) + 0 = k + 1
      BY <1>1
    <3> QED
      BY <1>3, <3>1, <3>3, <3>4 DEF n
  <2> QED
    BY <1>3, <1>8, <2>1, <2>2, <2>3 DEF Going
<1> HIDE DEF B
<1>15. ScriptGood(E, sc, x, reps, gl, k + 1, B)
  BY <1>3, <1>10, <1>11, <1>12, <1>13, <1>14 DEF ScriptGood, d
<1> QED
  BY <1>15 DEF x

(* A command of a batch.                                                   *)
LEMMA GoodNoted ==
    ASSUME NEW E, NEW sc, NEW c, NEW reps, NEW fl, NEW k, NEW A,
           Taking(E, sc, c, reps, fl, k, A), c.batch, sc[k + 1].name # ".",
           NEW r, HandlesIn(c, r, k + 1, sc[k + 1].name), ~Shut(c, r.conn),
           NEW gl, gl = IF r.rc = 0 THEN fl ELSE fl \cup {k + 1}
    PROVE  ScriptGood(E, sc, r.conn, reps, gl, k + 1, A)
<1> DEFINE e == E[k]
           d == E[k + 1]
           x == r.conn
           s == sc[k + 1]
           nm == sc[k + 1].name
<1>1. /\ sc \in Seq(Script) /\ IsHope(E, sc) /\ k \in Nat /\ k + 1 \in 1 .. Len(sc)
      /\ fl \in SUBSET (1 .. k) /\ s \in Script /\ Len(sc) \in Nat /\ c \in ScriptConns
  BY DEF Taking
<1>2. Turn(E, sc, k, e, d)
  BY <1>1, TurnIs
<1>3. /\ nm \notin {".", "QUIT"} /\ x \in ScriptConns /\ SameStream(c, x) /\ x.batch = TRUE
      /\ x.cmds = c.cmds + 1 /\ x.out = c.out
      /\ \/ r.rc = 0 /\ x.wbuf = c.wbuf
         \/ r.rc # 0 /\ x.wbuf = Append(c.wbuf, Line("error", k + 1, c.cmds + 1))
  BY DEF HandlesIn
<1>4. /\ ~e.over /\ s.len <= RbufSize /\ Answers(A, reps, c.out)
      /\ Counted(e, A) /\ Reported(e, fl, A) /\ c.peer /\ Incoming(c.rbuf, c.in, sc, k + 1)
      /\ c.batch = (e.start # 0) /\ e.start + c.cmds = k
      /\ c.wbuf = Report(fl, e.start, k + 1)
  BY DEF Taking
<1>5. c.cmds \in Nat
  BY <1>1, ConnFields
<1>6. e \in Hopes /\ d \in Hopes /\ HopeGoes(e, d, s, k + 1) /\ Hopeful(e, k)
      /\ e.start \in Nat /\ e.start <= k
  BY <1>2 DEF Turn
<1> HIDE DEF e, d, x
<1>7. ~Overs(e, s)
  <2>1. s.name # "QUIT"
    BY <1>3
  <2> HIDE DEF s
  <2> QED
    BY <1>1, <1>4, <2>1, NotOver
<1>8. d = e /\ e.start # 0
  <2>1. s.name # "." /\ e.start # 0
    BY <1>3, <1>4
  <2> HIDE DEF s
  <2> QED
    BY <1>6, <1>7, <2>1 DEF HopeGoes
<1> HIDE DEF s, nm
<1>9. A \in Seq(Replies)
  BY <1>4 DEF Answers, AreReplies
<1>10. gl = fl \/ gl = fl \cup {k + 1}
  OBVIOUS
<1>11. Reported(d, gl, A)
  BY <1>1, <1>4, <1>6, <1>8, <1>9, <1>10, ReportedMore
<1>12. gl \in SUBSET (1 .. (k + 1)) /\ k + 1 \in 0 .. Len(sc)
  <2>1. gl \in SUBSET (1 .. (k + 1))
    BY <1>1, <1>10, FailedMore
  <2> QED
    BY <1>1, <2>1
<1>13. e.start + x.cmds = k + 1 /\ c.cmds + 1 = (k + 1) - e.start
  BY <1>1, <1>3, <1>4, <1>5, <1>6
<1>14. x.wbuf = Report(gl, e.start, (k + 1) + 1)
  <2> DEFINE b == e.start
  <2>1. b \in 0 .. k /\ (k + 1) + 1 = k + 2
    BY <1>1, <1>6
  <2> HIDE DEF b
  <2>2. ReportGoes(fl, b, k)
    BY <1>1, <2>1, ReportGrows
  <2>3. /\ Report(fl, b, k + 2) = Report(fl, b, k + 1)
        /\ Report(fl \cup {k + 1}, b, k + 2)
             = Append(Report(fl, b, k + 1), Line("error", k + 1, (k + 1) - b))
    BY <2>2 DEF ReportGoes
  <2>4. c.wbuf = Report(fl, b, k + 1) /\ c.cmds + 1 = (k + 1) - b
    BY <1>4, <1>13 DEF b
  <2>5. CASE r.rc = 0
    BY <1>3, <2>1, <2>3, <2>4, <2>5 DEF b
  <2>6. CASE r.rc # 0
    <3>1. x.wbuf = Append(c.wbuf, Line("error", k + 1, c.cmds + 1))
      BY <1>3, <2>6
    <3>2. gl = fl \cup {k + 1}
      BY <2>6
    <3>3. x.wbuf = Append(Report(fl, b, k + 1), Line("error", k + 1, (k + 1) - b))
      BY <2>4, <3>1
    <3>4. Report(gl, b, k + 2) = x.wbuf
      BY <2>3, <3>2, <3>3
    <3> QED
      BY <2>1, <3>4 DEF b
  <2> QED
    BY <2>5, <2>6
<1>15. Going(d, x, sc, gl, k + 1)
  <2>1. x.peer /\ Incoming(x.rbuf, x.in, sc, k + 1)
    BY <1>3, <1>4 DEF SameStream
  <2>2. x.batch = (d.start # 0)
    BY <1>3, <1>8
  <2> QED
    BY <1>3, <1>4, <1>8, <1>13, <1>14, <2>1, <2>2 DEF Going
<1>16. ScriptGood(E, sc, x, reps, gl, k + 1, A)
  BY <1>3, <1>4, <1>8, <1>11, <1>12, <1>15 DEF ScriptGood, d
<1> QED
  BY <1>16 DEF x

(* The dot that ends a batch.                                              *)
LEMMA GoodDot ==
    ASSUME NEW E, NEW sc, NEW c, NEW reps, NEW fl, NEW k, NEW A,
           Taking(E, sc, c, reps, fl, k, A), c.batch, sc[k + 1].name = ".",
           NEW r, HandlesIn(c, r, k + 1, sc[k + 1].name), ~Shut(c, r.conn)
    PROVE  r.rc = 0 /\ \E B : ScriptGood(E, sc, r.conn, reps, fl, k + 1, B)
<1> DEFINE e == E[k]
           d == E[k + 1]
           x == r.conn
           s == sc[k + 1]
           n == k + 1
           y == <<e.start, n>>
<1>1. /\ sc \in Seq(Script) /\ IsHope(E, sc) /\ k \in Nat /\ n \in 1 .. Len(sc)
      /\ fl \in SUBSET (1 .. k) /\ s \in Script /\ Len(sc) \in Nat
  BY DEF Taking
<1>2. Turn(E, sc, k, e, d)
  BY <1>1, TurnIs
<1>3. /\ x \in ScriptConns /\ SameStream(c, x) /\ x.wbuf = <<>>
      /\ x.batch = FALSE /\ r.rc = 0 /\ Wrote(c, x, n, c.wbuf)
  BY DEF HandlesIn
<1>4. /\ ~e.over /\ s.len <= RbufSize /\ Answers(A, reps, c.out)
      /\ Counted(e, A) /\ Reported(e, fl, A) /\ c.peer /\ Incoming(c.rbuf, c.in, sc, n)
      /\ c.batch = (e.start # 0) /\ c.wbuf = Report(fl, e.start, n)
  BY DEF Taking
<1>5. PICK a : IsReply(a) /\ a.id = n /\ a.lines = c.wbuf /\ x.out = c.out \o Block(a)
  BY <1>3 DEF Wrote
<1>6. e \in Hopes /\ d \in Hopes /\ HopeGoes(e, d, s, n) /\ Hopeful(e, k)
      /\ e.start \in Nat /\ e.start <= k
  BY <1>2 DEF Turn
<1> HIDE DEF e, d, x
<1>7. s.name = "." /\ s.name # "QUIT" /\ e.start # 0
  BY <1>4
<1> HIDE DEF s
<1>8. ~Overs(e, s)
  BY <1>1, <1>4, <1>7, NotOver
<1>9. /\ ~d.over /\ d.ids = Append(e.ids, n) /\ d.start = 0
      /\ d.batches = Append(e.batches, y)
  BY <1>6, <1>7, <1>8 DEF HopeGoes
<1>10. n \in Nat /\ y \in Nat \X Nat /\ y[1] = e.start /\ y[2] = n /\ n > k
  BY <1>1, <1>6
<1> HIDE DEF y
<1>11. A \in Seq(Replies) /\ a \in Replies /\ Len(A) \in Nat
  BY <1>4, <1>5 DEF Answers, AreReplies, IsReply
<1> DEFINE B == Append(A, a)
<1>12. Answers(B, reps, x.out)
  BY <1>4, <1>5, AnswerAdded
<1> HIDE DEF n
<1>13. Counted(d, B)
  BY <1>4, <1>5, <1>6, <1>9, <1>10, <1>11, CountedMore
<1>14. /\ Len(B) = Len(A) + 1 /\ B[Len(A) + 1] = a /\ \A i \in 1 .. Len(A) : B[i] = A[i]
  BY <1>11
<1> HIDE DEF B
<1>15. ToSet(d.batches) = ToSet(e.batches) \cup {y}
  <2>1. e.batches \in Seq(Nat \X Nat)
    BY <1>6 DEF Hopes
  <2> QED
    BY <1>9, <1>10, <2>1, AppendIs
<1>16. ASSUME NEW i \in 1 .. Len(B), NEW b \in ToSet(d.batches), B[i].id = b[2]
       PROVE  B[i].lines = Report(fl, b[1], b[2])
  <2>1. CASE i = Len(A) + 1
    <3>1. B[i] = a
      BY <1>14, <2>1
    <3>2. b = y
      <4>1. CASE b \in ToSet(e.batches)
        <5>1. b \in Nat \X Nat /\ b[2] <= k
          <6>1. e.batches \in Seq(Nat \X Nat)
            BY <1>6 DEF Hopes
          <6> QED
            BY <1>6, <4>1, <6>1 DEF ToSet, Hopeful
        <5>2. b[2] = n
          BY <1>5, <1>16, <3>1
        <5> QED
          BY <1>1, <1>10, <5>1, <5>2
      <4> QED
        BY <1>15, <4>1
    <3> QED
      BY <1>4, <1>5, <1>10, <3>1, <3>2
  <2>2. CASE i # Len(A) + 1
    <3>1. i \in 1 .. Len(A) /\ B[i] = A[i]
      BY <1>11, <1>14, <2>2
    <3>2. A[i].id = e.ids[i] /\ i \in 1 .. Len(e.ids)
      BY <1>4, <3>1 DEF Counted
    <3>3. e.ids[i] <= k /\ e.ids[i] \in Nat
      <4>1. e.ids \in Seq(Nat)
        BY <1>6 DEF Hopes
      <4> QED
        BY <1>6, <3>2, <4>1 DEF Hopeful
    <3>4. b # y
      <4>1. b[2] = e.ids[i]
        BY <1>16, <3>1, <3>2
      <4>2. e.ids[i] # n
        BY <1>1, <1>10, <3>3
      <4> QED
        BY <1>10, <4>1, <4>2
    <3>5. b \in ToSet(e.batches)
      BY <1>15, <3>4
    <3> QED
      BY <1>4, <1>16, <3>1, <3>5 DEF Reported
  <2> QED
    BY <2>1, <2>2
<1>17. Reported(d, fl, B)
  BY <1>16 DEF Reported
<1>18. fl \in SUBSET (1 .. n) /\ n \in 0 .. Len(sc)
  <2>1. fl \in SUBSET (1 .. (k + 1))
    BY <1>1, FailedMore
  <2> QED
    BY <1>1, <2>1 DEF n
<1>19. Going(d, x, sc, fl, n)
  <2>1. x.peer /\ Incoming(x.rbuf, x.in, sc, n)
    BY <1>3, <1>4 DEF SameStream
  <2>2. x.batch = (d.start # 0)
    BY <1>3, <1>9
  <2> QED
    BY <1>3, <1>9, <2>1, <2>2 DEF Going
<1>20. ScriptGood(E, sc, x, reps, fl, n, B)
  BY <1>3, <1>12, <1>13, <1>17, <1>18, <1>19 DEF ScriptGood, d, n
<1> QED
  BY <1>3, <1>20 DEF x, n

\* The connection behind command k + 1.
Behind(c, p) == [c EXCEPT !.rbuf = SubSeq(@, p + 1, Len(@))]

\* Command k + 1 ends at place p of the buffer.
Takes(E, sc, c, reps, fl, k, A, p) ==
    /\ Taking(E, sc, Behind(c, p), reps, fl, k, A)
    /\ Behind(c, p).open = c.open /\ Behind(c, p).out = c.out
    /\ c.rbuf[p].id = k + 1 /\ c.rbuf[p].name = sc[k + 1].name /\ k + 1 \in Nat

(* next_cmd takes the next command off the buffer.                         *)
LEMMA TakingIs ==
    ASSUME NEW E, NEW sc \in Seq(Script), IsHope(E, sc), NEW c, NEW reps, NEW fl, NEW k, NEW A,
           ScriptGood(E, sc, c, reps, fl, k, A), c.open, NextCmd(c) # 0
    PROVE  Takes(E, sc, c, reps, fl, k, A, NextCmd(c))
<1> DEFINE p == NextCmd(c)
           left == SubSeq(c.rbuf, p + 1, Len(c.rbuf))
           x == Behind(c, p)
           e == E[k]
<1>1. /\ c \in ScriptConns /\ k \in 0 .. Len(sc) /\ fl \in SUBSET (1 .. k)
      /\ Answers(A, reps, c.out) /\ Counted(e, A) /\ Reported(e, fl, A)
      /\ Going(e, c, sc, fl, k)
  BY DEF ScriptGood
<1>2. Incoming(c.rbuf, c.in, sc, k)
  BY <1>1 DEF Going
<1>3. NextAt(c, sc, k, p)
  BY <1>2, NextIs
<1> HIDE DEF p
<1>4. /\ k + 1 \in 1 .. Len(sc) /\ p <= RbufSize /\ p = sc[k + 1].len
      /\ c.rbuf[p].id = k + 1 /\ c.rbuf[p].name = sc[k + 1].name
      /\ Incoming(left, c.in, sc, k + 1)
  BY <1>3 DEF NextAt
<1>5. x = [c EXCEPT !.rbuf = left]
  BY DEF Behind
<1>6. left \in Seq(ScriptUnits)
  BY <1>4 DEF Incoming
<1> HIDE DEF left, x
<1>7. /\ x \in ScriptConns /\ x.open = c.open /\ x.rbuf = left /\ x.in = c.in /\ x.peer = c.peer
      /\ x.out = c.out /\ x.batch = c.batch /\ x.cmds = c.cmds /\ x.wbuf = c.wbuf
  BY <1>1, <1>5, <1>6 DEF ScriptConns
<1>8. k \in Nat /\ k + 1 \in Nat
  BY <1>1
<1>9. Taking(E, sc, x, reps, fl, k, A)
  <2>1. /\ ~e.over /\ c.peer /\ c.batch = (e.start # 0)
        /\ (c.batch => e.start + c.cmds = k /\ c.wbuf = Report(fl, e.start, k + 1))
        /\ (~c.batch => c.wbuf = <<>>)
    BY <1>1 DEF Going
  <2>2. Incoming(x.rbuf, x.in, sc, k + 1)
    BY <1>4, <1>7
  <2>3. sc[k + 1].len <= RbufSize
    BY <1>4
  <2> QED
    BY <1>1, <1>4, <1>7, <1>8, <2>1, <2>2, <2>3 DEF Taking
<1> QED
  BY <1>4, <1>7, <1>8, <1>9 DEF Takes, p, x

(* One command.                                                            *)
LEMMA GoodCommand ==
    ASSUME NEW E, NEW sc \in Seq(Script), IsHope(E, sc), NEW c, NEW reps, NEW fl, NEW k, NEW A,
           ScriptGood(E, sc, c, reps, fl, k, A), c.open, NEW p, p = NextCmd(c), p # 0,
           NEW r \in HandleRequest(Behind(c, p), c.rbuf[p].id, c.rbuf[p].name),
           NEW gl, gl = IF r.rc = 0 THEN fl ELSE fl \cup {c.rbuf[p].id}
    PROVE  \E m, B : ScriptGood(E, sc, r.conn, reps, gl, m, B)
<1> DEFINE x == Behind(c, p)
           nm == sc[k + 1].name
           n == k + 1
<1>1. /\ Taking(E, sc, x, reps, fl, k, A) /\ x.out = c.out /\ x.open = c.open
      /\ c.rbuf[p].id = n /\ c.rbuf[p].name = nm /\ n \in Nat
  <2>1. Takes(E, sc, c, reps, fl, k, A, p)
    BY TakingIs
  <2> QED
    BY <2>1 DEF Takes
<1>2. r \in HandleRequest(x, n, nm) /\ gl = IF r.rc = 0 THEN fl ELSE fl \cup {n}
  BY <1>1
<1>3. /\ x \in ScriptConns /\ (~x.batch => x.wbuf = <<>>) /\ k \in Nat
      /\ k + 1 \in 1 .. Len(sc) /\ x.batch = (E[k].start # 0)
  BY <1>1 DEF Taking
<1> HIDE DEF x, nm, n
<1>4. CASE Shut(x, r.conn) /\ r.rc = 0
  <2>1. Shut(c, r.conn) /\ gl = fl
    BY <1>1, <1>2, <1>4 DEF Shut
  <2>2. ScriptGood(E, sc, r.conn, reps, gl, k, A)
    BY <2>1, GoodShut
  <2> QED
    BY <2>2
<1>5. CASE ~(Shut(x, r.conn) /\ r.rc = 0) /\ ~x.batch
  <2>1. HandlesOut(x, r, n, nm)
    BY <1>1, <1>2, <1>3, <1>5, HandlesOutside
  <2>2. gl = fl \/ gl = fl \cup {k + 1}
    BY <1>2 DEF n
  <2>3. CASE Shut(x, r.conn)
    <3>1. r.rc # 0
      BY <1>5, <2>3
    <3>2. r.conn.open = x.open
      BY <2>1, <3>1 DEF HandlesOut, SameStream
    <3> QED
      BY <1>1, <2>3, <3>2 DEF Shut
  <2>4. CASE ~Shut(x, r.conn)
    <3>1. \E B : ScriptGood(E, sc, r.conn, reps, gl, k + 1, B)
      BY <1>1, <1>5, <2>1, <2>2, <2>4, GoodOutside DEF n, nm
    <3> QED
      BY <3>1
  <2> QED
    BY <2>3, <2>4
<1>6. CASE ~(Shut(x, r.conn) /\ r.rc = 0) /\ x.batch
  <2>1. "BATCH" \in Permissions
    <3>1. Turn(E, sc, k, E[k], E[k + 1])
      BY <1>3, TurnIs
    <3> QED
      BY <1>3, <1>6, <3>1 DEF Turn, Hopeful
  <2>2. HandlesIn(x, r, n, nm)
    BY <1>1, <1>2, <1>3, <1>6, <2>1, HandlesInside
  <2>3. CASE Shut(x, r.conn)
    <3>1. r.rc # 0
      BY <1>6, <2>3
    <3>2. r.conn.open = x.open
      BY <2>2, <3>1 DEF HandlesIn, SameStream
    <3> QED
      BY <1>1, <2>3, <3>2 DEF Shut
  <2>4. CASE ~Shut(x, r.conn) /\ nm = "."
    <3>1. r.rc = 0 /\ \E B : ScriptGood(E, sc, r.conn, reps, fl, k + 1, B)
      BY <1>1, <1>6, <2>2, <2>4, GoodDot DEF n, nm
    <3> QED
      BY <1>2, <3>1
  <2>5. CASE ~Shut(x, r.conn) /\ nm # "."
    <3>1. gl = IF r.rc = 0 THEN fl ELSE fl \cup {k + 1}
      BY <1>2 DEF n
    <3>2. ScriptGood(E, sc, r.conn, reps, gl, k + 1, A)
      BY <1>1, <1>6, <2>2, <2>5, <3>1, GoodNoted DEF n, nm
    <3> QED
      BY <3>2
  <2> QED
    BY <2>3, <2>4, <2>5
<1> QED
  BY <1>4, <1>5, <1>6

(* read() moves part of the stream, or ends it.                            *)
LEMMA GoodRead ==
    ASSUME NEW E, NEW sc, NEW c, NEW reps, NEW fl, NEW k, NEW A,
           ScriptGood(E, sc, c, reps, fl, k, A), c.open, NEW x \in Reads(c)
    PROVE  ScriptGood(E, sc, x, reps, fl, k, A)
<1>1. c \in ScriptConns /\ Going(E[k], c, sc, fl, k)
  BY DEF ScriptGood
<1>2. CASE x = Closed(c)
  <2>1. Shut(c, x)
    BY <1>1, <1>2, ShutIs
  <2> QED
    BY <2>1, GoodShut
<1>3. CASE x # Closed(c)
  <2>1. PICK n \in 1 .. Len(c.in) :
           /\ n + Len(c.rbuf) <= RbufSize
           /\ x = [c EXCEPT !.rbuf = @ \o SubSeq(c.in, 1, n),
                            !.in = SubSeq(@, n + 1, Len(@))]
    BY <1>3 DEF Reads, ReadFull
  <2> DEFINE u == c.rbuf \o SubSeq(c.in, 1, n)
             v == SubSeq(c.in, n + 1, Len(c.in))
             y == [c EXCEPT !.rbuf = u]
  <2>2. Incoming(c.rbuf, c.in, sc, k)
    BY <1>1 DEF Going
  <2>3. Incoming(u, v, sc, k)
    <3> DEFINE b == c.rbuf
               i == c.in
    <3>1. Incoming(b, i, sc, k) /\ n \in 1 .. Len(i) /\ n + Len(b) <= RbufSize
      BY <2>1, <2>2
    <3> HIDE DEF b, i
    <3>2. Incoming(b \o SubSeq(i, 1, n), SubSeq(i, n + 1, Len(i)), sc, k)
      BY <3>1, ReadsKeep
    <3> QED
      BY <3>2 DEF b, i
  <2>4. u \in Seq(ScriptUnits) /\ v \in Seq(ScriptUnits)
    BY <2>3 DEF Incoming
  <2>5. x = [y EXCEPT !.in = v]
    BY <2>1
  <2> HIDE DEF u, v
  <2>6. /\ y \in ScriptConns /\ y.rbuf = u /\ y.open = c.open /\ y.peer = c.peer
        /\ y.batch = c.batch /\ y.cmds = c.cmds /\ y.wbuf = c.wbuf /\ y.out = c.out
    BY <1>1, <2>4 DEF ScriptConns
  <2> HIDE DEF y
  <2>7. /\ x \in ScriptConns /\ x.rbuf = y.rbuf /\ x.in = v /\ x.open = y.open /\ x.peer = y.peer
        /\ x.batch = y.batch /\ x.cmds = y.cmds /\ x.wbuf = y.wbuf /\ x.out = y.out
    BY <2>4, <2>5, <2>6 DEF ScriptConns
  <2>8. Going(E[k], x, sc, fl, k)
    <3> DEFINE e == E[k]
    <3> HIDE DEF e
    <3>1. Going(e, x, sc, fl, k)
      BY <1>1, <2>3, <2>6, <2>7 DEF Going, e
    <3> QED
      BY <3>1 DEF e
  <2> QED
    BY <2>6, <2>7, <2>8 DEF ScriptGood
<1> QED
  BY <1>2, <1>3

(* The script reads an answer.                                             *)
LEMMA GoodReply ==
    ASSUME NEW E, NEW sc, NEW c, NEW reps, NEW fl, NEW k, NEW A,
           ScriptGood(E, sc, c, reps, fl, k, A), c.out # <<>>,
           NEW more, more = IF c.out[1].num > 0 THEN c.out[1].num ELSE 0,
           NEW new, new = [id |-> c.out[1].id, kind |-> c.out[1].kind,
                           status |-> c.out[1].num, lines |-> SubSeq(c.out, 2, more + 1)],
           NEW x, x = [c EXCEPT !.out = SubSeq(c.out, more + 2, Len(c.out))]
    PROVE  ScriptGood(E, sc, x, Append(reps, new), fl, k, A)
<1> DEFINE o == c.out
           l == SubSeq(o, more + 2, Len(o))
<1>1. c \in ScriptConns /\ Answers(A, reps, o)
  BY DEF ScriptGood
<1>2. /\ o # <<>> /\ more = IF o[1].num > 0 THEN o[1].num ELSE 0
      /\ new = [id |-> o[1].id, kind |-> o[1].kind, status |-> o[1].num,
                lines |-> SubSeq(o, 2, more + 1)]
      /\ x = [c EXCEPT !.out = l]
  OBVIOUS
<1> HIDE DEF o
<1>3. Answers(A, Append(reps, new), l)
  BY <1>1, <1>2, AnswerRead
<1> HIDE DEF l
<1>4. l \in Seq(Texts)
  <2>1. AreReplies(A) /\ Len(Append(reps, new)) \in 0 .. Len(A)
        /\ l = From(Text(A), Mark(A, Len(Append(reps, new))))
    BY <1>3 DEF Answers
  <2> DEFINE q == Len(Append(reps, new))
             t == Text(A)
             m == Mark(A, q)
  <2>2. t \in Seq(Texts)
    BY <2>1, BlocksPieces
  <2>3. m \in 0 .. Len(t)
    <3>1. q \in 0 .. Len(A)
      BY <2>1
    <3> HIDE DEF q
    <3> QED
      BY <2>1, <3>1, MarkIs
  <2>4. l = From(t, m)
    BY <2>1
  <2> HIDE DEF t, m
  <2> QED
    BY <2>2, <2>3, <2>4, FromIs DEF IsFrom
<1>5. /\ x \in ScriptConns /\ SameStream(c, x) /\ x.batch = c.batch /\ x.cmds = c.cmds
      /\ x.wbuf = c.wbuf /\ x.out = l
  BY <1>1, <1>2, <1>4 DEF ScriptConns, SameStream
<1>6. ASSUME x.open PROVE Going(E[k], x, sc, fl, k)
  <2>1. Going(E[k], c, sc, fl, k)
    BY <1>5, <1>6 DEF ScriptGood, SameStream
  <2> DEFINE e == E[k]
  <2> HIDE DEF e
  <2>2. Going(e, x, sc, fl, k)
    BY <1>5, <2>1 DEF Going, SameStream, e
  <2> QED
    BY <2>2 DEF e
<1> QED
  BY <1>3, <1>5, <1>6 DEF ScriptGood

-----------------------------------------------------------------------------
(* The script                                                              *)

ScriptInv ==
    /\ script \in Seq(Script)
    /\ mode # "script" => replies = <<>>
    /\ mode = "script" =>
          /\ ScriptServer \in DOMAIN conn
          /\ \E k, A : ScriptGood(HopeFcn(script), script, conn[ScriptServer], replies,
                                 failed, k, A)

(* A step of the daemon the script talks to.                               *)
LEMMA ScriptServes ==
    ASSUME ScriptInv, mode = "script", mode' = mode, Serve(ScriptServer), UNCHANGED scriptVars
    PROVE  ScriptInv'
<1> DEFINE s == ScriptServer
           c == conn[s]
           E == HopeFcn(script)
<1>1. script \in Seq(Script) /\ s \in DOMAIN conn
  BY DEF ScriptInv
<1>2. PICK k, A : ScriptGood(E, script, c, replies, failed, k, A)
  BY DEF ScriptInv
<1>3. IsHope(E, script)
  BY <1>1, HopesAre
<1>4. script' = script /\ replies' = replies /\ E' = E
  BY DEF scriptVars
<1>5. ASSUME NEW x, NEW gl, NEW m, NEW B, ScriptGood(E, script, x, replies, gl, m, B),
             conn' = [conn EXCEPT ![s] = x], failed' = gl
      PROVE  ScriptInv'
  <2>1. s \in DOMAIN conn' /\ conn'[s] = x
    BY <1>1, <1>5
  <2>2. ScriptGood(HopeFcn(script'), script', conn'[ScriptServer], replies', failed', m, B)
    BY <1>4, <1>5, <2>1
  <2> QED
    BY <1>1, <1>4, <2>1, <2>2 DEF ScriptInv
<1>6. CASE ServeCommand(s)
  <2> DEFINE p == NextCmd(c)
  <2>1. c.open /\ p # 0
    BY <1>6 DEF ServeCommand
  <2>2. PICK r \in HandleRequest(Behind(c, p), c.rbuf[p].id, c.rbuf[p].name) :
           /\ conn' = [conn EXCEPT ![s] =
                         IF ~c.peer /\ Len(r.conn.out) > Len(c.out) THEN Closed(r.conn)
                         ELSE r.conn]
           /\ failed' = IF r.rc = 0 THEN failed ELSE failed \cup {c.rbuf[p].id}
    BY <1>6 DEF ServeCommand, Behind
  <2>3. c.peer
    BY <1>2, <2>1 DEF ScriptGood, Going
  <2>4. conn' = [conn EXCEPT ![s] = r.conn]
    BY <2>2, <2>3
  <2> DEFINE gl == IF r.rc = 0 THEN failed ELSE failed \cup {c.rbuf[p].id}
  <2>5. failed' = gl
    BY <2>2
  <2>6. \E m, B : ScriptGood(E, script, r.conn, replies, gl, m, B)
    <3> HIDE DEF c, E, s
    <3> QED
      BY <1>1, <1>2, <1>3, <2>1, GoodCommand
  <2> HIDE DEF gl, c, E, s
  <2> QED
    BY <1>5, <2>4, <2>5, <2>6
<1>7. CASE ServeRead(s)
  <2>1. c.open
    BY <1>7 DEF ServeRead
  <2>2. PICK x \in Reads(c) : conn' = [conn EXCEPT ![s] = x]
    BY <1>7 DEF ServeRead
  <2>3. failed' = failed
    BY <1>7 DEF ServeRead
  <2> HIDE DEF c, E, s
  <2>4. ScriptGood(E, script, x, replies, failed, k, A)
    BY <1>2, <2>1, GoodRead
  <2> QED
    BY <1>5, <2>2, <2>3, <2>4
<1>8. CASE ServeStop(s)
  <2>1. conn' = [conn EXCEPT ![s] = Closed(c)] /\ failed' = failed
    BY <1>8 DEF ServeStop
  <2>2. c \in ScriptConns
    BY <1>2 DEF ScriptGood
  <2> HIDE DEF c, E, s
  <2>3. ScriptGood(E, script, Closed(c), replies, failed, k, A)
    BY <1>2, <2>2, ShutIs, GoodShut
  <2> QED
    BY <1>5, <2>1, <2>3
<1> QED
  BY <1>6, <1>7, <1>8 DEF Serve

(* A step of the script.                                                   *)
LEMMA ScriptReads ==
    ASSUME ScriptInv, mode = "script", mode' = mode, ReadReply(ScriptServer)
    PROVE  ScriptInv'
<1> DEFINE s == ScriptServer
           c == conn[s]
           E == HopeFcn(script)
           more == IF c.out[1].num > 0 THEN c.out[1].num ELSE 0
           new == [id |-> c.out[1].id, kind |-> c.out[1].kind, status |-> c.out[1].num,
                   lines |-> SubSeq(c.out, 2, more + 1)]
           x == [c EXCEPT !.out = SubSeq(c.out, more + 2, Len(c.out))]
<1>1. script \in Seq(Script) /\ s \in DOMAIN conn
  BY DEF ScriptInv
<1>2. PICK k, A : ScriptGood(E, script, c, replies, failed, k, A)
  BY DEF ScriptInv
<1>3. /\ c.out # <<>> /\ replies' = Append(replies, new) /\ failed' = failed /\ script' = script
      /\ conn' = [conn EXCEPT ![s].out = SubSeq(@, more + 2, Len(@))]
  BY DEF ReadReply
<1>4. conn' = [conn EXCEPT ![s] = x]
  BY <1>1, <1>3
<1>5. ScriptGood(E, script, x, Append(replies, new), failed, k, A)
  <2> HIDE DEF c, E
  <2> QED
    BY <1>2, <1>3, GoodReply
<1> HIDE DEF x, new
<1>6. s \in DOMAIN conn' /\ conn'[s] = x
  BY <1>1, <1>4
<1>7. ScriptGood(HopeFcn(script'), script', conn'[ScriptServer], replies', failed', k, A)
  BY <1>3, <1>5, <1>6
<1> QED
  BY <1>1, <1>3, <1>6, <1>7 DEF ScriptInv

(* Nothing is answered yet.                                                *)
LEMMA NoAnswers == Answers(<<>>, <<>>, <<>>)
<1> DEFINE A == <<>>
<1>1. A \in Seq(Replies) /\ Len(A) = 0 /\ 0 \in 0 .. 0 /\ SubSeq(A, 1, 0) = A
  OBVIOUS
<1> HIDE DEF A
<1>2. AreReplies(A)
  BY <1>1 DEF AreReplies
<1>3. Joined(Blocks(A), 0) = <<>>
  BY <1>2, BlocksPieces
<1>4. Text(A) = <<>> /\ Mark(A, 0) = 0
  BY <1>1, <1>3 DEF Text, Mark
<1>5. From(<<>>, 0) = <<>>
  BY DEF From
<1>6. From(Text(A), Mark(A, 0)) = <<>>
  BY <1>4, <1>5
<1> QED
  BY <1>1, <1>2, <1>6 DEF Answers, A

(* A script that has been sent.                                            *)
LEMMA GoodFirst ==
    ASSUME NEW sc \in Seq(Script), NEW c, c = [Fresh EXCEPT !.in = Stream(sc)]
    PROVE  ScriptGood(HopeFcn(sc), sc, c, <<>>, {}, 0, <<>>)
<1> DEFINE E == HopeFcn(sc)
           t == Stream(sc)
<1>1. /\ t \in Seq(ScriptUnits) /\ Joined(Commands(sc), 0) = <<>> /\ Len(sc) \in Nat
  BY CommandPieces
<1>2. E[0] = NoHope
  BY HopesAre DEF IsHope
<1> HIDE DEF E, t
<1>3. c = [open |-> TRUE, peer |-> TRUE, in |-> t, rbuf |-> <<>>, batch |-> FALSE, cmds |-> 0,
           wbuf |-> <<>>, out |-> <<>>]
  BY DEF Fresh, t
<1>4. /\ c.open = TRUE /\ c.peer = TRUE /\ c.in = t /\ c.rbuf = <<>> /\ c.batch = FALSE
      /\ c.wbuf = <<>> /\ c.out = <<>>
  BY <1>3
<1>5. c \in ScriptConns
  <2> DEFINE z == <<>>
  <2>1. z \in Seq(ScriptUnits) /\ z \in Seq(Texts)
    OBVIOUS
  <2>2. c = [open |-> TRUE, peer |-> TRUE, in |-> t, rbuf |-> z, batch |-> FALSE, cmds |-> 0,
             wbuf |-> z, out |-> z]
    BY <1>3
  <2> HIDE DEF z
  <2>3. ASSUME NEW x \in BOOLEAN, NEW y \in BOOLEAN, NEW n \in Nat
        PROVE  [open |-> x, peer |-> x, in |-> t, rbuf |-> z, batch |-> y, cmds |-> n,
                wbuf |-> z, out |-> z] \in ScriptConns
    BY <1>1, <2>1 DEF ScriptConns
  <2>4. TRUE \in BOOLEAN /\ FALSE \in BOOLEAN /\ 0 \in Nat
    OBVIOUS
  <2> QED
    BY <2>2, <2>3, <2>4
<1>6. 0 \in 0 .. Len(sc) /\ {} \in SUBSET (1 .. 0)
  BY <1>1
<1>7. Counted(NoHope, <<>>) /\ Reported(NoHope, {}, <<>>)
  <2>1. Len(<<>>) = 0 /\ 1 .. 0 = {}
    OBVIOUS
  <2> QED
    BY <2>1 DEF Counted, Reported, NoHope
<1>8. Incoming(<<>>, t, sc, 0)
  <2>1. Offset(sc, 0) = 0
    BY <1>1 DEF Offset
  <2>2. <<>> \o t = t /\ From(t, 0) = t
    BY <1>1 DEF From
  <2>3. RbufSize \in Nat /\ Len(<<>>) = 0 /\ <<>> \in Seq(ScriptUnits)
    BY ClientAssumption
  <2>4. Len(<<>>) <= RbufSize
    BY <2>3
  <2> QED
    BY <1>1, <1>6, <2>1, <2>2, <2>3, <2>4 DEF Incoming, t
<1>9. Going(NoHope, c, sc, {}, 0)
  <2>1. ~NoHope.over /\ NoHope.start = 0
    BY DEF NoHope
  <2>2. Incoming(c.rbuf, c.in, sc, 0)
    BY <1>4, <1>8
  <2>3. c.batch = (NoHope.start # 0)
    BY <1>4, <2>1
  <2> QED
    BY <1>4, <2>1, <2>2, <2>3 DEF Going
<1> QED
  BY <1>2, <1>4, <1>5, <1>6, <1>7, <1>9, NoAnswers DEF ScriptGood, E

(* The script begins.                                                      *)
LEMMA ScriptInit == Init => ScriptInv
<1> SUFFICES ASSUME Init PROVE ScriptInv
  OBVIOUS
<1>1. script \in Seq(Script) /\ replies = <<>> /\ failed = {}
  <2>1. script = <<>> \/ script \in SeqOf(Script, ScriptLen)
    BY DEF Init
  <2>2. ASSUME NEW m \in 0 .. ScriptLen, script \in [1 .. m -> Script]
        PROVE  script \in Seq(Script)
    <3>1. m \in Nat
      BY ClientAssumption
    <3> QED
      BY <2>2, <3>1
  <2>3. script \in Seq(Script)
    <3>1. CASE script = <<>>
      BY <3>1
    <3>2. CASE script \in SeqOf(Script, ScriptLen)
      BY <2>2, <3>2 DEF SeqOf
    <3> QED
      BY <2>1, <3>1, <3>2
  <2> QED
    BY <2>3 DEF Init
<1>2. CASE mode = "script"
  <2> DEFINE s == ScriptServer
             c == conn[s]
  <2>1. s \in Servers
    BY ClientAssumption DEF ScriptServer
  <2>2. /\ s \in DOMAIN conn
        /\ c = [Fresh EXCEPT !.in = FlattenSeq([i \in DOMAIN script |->
                  CommandUnits(i, script[i].name, script[i].len)])]
    BY <2>1 DEF Init
  <2>3. c = [Fresh EXCEPT !.in = Stream(script)]
    BY <1>1, <2>2, CommandPieces
  <2> HIDE DEF c
  <2>4. ScriptGood(HopeFcn(script), script, c, <<>>, {}, 0, <<>>)
    BY <1>1, <2>3, GoodFirst
  <2> QED
    BY <1>1, <1>2, <2>2, <2>4 DEF ScriptInv, c
<1> QED
  BY <1>1, <1>2 DEF ScriptInv

(* Every step keeps the invariant of the script.                           *)
LEMMA ScriptNext == ScriptInv /\ [Next]_vars => ScriptInv'
<1> SUFFICES ASSUME ScriptInv, [Next]_vars PROVE ScriptInv'
  OBVIOUS
<1>1. CASE mode = "script" /\ mode' = mode /\ ReadReply(ScriptServer)
  BY <1>1, ScriptReads
<1>2. CASE mode = "script" /\ mode' = mode /\ Serve(ScriptServer) /\ UNCHANGED scriptVars
  BY <1>2, ScriptServes
<1>3. CASE mode # "script" /\ mode' = mode /\ UNCHANGED scriptVars
  BY <1>3 DEF ScriptInv, scriptVars
<1>4. CASE UNCHANGED vars
  BY <1>4 DEF ScriptInv, vars, scriptVars
<1> QED
  BY <1>1, <1>2, <1>3, <1>4 DEF Next

\* The answers that were read, one by one.
Begun(A, reps) ==
    /\ reps \in Seq(Replies) /\ Len(reps) \in 0 .. Len(A) /\ Len(A) \in Nat
    /\ \A i \in 1 .. Len(reps) : reps[i] = A[i] /\ A[i] \in Replies

(* The answers that were read are the first ones.                          *)
LEMMA FirstReplies ==
    ASSUME NEW A, NEW reps, NEW out, Answers(A, reps, out)
    PROVE  Begun(A, reps)
<1> DEFINE r == Len(reps)
<1>1. A \in Seq(Replies) /\ r \in 0 .. Len(A) /\ reps = SubSeq(A, 1, r) /\ Len(A) \in Nat
  BY DEF Answers, AreReplies
<1> HIDE DEF r
<1>2. SubSeq(A, 1, r) \in Seq(Replies) /\ \A i \in 1 .. r : SubSeq(A, 1, r)[i] = A[i]
  BY <1>1
<1>3. \A i \in 1 .. r : A[i] \in Replies
  BY <1>1
<1> QED
  BY <1>1, <1>2, <1>3 DEF Begun, r

(* From the invariant to the answers.                                      *)
LEMMA InvScript == ScriptInv => AnswersInOrder /\ BatchReported
<1> SUFFICES ASSUME ScriptInv PROVE AnswersInOrder /\ BatchReported
  OBVIOUS
<1> DEFINE E == HopeFcn(script)
           N == Len(script)
           d == E[N]
           q == [i \in DOMAIN replies |-> replies[i].id]
<1>1. script \in Seq(Script) /\ N \in Nat /\ N \in 0 .. N
  BY DEF ScriptInv
<1>2. IsHope(E, script) /\ Expect = E
  BY <1>1, HopesAre, ExpectIs
<1>3. d \in Hopes /\ d.ids \in Seq(Nat)
  BY <1>1, <1>2 DEF IsHope, Hopes
<1>4. CASE mode # "script"
  <2>1. replies = <<>>
    BY <1>4 DEF ScriptInv
  <2>2. DOMAIN replies = {} /\ q = <<>>
    BY <2>1
  <2>3. IsPrefix(q, d.ids)
    <3>1. Len(<<>>) = 0 /\ SubSeq(<<>>, 1, 0) = <<>> /\ SubSeq(d.ids, 1, 0) = <<>>
          /\ 0 <= Len(d.ids)
      BY <1>3
    <3> HIDE DEF d
    <3> QED
      BY <2>2, <3>1 DEF IsPrefix
  <2>4. AnswersInOrder
    BY <1>2, <2>2, <2>3 DEF AnswersInOrder
  <2>5. BatchReported
    BY <2>2 DEF BatchReported
  <2> QED
    BY <2>4, <2>5
<1>5. CASE mode = "script"
  <2>1. PICK k, A : ScriptGood(E, script, conn[ScriptServer], replies, failed, k, A)
    BY <1>5 DEF ScriptInv
  <2> DEFINE e == E[k]
             r == Len(replies)
  <2>2. /\ k \in 0 .. N /\ Answers(A, replies, conn[ScriptServer].out) /\ Counted(e, A)
        /\ Reported(e, failed, A)
    BY <2>1 DEF ScriptGood
  <2>3. /\ replies \in Seq(Replies) /\ r \in 0 .. Len(A) /\ Len(A) \in Nat
        /\ DOMAIN replies = 1 .. r
        /\ \A i \in 1 .. r : replies[i] = A[i] /\ A[i] \in Replies
    <3>1. Begun(A, replies)
      BY <2>2, FirstReplies
    <3> QED
      BY <3>1 DEF Begun
  <2>4. Grown(e, d, k) /\ Hopeful(e, k) /\ e \in Hopes
    BY <1>1, <1>2, <2>2, HopeGrows, HopeBounds DEF IsHope
  <2> HIDE DEF e, d, E, N
  <2>5. ASSUME NEW i \in 1 .. r
        PROVE  replies[i].id \in Nat /\ replies[i].id = d.ids[i] /\ replies[i].id <= k
               /\ replies[i].kind = "status" /\ i \in 1 .. Len(A)
    <3>1. i \in 1 .. Len(A) /\ i \in 1 .. Len(e.ids)
      BY <2>2, <2>3 DEF Counted
    <3>2. replies[i].id = e.ids[i]
      BY <2>2, <2>3, <3>1 DEF Counted
    <3>3. e.ids[i] = d.ids[i] /\ e.ids[i] <= k
      BY <2>4, <3>1 DEF Grown, Hopeful
    <3>4. replies[i].id \in Nat /\ replies[i].kind = "status"
      BY <2>3 DEF Replies
    <3> QED
      BY <3>1, <3>2, <3>3, <3>4
  <2>6. q \in Seq(Nat) /\ Len(q) = r /\ \A i \in 1 .. r : q[i] = d.ids[i]
    <3>1. q = [i \in 1 .. r |-> replies[i].id] /\ r \in Nat
      BY <2>3
    <3>2. q \in [1 .. r -> Nat]
      BY <2>5, <3>1
    <3>3. \A i \in 1 .. r : q[i] = d.ids[i]
      BY <2>5, <3>1
    <3> HIDE DEF q
    <3> QED
      BY <3>1, <3>2, <3>3
  <2>7. r <= Len(d.ids) /\ r \in Nat /\ Len(d.ids) \in Nat
    <3>1. Len(e.ids) = Len(A) /\ Len(e.ids) <= Len(d.ids)
      BY <2>2, <2>4 DEF Counted, Grown
    <3>2. Len(d.ids) \in Nat
      BY <1>3
    <3> QED
      BY <2>3, <3>1, <3>2
  <2> HIDE DEF q, r
  <2>8. IsPrefix(q, d.ids)
    <3> DEFINE u == d.ids
               v == SubSeq(u, 1, r)
               w == SubSeq(q, 1, r)
    <3>1. v \in Seq(Nat) /\ Len(v) = r /\ \A i \in 1 .. r : v[i] = u[i]
      BY <1>3, <2>7
    <3>2. w \in Seq(Nat) /\ Len(w) = r /\ \A i \in 1 .. r : w[i] = q[i]
      BY <2>6, <2>7
    <3> HIDE DEF v, w
    <3>3. w = v
      BY <2>6, <3>1, <3>2, SameSeq
    <3> QED
      BY <2>6, <2>7, <3>3 DEF IsPrefix, v, w
  <2>9. AnswersInOrder
    <3>1. Expect[Len(script)].ids = d.ids
      BY <1>2 DEF d, N
    <3>2. \A i \in DOMAIN replies : replies[i].kind = "status"
      BY <2>3, <2>5
    <3>3. IsPrefix([i \in DOMAIN replies |-> replies[i].id], Expect[Len(script)].ids)
      BY <2>8, <3>1 DEF q
    <3> QED
      BY <3>2, <3>3 DEF AnswersInOrder
  <2>10. ASSUME NEW i \in DOMAIN replies, NEW b \in ToSet(Expect[Len(script)].batches),
                replies[i].id = b[2]
         PROVE  replies[i].lines = Report(failed, b[1], b[2])
    <3>1. b \in ToSet(d.batches)
      BY <1>2 DEF d, N
    <3>2. i \in 1 .. r
      BY <2>3
    <3>3. replies[i].id <= k /\ i \in 1 .. Len(A) /\ replies[i] = A[i]
      BY <2>3, <2>5, <3>2
    <3>4. b[2] <= k
      BY <2>10, <3>3
    <3>5. b \in ToSet(e.batches)
      BY <2>4, <3>1, <3>4 DEF Grown
    <3> QED
      BY <2>2, <2>10, <3>3, <3>5 DEF Reported
  <2>11. BatchReported
    <3> SUFFICES ASSUME NEW i \in DOMAIN replies, NEW b \in ToSet(Expect[Len(script)].batches),
                        replies[i].id = b[2]
                 PROVE  replies[i].lines = Report(failed, b[1], b[2])
      BY DEF BatchReported, Report, Listed, Ranked
    <3> QED
      BY <2>10
  <2> QED
    BY <2>9, <2>11
<1> QED
  BY <1>4, <1>5

(* A script that sends its commands without waiting gets one answer for    *)
(* each command it can expect one for, in the order of the commands,       *)
(* however read() cuts the stream (connection_thread_main).                *)
THEOREM ClientAnswersInOrder == Spec => []AnswersInOrder
<1>1. Init => ScriptInv
  BY ScriptInit
<1>2. ScriptInv /\ [Next]_vars => ScriptInv'
  BY ScriptNext
<1>3. ScriptInv => AnswersInOrder
  BY InvScript
<1> QED
  BY <1>1, <1>2, <1>3, PTL DEF Spec

(* The answer to the end of a batch lists exactly the commands of the      *)
(* batch that failed, with their numbers in it, in order (send_response,   *)
(* batch_start and batch_done).                                            *)
THEOREM ClientBatchReported == Spec => []BatchReported
<1>1. Init => ScriptInv
  BY ScriptInit
<1>2. ScriptInv /\ [Next]_vars => ScriptInv'
  BY ScriptNext
<1>3. ScriptInv => BatchReported
  BY InvScript
<1> QED
  BY <1>1, <1>2, <1>3, PTL DEF Spec

=============================================================================
