------------------------- MODULE RrdRecoveryProofs --------------------------
(***************************************************************************)
(* No accepted value is lost: what the cache, the update threads and the   *)
(* journal keep of it, proved for any number of files, connections and     *)
(* update threads, and for any number of signals, crashes and restarts.    *)
(***************************************************************************)
EXTENDS RrdCachedProofs

-----------------------------------------------------------------------------
(* Logs: what an entry appended, a set of files closed or lost, and a      *)
(* replayed entry do to what a journal says                                *)

\* The entries of log say nothing but "update" about f.
OnlyUpdates(log, f) == \A e \in ElementsOf(log) : e.file = f => e.op = "update"

\* Replayable, for one stamp.
Back(log, f, s) ==
    \E j \in DOMAIN log :
        /\ log[j].file = f /\ s \in ElementsOf(log[j].vals)
        /\ \A k \in j .. Len(log) : log[k].file = f => log[k].op = "update"

(* Back is membership in Replayable.                                       *)
LEMMA BackIsReplayable ==
    ASSUME NEW log, NEW f, NEW s
    PROVE  s \in Replayable(log, f) <=> Back(log, f, s)
BY DEF Replayable, Back

(* The elements of a sequence that is put together.                        *)
LEMMA ElementsConcat ==
    ASSUME NEW S, NEW a \in Seq(S), NEW b \in Seq(S)
    PROVE  ElementsOf(a \o b) = ElementsOf(a) \cup ElementsOf(b)
<1>1. /\ a \o b \in Seq(S) /\ Len(a \o b) = Len(a) + Len(b)
      /\ \A i \in 1 .. Len(a) : (a \o b)[i] = a[i]
      /\ \A i \in 1 .. Len(b) : (a \o b)[Len(a) + i] = b[i]
  <2>1. \A i \in 1 .. Len(b) : Len(a) + i \in 1 .. Len(a) + Len(b) /\ ~(Len(a) + i <= Len(a))
                               /\ (Len(a) + i) - Len(a) = i
    OBVIOUS
  <2>2. \A i \in 1 .. Len(a) : i \in 1 .. Len(a) + Len(b) /\ i <= Len(a)
    OBVIOUS
  <2> QED BY <2>1, <2>2, ConcatProperties
<1> DEFINE c == a \o b
<1>2. DOMAIN a = 1 .. Len(a) /\ DOMAIN b = 1 .. Len(b) /\ DOMAIN c = 1 .. Len(a) + Len(b)
  BY <1>1
<1> HIDE DEF c
<1>3. \A i \in DOMAIN c : i \in DOMAIN a \/ \E k \in DOMAIN b : i = Len(a) + k
  <2> SUFFICES ASSUME NEW i \in DOMAIN c, i \notin DOMAIN a
               PROVE  \E k \in DOMAIN b : i = Len(a) + k
    OBVIOUS
  <2>1. i - Len(a) \in DOMAIN b /\ i = Len(a) + (i - Len(a))
    BY <1>2
  <2> QED BY <2>1
<1>4. \A i \in DOMAIN a : i \in DOMAIN c /\ c[i] = a[i]
  BY <1>1, <1>2 DEF c
<1>5. \A k \in DOMAIN b : Len(a) + k \in DOMAIN c /\ c[Len(a) + k] = b[k]
  BY <1>1, <1>2 DEF c
<1>6. ElementsOf(c) = ElementsOf(a) \cup ElementsOf(b)
  BY <1>3, <1>4, <1>5 DEF ElementsOf
<1> QED BY <1>6 DEF c

(* A sequence with nothing in it, and one with one element.                *)
LEMMA ElementsSmall ==
    /\ ElementsOf(<<>>) = {}
    /\ \A e : ElementsOf(<<e>>) = {e}
BY DEF ElementsOf

(* An element appended.                                                    *)
LEMMA ElementsAppend ==
    ASSUME NEW S, NEW a \in Seq(S), NEW e \in S
    PROVE  ElementsOf(Append(a, e)) = ElementsOf(a) \cup {e}
<1>1. Append(a, e) = a \o <<e>>
  BY AppendIsConcat
<1>2. <<e>> \in Seq(S)
  OBVIOUS
<1>3. ElementsOf(a \o <<e>>) = ElementsOf(a) \cup ElementsOf(<<e>>)
  BY <1>2, ElementsConcat
<1>4. ElementsOf(<<e>>) = {e}
  BY ElementsSmall
<1> QED BY <1>1, <1>3, <1>4, Zenon

(* A sequence cut in two.                                                  *)
LEMMA ElementsCut ==
    ASSUME NEW S, NEW a \in Seq(S), NEW k \in 0 .. Len(a)
    PROVE  /\ SubSeq(a, 1, k) \in Seq(S) /\ SubSeq(a, k + 1, Len(a)) \in Seq(S)
           /\ a = SubSeq(a, 1, k) \o SubSeq(a, k + 1, Len(a))
           /\ ElementsOf(a) = ElementsOf(SubSeq(a, 1, k))
                              \cup ElementsOf(SubSeq(a, k + 1, Len(a)))
<1>1. SubSeq(a, 1, k) \in Seq(S)
  BY SubSeqProperties
<1>2. SubSeq(a, k + 1, Len(a)) \in Seq(S)
  <2>1. k + 1 \in Int /\ Len(a) \in Int /\ \A i \in k + 1 .. Len(a) : a[i] \in S
    OBVIOUS
  <2> QED BY <2>1, SubSeqProperties
<1>3. a = SubSeq(a, 1, k) \o SubSeq(a, k + 1, Len(a))
  <2>1. 1 \in 1 .. Len(a) + 1 /\ k \in 1 - 1 .. Len(a) /\ Len(a) \in k .. Len(a)
    OBVIOUS
  <2>2. SubSeq(a, 1, k) \o SubSeq(a, k + 1, Len(a)) = SubSeq(a, 1, Len(a))
    BY <2>1, ConcatAdjacentSubSeq
  <2>3. SubSeq(a, 1, Len(a)) = a
    BY SubSeqFull
  <2> QED BY <2>2, <2>3, Zenon
<1> DEFINE l == SubSeq(a, 1, k)
           r == SubSeq(a, k + 1, Len(a))
<1> HIDE DEF l, r
<1>4. ElementsOf(l \o r) = ElementsOf(l) \cup ElementsOf(r)
  BY <1>1, <1>2, ElementsConcat DEF l, r
<1> QED BY <1>1, <1>2, <1>3, <1>4, Zenon DEF l, r

(* A sequence and its first element.                                       *)
LEMMA ElementsHead ==
    ASSUME NEW S, NEW a \in Seq(S), a # <<>>
    PROVE  /\ Head(a) \in S /\ Tail(a) \in Seq(S) /\ <<Head(a)>> \in Seq(S)
           /\ a = <<Head(a)>> \o Tail(a)
           /\ ElementsOf(a) = {Head(a)} \cup ElementsOf(Tail(a))
<1>1. Head(a) \in S /\ Tail(a) \in Seq(S) /\ Head(a) = a[1]
  OBVIOUS
<1>2. <<Head(a)>> \in Seq(S)
  BY <1>1
<1>3. a = <<Head(a)>> \o Tail(a)
  <2>1. 1 \in 1 .. Len(a) /\ Len(a) \in 1 .. Len(a) /\ 1 + 1 = 2
    OBVIOUS
  <2>2. SubSeq(a, 1, Len(a)) = <<a[1]>> \o SubSeq(a, 1 + 1, Len(a))
    BY <2>1, SubSeqRecursiveFirst
  <2>3. SubSeq(a, 1, Len(a)) = a /\ Tail(a) = SubSeq(a, 2, Len(a))
    BY SubSeqFull, TailIsSubSeq
  <2> QED BY <1>1, <2>1, <2>2, <2>3, Zenon
<1>4. ElementsOf(<<Head(a)>> \o Tail(a)) = ElementsOf(<<Head(a)>>) \cup ElementsOf(Tail(a))
  BY <1>1, <1>2, ElementsConcat
<1>5. ElementsOf(<<Head(a)>>) = {Head(a)}
  BY ElementsSmall
<1> QED BY <1>1, <1>2, <1>3, <1>4, <1>5, Zenon

(* What a replay of two logs, one after the other, brings back.            *)
LEMMA BackConcat ==
    ASSUME NEW a \in Seq(Entries), NEW b \in Seq(Entries), NEW f, NEW s
    PROVE  Back(a \o b, f, s) <=> Back(b, f, s) \/ (Back(a, f, s) /\ OnlyUpdates(b, f))
<1> DEFINE c == a \o b
<1>1. /\ c \in Seq(Entries) /\ Len(c) = Len(a) + Len(b)
      /\ \A i \in 1 .. Len(a) + Len(b) : c[i] = IF i <= Len(a) THEN a[i] ELSE b[i - Len(a)]
  BY ConcatProperties
<1> HIDE DEF c
<1>2. \A k \in 1 .. Len(a) : k \in 1 .. Len(c) /\ c[k] = a[k]
  BY <1>1
<1>3. \A k \in 1 .. Len(b) : Len(a) + k \in 1 .. Len(c) /\ c[Len(a) + k] = b[k]
  <2> SUFFICES ASSUME NEW k \in 1 .. Len(b)
               PROVE  Len(a) + k \in 1 .. Len(c) /\ c[Len(a) + k] = b[k]
    OBVIOUS
  <2>1. Len(a) + k \in 1 .. Len(a) + Len(b) /\ ~(Len(a) + k <= Len(a))
        /\ (Len(a) + k) - Len(a) = k
    OBVIOUS
  <2> QED BY <1>1, <2>1
<1>4. \A i \in 1 .. Len(c) : ~(i <= Len(a)) => i - Len(a) \in 1 .. Len(b) /\ c[i] = b[i - Len(a)]
  BY <1>1
<1>5. /\ DOMAIN a = 1 .. Len(a) /\ DOMAIN b = 1 .. Len(b) /\ DOMAIN c = 1 .. Len(c)
      /\ Len(a) \in Nat /\ Len(b) \in Nat /\ Len(c) = Len(a) + Len(b)
  BY <1>1
<1>6. ASSUME Back(c, f, s) PROVE Back(b, f, s) \/ (Back(a, f, s) /\ OnlyUpdates(b, f))
  <2>1. PICK j \in DOMAIN c : /\ c[j].file = f /\ s \in ElementsOf(c[j].vals)
                              /\ \A k \in j .. Len(c) : c[k].file = f => c[k].op = "update"
    BY <1>6 DEF Back
  <2>2. CASE j <= Len(a)
    <3>1. \A k \in j .. Len(a) : a[k].file = f => a[k].op = "update"
      BY <1>2, <1>5, <2>1, <2>2
    <3>2. \A k \in 1 .. Len(b) : b[k].file = f => b[k].op = "update"
      <4> SUFFICES ASSUME NEW k \in 1 .. Len(b), b[k].file = f PROVE b[k].op = "update"
        OBVIOUS
      <4>1. Len(a) + k \in j .. Len(c)
        BY <1>5, <2>2
      <4> QED BY <1>3, <2>1, <4>1
    <3>3. j \in DOMAIN a /\ a[j] = c[j]
      BY <1>2, <1>5, <2>2
    <3>4. Back(a, f, s)
      BY <2>1, <3>1, <3>3 DEF Back
    <3>5. OnlyUpdates(b, f)
      BY <1>5, <3>2 DEF OnlyUpdates, ElementsOf
    <3> QED BY <3>4, <3>5
  <2>3. CASE ~(j <= Len(a))
    <3> DEFINE i == j - Len(a)
    <3>1. i \in DOMAIN b /\ b[i] = c[j]
      BY <1>4, <1>5, <2>3
    <3>2. \A k \in i .. Len(b) : b[k].file = f => b[k].op = "update"
      <4> SUFFICES ASSUME NEW k \in i .. Len(b), b[k].file = f PROVE b[k].op = "update"
        OBVIOUS
      <4>1. k \in 1 .. Len(b) /\ Len(a) + k \in j .. Len(c)
        BY <1>5, <3>1
      <4> QED BY <1>3, <2>1, <4>1
    <3> HIDE DEF i
    <3> QED BY <2>1, <3>1, <3>2 DEF Back
  <2> QED BY <2>2, <2>3
<1>7. ASSUME Back(b, f, s) PROVE Back(c, f, s)
  <2>1. PICK i \in DOMAIN b : /\ b[i].file = f /\ s \in ElementsOf(b[i].vals)
                              /\ \A k \in i .. Len(b) : b[k].file = f => b[k].op = "update"
    BY <1>7 DEF Back
  <2> DEFINE j == Len(a) + i
  <2>2. j \in DOMAIN c /\ c[j] = b[i]
    BY <1>3, <1>5
  <2>3. \A k \in j .. Len(c) : c[k].file = f => c[k].op = "update"
    <3> SUFFICES ASSUME NEW k \in j .. Len(c), c[k].file = f PROVE c[k].op = "update"
      OBVIOUS
    <3>1. k \in 1 .. Len(c) /\ ~(k <= Len(a)) /\ k - Len(a) \in i .. Len(b)
      BY <1>5
    <3> QED BY <1>4, <2>1, <3>1
  <2> HIDE DEF j
  <2> QED BY <2>1, <2>2, <2>3 DEF Back
<1>8. ASSUME Back(a, f, s), OnlyUpdates(b, f) PROVE Back(c, f, s)
  <2>1. PICK j \in DOMAIN a : /\ a[j].file = f /\ s \in ElementsOf(a[j].vals)
                              /\ \A k \in j .. Len(a) : a[k].file = f => a[k].op = "update"
    BY <1>8 DEF Back
  <2>2. \A k \in 1 .. Len(b) : b[k].file = f => b[k].op = "update"
    BY <1>5, <1>8 DEF OnlyUpdates, ElementsOf
  <2>3. \A k \in j .. Len(c) : c[k].file = f => c[k].op = "update"
    <3> SUFFICES ASSUME NEW k \in j .. Len(c), c[k].file = f PROVE c[k].op = "update"
      OBVIOUS
    <3>1. CASE k <= Len(a)
      BY <1>2, <1>5, <2>1, <3>1
    <3>2. CASE ~(k <= Len(a))
      BY <1>4, <1>5, <2>2, <3>2
    <3> QED BY <3>1, <3>2
  <2>4. j \in DOMAIN c /\ c[j] = a[j]
    BY <1>2, <1>5
  <2> QED BY <2>1, <2>3, <2>4 DEF Back
<1> QED BY <1>6, <1>7, <1>8 DEF c

(* What a replay of a log with one entry brings back, and of none.         *)
LEMMA BackSmall ==
    ASSUME NEW f, NEW s
    PROVE  /\ ~Back(<<>>, f, s) /\ OnlyUpdates(<<>>, f)
           /\ \A e : /\ Back(<<e>>, f, s)
                        <=> e.file = f /\ s \in ElementsOf(e.vals) /\ e.op = "update"
                     /\ OnlyUpdates(<<e>>, f) <=> (e.file = f => e.op = "update")
<1>1. ~Back(<<>>, f, s)
  BY DEF Back
<1>2. ASSUME NEW e
      PROVE  Back(<<e>>, f, s) <=> e.file = f /\ s \in ElementsOf(e.vals) /\ e.op = "update"
  <2> DEFINE l == <<e>>
  <2>1. DOMAIN l = {1} /\ Len(l) = 1 /\ l[1] = e
    OBVIOUS
  <2> HIDE DEF l
  <2>2. Back(l, f, s) <=> e.file = f /\ s \in ElementsOf(e.vals) /\ e.op = "update"
    BY <2>1 DEF Back
  <2> QED BY <2>2 DEF l
<1>3. OnlyUpdates(<<>>, f) /\ \A e : OnlyUpdates(<<e>>, f) <=> (e.file = f => e.op = "update")
  BY ElementsSmall DEF OnlyUpdates
<1> QED BY <1>1, <1>2, <1>3

(* What a replay brings back has been mentioned.                           *)
LEMMA BackMentioned ==
    ASSUME NEW log \in Seq(Entries), NEW f, NEW s, Back(log, f, s)
    PROVE  s \in Mentioned(log, f)
BY DEF Back, Mentioned

-----------------------------------------------------------------------------
(* What the control state says beyond ControlSound                         *)

\* A process that has ended keeps no item, replay is over before the update
\* threads start, cleanup waits for the flush thread, and only a thread that
\* is writing has a batch.
EndSound ==
    /\ ~Alive => tree = {}
    /\ mpc = "crashed" => \A c \in Conns : cpc[c] = "none"
    /\ mpc = "replay" => \A q \in QueueThreads : qpc[q] = "off"
    /\ mpc # "replay" => rlog = <<>>
    /\ mpc = "join_queue" => fpc = "done"
    /\ \A q \in QueueThreads : qpc[q] # "update" => job[q].batch = <<>>

(* The control state of a new daemon.                                      *)
LEMMA InitEnd == Init => EndSound
BY DEF Init, EndSound, Alive, NoJob

(* Waking update threads leaves those that write alone.                    *)
LEMMA WokenThreads ==
    ASSUME TypeOK, UNCHANGED qpc \/ qpc' = AllWoken \/ \E n : WakeQueue(n)
    PROVE  \A q \in QueueThreads : qpc'[q] = qpc[q] \/ (qpc[q] = "wait" /\ qpc'[q] = "woken")
BY DEF TypeOK, AllWoken, WakeQueue, Waiting

(* No connection adds an item to the tree of a process that has ended.     *)
LEMMA ConnEnd ==
    ASSUME IInv, EndSound, NEW c \in Conns, ConnStep(c)
    PROVE  EndSound'
<1>0. /\ cpc \in [Conns -> ConnPCs] /\ mpc \in MainPCs
      /\ qpc \in [QueueThreads -> QueuePCs] /\ CacheInv
  BY DEF IInv, TypeOK, CacheInv
<1>1. UNCHANGED <<job, mpc, rlog, fpc>> /\ (UNCHANGED qpc \/ \E n : WakeQueue(n))
  BY DEF ConnStep, ConnStart, ConnPoll, ConnAgain, ConnClose, Command, Request,
         UpdateLookup, UpdateStat, UpdateInsert, UpdateApply, FlushFile, FlushReturn,
         FlushAnswer, FlushAll, ForgetRemove, ForgetJournal, Goes, Answers, replayVars
<1>2. \A q \in QueueThreads : qpc'[q] = qpc[q] \/ (qpc[q] = "wait" /\ qpc'[q] = "woken")
  BY <1>1, WokenThreads DEF IInv
<1>3. mpc # "crashed" /\ mpc # "replay"
  <2>1. cpc[c] # "none"
    BY DEF ConnStep, ConnStart, ConnPoll, ConnAgain, ConnClose, Command, Request,
           UpdateLookup, UpdateStat, UpdateInsert, UpdateApply, FlushFile, FlushReturn,
           FlushAnswer, FlushAll, ForgetRemove, ForgetJournal, Goes, Answers
  <2> QED BY <2>1 DEF IInv, ControlSound, EndSound
<1>4. mpc = "exit" => tree' = tree
  <2>1. mpc = "exit" => cpc[c] \in {"none", "start", "loop"}
    BY DEF IInv, ControlSound, NoRequestDuringCleanup
  <2> QED BY <2>1
     DEF ConnStep, ConnStart, ConnPoll, ConnAgain, ConnClose, Command, Request,
         UpdateLookup, UpdateStat, UpdateInsert, UpdateApply, FlushFile, FlushReturn,
         FlushAnswer, FlushAll, ForgetRemove, ForgetJournal, Goes, Answers, cacheVars
<1> QED BY <1>1, <1>2, <1>3, <1>4 DEF EndSound, Alive

(* The steps of an update thread.                                          *)
LEMMA QueueEnd ==
    ASSUME IInv, EndSound, NEW q \in QueueThreads, QueueStep(q)
    PROVE  EndSound'
<1>0. /\ qpc \in [QueueThreads -> QueuePCs]
      /\ job \in [QueueThreads -> [file : Files, batch : Seq(Stamps),
                                   jtest : BOOLEAN, raced : BOOLEAN]]
      /\ cpc \in [Conns -> ConnPCs]
  BY DEF IInv, TypeOK
<1>1. UNCHANGED <<mpc, rlog, fpc, tree>>
  BY DEF QueueStep, QueueLoop, QueueWoken, QueueUpdate, QueueJournal, QueueBroadcast,
         Dequeue, TakeValues, replayVars, cacheVars
<1>2. \A c \in Conns : cpc[c] = "none" => cpc'[c] = "none"
  BY <1>0 DEF QueueStep, QueueLoop, QueueWoken, QueueUpdate, QueueJournal, QueueBroadcast,
         Flushed, WokenBy
<1>3. mpc # "replay"
  BY DEF QueueStep, QueueLoop, QueueWoken, QueueUpdate, QueueJournal, QueueBroadcast,
         EndSound
<1>4. \A p \in QueueThreads : qpc'[p] # "update" => job'[p].batch = <<>>
  <2>1. CASE Dequeue(q)
    BY <1>0, <2>1 DEF Dequeue, EndSound
  <2>2. CASE QueueUpdate(q)
    <3>1. job'[q].batch = <<>>
      BY <1>0, <2>2 DEF QueueUpdate
    <3>2. \A p \in QueueThreads \ {q} : job'[p] = job[p] /\ qpc'[p] = qpc[p]
      BY <1>0, <2>2 DEF QueueUpdate
    <3> QED BY <3>1, <3>2 DEF EndSound
  <2>3. CASE QueueJournal(q)
    BY <1>0, <2>3 DEF QueueJournal, EndSound
  <2>4. CASE QueueBroadcast(q)
    BY <1>0, <2>4 DEF QueueBroadcast, EndSound, NoJob
  <2>5. CASE job' = job /\ qpc[q] # "update"
             /\ \E pc \in {"done", "wait", "loop"} : qpc' = [qpc EXCEPT ![q] = pc]
    BY <1>0, <2>5 DEF EndSound
  <2> QED BY <2>1, <2>2, <2>3, <2>4, <2>5 DEF QueueStep, QueueLoop, QueueWoken
<1> QED BY <1>1, <1>2, <1>3, <1>4 DEF EndSound, Alive

(* Every step keeps EndSound.                                              *)
LEMMA NextEnd ==
    ASSUME IInv, EndSound, [Next]_vars
    PROVE  EndSound'
<1>0. /\ qpc \in [QueueThreads -> QueuePCs] /\ cpc \in [Conns -> ConnPCs] /\ CacheInv
      /\ mpc \in MainPCs
  BY DEF IInv, TypeOK, CacheInv
<1>1. CASE FlushStep
  <2>1. UNCHANGED <<mpc, rlog, job>> /\ (UNCHANGED qpc \/ \E n : WakeQueue(n))
        /\ (fpc = "done" => fpc' = "done") /\ mpc # "replay"
    BY <1>1 DEF FlushStep, FlushOld, FlushExit, FlushPrepare, FlushWait, FlushTimeout,
         FlushRelock, FlushGoes, RotateClose, RotateOpen, RotateRemove, replayVars,
         IInv, ControlSound
  <2>2. \A q \in QueueThreads : qpc'[q] = qpc[q] \/ (qpc[q] = "wait" /\ qpc'[q] = "woken")
    BY <2>1, WokenThreads DEF IInv
  <2>3. tree' \subseteq tree /\ \A c \in Conns : cpc[c] = "none" => cpc'[c] = "none"
    BY <1>0, <1>1 DEF FlushStep, FlushOld, FlushExit, FlushPrepare, FlushWait, FlushTimeout,
         FlushRelock, FlushGoes, RotateClose, RotateOpen, RotateRemove, Flushed,
         FlushOldValues, RemoveItems, cacheVars
  <2> QED BY <2>1, <2>2, <2>3 DEF EndSound, Alive
<1>2. ASSUME NEW kept, Die(kept) PROVE EndSound'
  BY <1>2 DEF Die, CacheGone, EndSound, Alive, NoJob
<1>3. CASE MainStep
  <2>1. CASE ListenPoll \/ ListenAccept \/ ListenStop \/ Drain \/ JoinFlush
    <3>1. /\ UNCHANGED <<rlog, job, tree>> /\ (UNCHANGED qpc \/ qpc' = AllWoken)
          /\ mpc' \notin {"replay", "exit", "crashed"} /\ mpc # "replay"
          /\ mpc' = "join_queue" => fpc' = "done"
      BY <2>1 DEF ListenPoll, ListenAccept, ListenStop, Drain, JoinFlush, MainGoes,
                  replayVars, cacheVars, FlushWoken
    <3>2. \A q \in QueueThreads : qpc'[q] = qpc[q] \/ (qpc[q] = "wait" /\ qpc'[q] = "woken")
      BY <3>1, WokenThreads DEF IInv
    <3> QED BY <3>1, <3>2 DEF EndSound, Alive
  <2>2. CASE Cleanup
    BY <2>2 DEF Cleanup, CacheGone, EndSound, Alive, replayVars
  <2>3. CASE ReplayEntry
    BY <2>3 DEF ReplayEntry, EndSound, Alive, threadVars
  <2>4. CASE ReplayDone
    BY <2>4 DEF ReplayDone, EndSound, Alive, replayVars
  <2>5. CASE AssertFails
    BY <1>2, <2>5 DEF AssertFails
  <2> QED BY <1>3, <2>1, <2>2, <2>3, <2>4, <2>5 DEF MainStep
<1>4. CASE Crash \/ NullWrite
  BY <1>2, <1>4 DEF Crash, NullWrite
<1>5. CASE Restart
  BY <1>5 DEF Restart, EndSound, Alive, NoJob
<1>6. CASE Tick
  BY <1>6 DEF Tick, CacheTick, EndSound, Alive, replayVars
<1>7. ASSUME NEW s \in Signals, Signal(s) PROVE EndSound'
  <2>1. /\ UNCHANGED <<rlog, job, tree, mpc, cpc>> /\ qpc' = AllWoken
        /\ (fpc = "done" => fpc' = "done")
    BY <1>7 DEF Signal, replayVars, cacheVars, FlushWoken
  <2>2. \A q \in QueueThreads : qpc'[q] = qpc[q] \/ (qpc[q] = "wait" /\ qpc'[q] = "woken")
    BY <2>1, WokenThreads DEF IInv
  <2> QED BY <2>1, <2>2 DEF EndSound, Alive
<1>8. CASE UNCHANGED vars
  BY <1>8 DEF vars, threadVars, replayVars, cacheVars, EndSound, Alive
<1> QED BY <1>1, <1>3, <1>4, <1>5, <1>6, <1>7, <1>8, ConnEnd, QueueEnd DEF Next

-----------------------------------------------------------------------------
(* Steps that leave the values where they are                              *)

\* What most steps do: no value moves, nothing is journalled and nothing is
\* excused; items without values may be purged and files may be queued.
Quiet ==
    /\ UNCHANGED <<rrd, owed, excused, newest, jold, jcur, rlog>>
    /\ jdead' \in {jdead, <<>>}
    /\ flushAtShutdown' = flushAtShutdown \/ fpc # "done"
    /\ fpc' = "done" <=> fpc = "done"
    /\ mpc' = mpc \/ {mpc, mpc'} \cap {"replay", "exit", "crashed"} = {}
    /\ \A f \in Files : values'[f] = values[f] /\ lastStamp'[f] \in {0, lastStamp[f]}
    /\ \A f : InQueue(queue, f) => InQueue(queue', f)
    /\ \A q \in QueueThreads :
          /\ qpc'[q] = "update" <=> qpc[q] = "update"
          /\ job'[q] = job[q] \/ (job'[q] = NoJob /\ qpc[q] # "update")
    /\ \A c \in Conns :
          \/ arg'[c].file = arg[c].file /\ arg'[c].vals = arg[c].vals
          \/ arg'[c].vals = <<>>

\* The steps that are not quiet.
ConnMoves(c) ==
    Command(c) \/ UpdateApply(c) \/ ForgetJournal(c) \/ (ForgetRemove(c) /\ arg[c].file \in tree)
Dequeues(q) == (QueueLoop(q) \/ QueueWoken(q)) /\ Dequeue(q)
QueueMoves(q) == Dequeues(q) \/ QueueUpdate(q) \/ QueueJournal(q)
Dies == \E kept \in jsafe .. Len(jcur) : Die(kept)
OtherMoves ==
    \/ RotateClose \/ FlushExit \/ Cleanup \/ Dies \/ Restart
    \/ ReplayEntry \/ ReplayDone \/ \E s \in Signals : Signal(s)

(* flush_old_values moves no value.                                        *)
LEMMA FlushOldQuiet ==
    ASSUME CacheInv, NEW minAge \in Int, NEW running \in BOOLEAN,
           FlushOldValues(minAge, running)
    PROVE  /\ \A f \in Files : values'[f] = values[f] /\ lastStamp'[f] \in {0, lastStamp[f]}
           /\ \A f : InQueue(queue, f) => InQueue(queue', f)
<1>1. \A f \in Files : lastStamp'[f] \in {0, lastStamp[f]}
  BY DEF FlushOldValues, RemoveItems
<1> QED BY <1>1, FlushedOldValues

(* A connection's step is quiet or one of the four above.                  *)
LEMMA ConnQuiet ==
    ASSUME IInv, NEW c \in Conns, ConnStep(c)
    PROVE  Quiet \/ ConnMoves(c)
<1>0. /\ cpc \in [Conns -> ConnPCs] /\ qpc \in [QueueThreads -> QueuePCs] /\ CacheInv
      /\ arg \in [Conns -> [file : Files, vals : Seq(Stamps),
                            jtest : BOOLEAN, due : SUBSET Stamps]]
      /\ queue \in Seq(Files) /\ NoDuplicates(queue)
  BY DEF IInv, TypeOK, CacheInv, CacheTypeOK, QueueSound
<1> SUFFICES ASSUME ~ConnMoves(c) PROVE Quiet
  OBVIOUS
<1>1. UNCHANGED <<rrd, owed, excused, newest, jdead, jold, jcur, rlog, flushAtShutdown,
                  fpc, mpc, job>>
  BY DEF ConnMoves, ConnStep, ConnStart, ConnPoll, ConnAgain, ConnClose,
         UpdateLookup, UpdateStat, UpdateInsert, FlushFile, FlushReturn,
         FlushAnswer, FlushAll, ForgetRemove, Goes, Answers,
         replayVars, diskVars, journalVars
<1>2. \A q \in QueueThreads : qpc'[q] = qpc[q] \/ (qpc[q] = "wait" /\ qpc'[q] = "woken")
  <2>1. UNCHANGED qpc \/ \E n : WakeQueue(n)
    BY DEF ConnMoves, ConnStep, ConnStart, ConnPoll, ConnAgain, ConnClose,
         UpdateLookup, UpdateStat, UpdateInsert, FlushFile, FlushReturn,
         FlushAnswer, FlushAll, ForgetRemove, Goes, Answers
  <2> QED BY <2>1, WokenThreads DEF IInv
<1>3. /\ \A f \in Files : values'[f] = values[f] /\ lastStamp'[f] \in {0, lastStamp[f]}
      /\ \A f : InQueue(queue, f) => InQueue(queue', f)
  <2>1. CASE FlushAll(c)
    BY <1>0, <2>1, EverythingAgeType, FlushOldQuiet DEF FlushAll
  <2>2. CASE FlushFile(c)
    <3>1. arg[c].file \in Files
      BY <1>0
    <3>2. UNCHANGED <<values, lastStamp>> /\ (queue' = queue \/ queue' = AtHead(queue, arg[c].file))
      BY <2>2 DEF FlushFile, PutAtHead, cacheVars
    <3>3. \A f : InQueue(queue, f) => InQueue(queue', f)
      BY <1>0, <3>1, <3>2, AtHeadKeeps
    <3> QED BY <3>2, <3>3
  <2>3. CASE UpdateInsert(c)
    BY <2>3 DEF UpdateInsert, InsertItem, AddItem, cacheVars
  <2>4. CASE ~(FlushAll(c) \/ FlushFile(c) \/ UpdateInsert(c))
    BY <2>4 DEF ConnMoves, ConnStep, ConnStart, ConnPoll, ConnAgain, ConnClose,
         UpdateLookup, UpdateStat, FlushReturn,
         FlushAnswer, ForgetRemove, Goes, Answers, cacheVars
  <2> QED BY <2>1, <2>2, <2>3, <2>4
<1>4. \A d \in Conns : \/ arg'[d].file = arg[d].file /\ arg'[d].vals = arg[d].vals
                       \/ arg'[d].vals = <<>>
  <2>1. \/ arg' = arg \/ arg' = [arg EXCEPT ![c] = NoArg]
        \/ \E b : arg' = [arg EXCEPT ![c].jtest = b]
        \/ \E b : arg' = [arg EXCEPT ![c].due = b]
    BY DEF ConnMoves, ConnStep, ConnStart, ConnPoll, ConnAgain, ConnClose,
         UpdateLookup, UpdateStat, UpdateInsert, FlushFile, FlushReturn,
         FlushAnswer, FlushAll, ForgetRemove, Goes, Answers
  <2>2. CASE arg' = [arg EXCEPT ![c] = NoArg]
    BY <1>0, <2>2 DEF NoArg
  <2>3. ASSUME NEW b, arg' = [arg EXCEPT ![c].jtest = b] \/ arg' = [arg EXCEPT ![c].due = b]
        PROVE  \A d \in Conns : arg'[d].file = arg[d].file /\ arg'[d].vals = arg[d].vals
    <3>1. CASE arg' = [arg EXCEPT ![c].jtest = b]
      BY <1>0, <3>1
    <3>2. CASE arg' = [arg EXCEPT ![c].due = b]
      BY <1>0, <3>2
    <3> QED BY <2>3, <3>1, <3>2
  <2> QED BY <2>1, <2>2, <2>3
<1> QED BY <1>1, <1>2, <1>3, <1>4 DEF Quiet

(* Every step is quiet or one of those above.                              *)
LEMMA NextQuiet ==
    ASSUME IInv, [Next]_vars
    PROVE  \/ Quiet \/ OtherMoves
           \/ \E c \in Conns : ConnMoves(c)
           \/ \E q \in QueueThreads : QueueMoves(q)
<1>0. /\ cpc \in [Conns -> ConnPCs] /\ qpc \in [QueueThreads -> QueuePCs] /\ CacheInv
      /\ job \in [QueueThreads -> [file : Files, batch : Seq(Stamps),
                                   jtest : BOOLEAN, raced : BOOLEAN]]
      /\ jsafe \in 0 .. Len(jcur) /\ Len(jcur) \in Nat
  BY DEF IInv, TypeOK, CacheInv, JournalTypeOK
<1>1. ASSUME NEW q \in QueueThreads, QueueStep(q), ~QueueMoves(q) PROVE Quiet
  <2>1. UNCHANGED <<rrd, owed, excused, newest, jdead, jold, jcur, rlog, flushAtShutdown,
                    fpc, mpc, arg, values, lastStamp, queue>>
    BY <1>1 DEF QueueMoves, Dequeues, QueueStep, QueueLoop, QueueWoken, QueueBroadcast,
                replayVars, diskVars, journalVars, cacheVars
  <2>2. \A p \in QueueThreads :
          /\ qpc'[p] = "update" <=> qpc[p] = "update"
          /\ job'[p] = job[p] \/ (job'[p] = NoJob /\ qpc[p] # "update")
    BY <1>0, <1>1 DEF QueueMoves, Dequeues, QueueStep, QueueLoop, QueueWoken, QueueBroadcast
  <2> QED BY <2>1, <2>2 DEF Quiet
<1>2. ASSUME UNCHANGED <<rrd, owed, excused, newest, jold, jcur, rlog, job, arg>>,
             jdead' \in {jdead, <<>>},
             flushAtShutdown' = flushAtShutdown \/ fpc # "done",
             fpc' = "done" <=> fpc = "done",
             mpc' = mpc \/ {mpc, mpc'} \cap {"replay", "exit", "crashed"} = {},
             \A f \in Files : values'[f] = values[f] /\ lastStamp'[f] \in {0, lastStamp[f]},
             \A f : InQueue(queue, f) => InQueue(queue', f),
             UNCHANGED qpc \/ qpc' = AllWoken \/ \E n : WakeQueue(n)
      PROVE  Quiet
  <2>1. \A q \in QueueThreads : qpc'[q] = "update" <=> qpc[q] = "update"
    BY <1>2, WokenThreads DEF IInv
  <2> QED BY <1>2, <2>1 DEF Quiet
<1>3. CASE FlushStep
  <2>1. CASE FlushOld
    <3>1. WriteInterval \in Int
      BY CacheAssumption
    <3>2. /\ \A f \in Files : values'[f] = values[f] /\ lastStamp'[f] \in {0, lastStamp[f]}
          /\ \A f : InQueue(queue, f) => InQueue(queue', f)
      BY <1>0, <2>1, <3>1, FlushOldQuiet DEF FlushOld
    <3> QED BY <1>2, <2>1, <3>2 DEF FlushOld, replayVars, diskVars, journalVars
  <2>2. CASE RotateOpen \/ RotateRemove
    BY <1>2, <2>2 DEF RotateOpen, RotateRemove, NewFile, RemoveDead, replayVars, diskVars,
                      cacheVars
  <2>3. CASE FlushPrepare \/ FlushWait \/ FlushTimeout \/ FlushRelock
    BY <1>2, <2>3 DEF FlushPrepare, FlushWait, FlushTimeout, FlushRelock, FlushGoes,
                      replayVars, diskVars, journalVars, cacheVars
  <2> QED BY <1>3, <2>1, <2>2, <2>3 DEF FlushStep, OtherMoves
<1>4. CASE MainStep
  <2>1. CASE ListenPoll \/ ListenAccept \/ ListenStop \/ Drain \/ JoinFlush
    BY <1>2, <2>1 DEF ListenPoll, ListenAccept, ListenStop, Drain, JoinFlush, MainGoes,
              FlushWoken, replayVars, diskVars, journalVars, cacheVars
  <2>2. CASE AssertFails
    BY <2>2 DEF AssertFails, OtherMoves, Dies
  <2> QED BY <1>4, <2>1, <2>2 DEF MainStep, OtherMoves
<1>5. CASE Tick \/ UNCHANGED vars
  BY <1>2, <1>5 DEF Tick, CacheTick, vars, threadVars, replayVars, diskVars, journalVars,
              cacheVars
<1>6. CASE Crash \/ NullWrite
  <2>1. Len(jcur) \in jsafe .. Len(jcur)
    BY <1>0
  <2> QED BY <1>6, <2>1 DEF Crash, NullWrite, OtherMoves, Dies
<1> QED BY <1>1, <1>3, <1>4, <1>5, <1>6, ConnQuiet DEF Next, OtherMoves

-----------------------------------------------------------------------------
(* What the steps do to the journal as a whole                             *)

\* Every entry that is on the disk or yet to be replayed.
Logged == ElementsOf(Found) \cup ElementsOf(rlog)

\* The entries that c may have journalled.
IsApplied(e) == \E c \in Conns : UpdateApply(c) /\ e = UpdateEntry(arg[c].file, arg[c].vals)

\* What may happen to the journal: a file is unlinked, an end is lost, an
\* entry is appended.
FoundShrinks == \E a \in Seq(Entries) : Found = a \o Found' \/ Found = Found' \o a
FoundGrows ==
    \E e \in Entries : /\ Found' = Append(Found, e)
                       /\ (e.vals = <<>> /\ e.op # "update") \/ IsApplied(e)

(* The journal files are sequences of entries.                             *)
LEMMA FoundType ==
    ASSUME TypeOK
    PROVE  /\ jdead \in Seq(Entries) /\ jold \in Seq(Entries) /\ jcur \in Seq(Entries)
           /\ jold \o jcur \in Seq(Entries) /\ Found \in Seq(Entries)
           /\ rlog \in Seq(Entries) /\ <<>> \in Seq(Entries)
           /\ Found = jdead \o (jold \o jcur)
<1>1. jdead \in Seq(Entries) /\ jold \in Seq(Entries) /\ jcur \in Seq(Entries)
      /\ rlog \in Seq(Entries) /\ <<>> \in Seq(Entries)
  BY DEF TypeOK, JournalTypeOK
<1>2. jold \o jcur \in Seq(Entries) /\ jdead \o jold \in Seq(Entries)
  BY <1>1, ConcatProperties
<1>3. (jdead \o jold) \o jcur \in Seq(Entries)
  BY <1>1, <1>2, ConcatProperties
<1>4. (jdead \o jold) \o jcur = jdead \o (jold \o jcur)
  BY <1>1, ConcatAssociative
<1> QED BY <1>1, <1>2, <1>3, <1>4 DEF Found

(* journal_write appends the entry, whether it rolls the file over or not. *)
LEMMA WriteAppends ==
    ASSUME TypeOK, NEW e \in Entries, JournalWrite(e)
    PROVE  /\ UNCHANGED <<jdead, jold>> /\ jcur' = Append(jcur, e)
           /\ Found' = Append(Found, e)
           /\ jold' \o jcur' = (jold \o jcur) \o <<e>>
<1>1. UNCHANGED <<jdead, jold>> /\ jcur' = Append(jcur, e)
  BY DEF JournalWrite, Write, NewFile
<1>2. /\ jdead \o jold \in Seq(Entries) /\ <<e>> \in Seq(Entries)
      /\ jold \in Seq(Entries) /\ jcur \in Seq(Entries) /\ Found \in Seq(Entries)
  <2>1. <<e>> \in Seq(Entries)
    OBVIOUS
  <2> QED BY <2>1, FoundType, ConcatProperties
<1>3. Append(jcur, e) = jcur \o <<e>> /\ Append(Found, e) = Found \o <<e>>
  BY <1>2, AppendIsConcat
<1> DEFINE old == jdead \o jold
           new == <<e>>
<1> HIDE DEF old, new
<1>4. (old \o jcur) \o new = old \o (jcur \o new)
  BY <1>2, ConcatAssociative DEF old, new
<1>5. (jold \o jcur) \o new = jold \o (jcur \o new)
  BY <1>2, ConcatAssociative DEF new
<1> QED BY <1>1, <1>3, <1>4, <1>5, Zenon DEF Found, old, new

(* An unchanged journal.                                                   *)
LEMMA FoundStays ==
    ASSUME TypeOK, Found' = Found
    PROVE  FoundShrinks
<1>1. <<>> \in Seq(Entries) /\ Found = <<>> \o Found
  BY FoundType, ConcatEmptySeq
<1> QED BY <1>1 DEF FoundShrinks

(* What a process that dies leaves.                                        *)
LEMMA DieFound ==
    ASSUME TypeOK, NEW kept \in jsafe .. Len(jcur), Die(kept)
    PROVE  /\ jcur = jcur' \o SubSeq(jcur, kept + 1, Len(jcur))
           /\ SubSeq(jcur, kept + 1, Len(jcur)) \in Seq(Entries) /\ jcur' \in Seq(Entries)
           /\ Found = Found' \o SubSeq(jcur, kept + 1, Len(jcur))
           /\ jold \o jcur = (jold' \o jcur') \o SubSeq(jcur, kept + 1, Len(jcur))
<1>1. kept \in 0 .. Len(jcur)
  BY DEF TypeOK, JournalTypeOK
<1> DEFINE end == SubSeq(jcur, kept + 1, Len(jcur))
<1>2. jcur' = SubSeq(jcur, 1, kept) /\ UNCHANGED <<jdead, jold>>
  BY DEF Die, Lose
<1>3. jcur' \in Seq(Entries) /\ end \in Seq(Entries) /\ jcur = jcur' \o end
  BY <1>1, <1>2, FoundType, ElementsCut
<1> HIDE DEF end
<1>4. jdead \o jold \in Seq(Entries) /\ jold \in Seq(Entries)
  BY FoundType, ConcatProperties
<1> DEFINE old == jdead \o jold
<1> HIDE DEF old
<1>5. (old \o jcur') \o end = old \o (jcur' \o end)
  BY <1>3, <1>4, ConcatAssociative DEF old
<1>6. Found = Found' \o end
  BY <1>2, <1>3, <1>5, Zenon DEF Found, old
<1>7. (jold \o jcur') \o end = jold \o (jcur' \o end)
  BY <1>3, <1>4, ConcatAssociative
<1>8. jold \o jcur = (jold' \o jcur') \o end
  BY <1>2, <1>3, <1>7, Zenon
<1> QED BY <1>3, <1>6, <1>8 DEF end

(* journal_init finds everything.                                          *)
LEMMA RestartFound ==
    ASSUME TypeOK, Restart
    PROVE  Found' = Found /\ rlog' = Found /\ jold' \o jcur' = Found
<1>1. jdead' = <<>> /\ jold' = <<>> /\ jcur' = Found /\ rlog' = Found
  BY DEF Restart, Reopen
<1>2. <<>> \o Found = Found /\ <<>> \o <<>> = <<>>
  BY FoundType, ConcatEmptySeq
<1>3. Found' = (jdead' \o jold') \o jcur'
  BY DEF Found
<1> QED BY <1>1, <1>2, <1>3, Zenon

(* A quiet step can only unlink the oldest files.                          *)
LEMMA QuietFound ==
    ASSUME TypeOK, Quiet
    PROVE  FoundShrinks /\ jold' \o jcur' = jold \o jcur
<1>1. jdead' \in {jdead, <<>>} /\ UNCHANGED <<jold, jcur>>
  BY DEF Quiet
<1>2. CASE jdead' = jdead
  <2>1. Found' = Found
    BY <1>1, <1>2 DEF Found
  <2> QED BY <1>1, <2>1, FoundStays
<1>3. CASE jdead' = <<>>
  <2>1. <<>> \o jold = jold
    BY FoundType, ConcatEmptySeq
  <2>2. Found' = jold \o jcur
    BY <1>1, <1>3, <2>1, Zenon DEF Found
  <2>3. Found = jdead \o Found'
    BY <2>2, FoundType
  <2> QED BY <1>1, <2>3, FoundType DEF FoundShrinks
<1> QED BY <1>1, <1>2, <1>3

(* Every step shrinks the journal or appends one entry.                    *)
LEMMA NextFound ==
    ASSUME IInv, [Next]_vars
    PROVE  FoundShrinks \/ FoundGrows
<1>0. TypeOK
  BY DEF IInv
<1>1. CASE Quiet
  BY <1>0, <1>1, QuietFound
<1>2. ASSUME UNCHANGED <<jdead, jold, jcur>> PROVE FoundShrinks
  BY <1>0, <1>2, FoundStays DEF Found
<1>3. ASSUME NEW c \in Conns, ConnMoves(c) PROVE FoundShrinks \/ FoundGrows
  <2>0. arg[c].file \in Files /\ arg[c].vals \in Seq(Stamps) /\ <<>> \in Seq(Stamps)
    BY <1>0 DEF TypeOK
  <2>1. CASE UpdateApply(c)
    <3> DEFINE e == UpdateEntry(arg[c].file, arg[c].vals)
    <3>1. e \in Entries
      BY <2>0, EntryTypes
    <3>2. JournalWrite(e) \/ UNCHANGED <<jdead, jold, jcur>>
      BY <2>1 DEF UpdateApply, journalVars
    <3>3. IsApplied(e)
      BY <2>1 DEF IsApplied
    <3> HIDE DEF e
    <3> QED BY <1>0, <1>2, <3>1, <3>2, <3>3, WriteAppends DEF FoundGrows
  <2>2. CASE ForgetJournal(c)
    <3> DEFINE e == ForgetEntry(arg[c].file)
    <3>1. e \in Entries /\ e.vals = <<>> /\ e.op # "update"
      BY <2>0, EntryTypes DEF ForgetEntry
    <3>2. JournalWrite(e) \/ UNCHANGED <<jdead, jold, jcur>>
      BY <2>2 DEF ForgetJournal, journalVars
    <3> HIDE DEF e
    <3> QED BY <1>0, <1>2, <3>1, <3>2, WriteAppends DEF FoundGrows
  <2> QED BY <1>2, <1>3, <2>1, <2>2 DEF ConnMoves, Command, Request, ForgetRemove, journalVars
<1>4. ASSUME NEW q \in QueueThreads, QueueMoves(q) PROVE FoundShrinks \/ FoundGrows
  <2>0. job[q].file \in Files /\ <<>> \in Seq(Stamps)
    BY <1>0 DEF TypeOK
  <2>1. CASE QueueJournal(q)
    <3> DEFINE e == WroteEntry(job[q].file)
    <3>1. e \in Entries /\ e.vals = <<>> /\ e.op # "update"
      BY <2>0, EntryTypes DEF WroteEntry
    <3>2. JournalWrite(e) \/ UNCHANGED <<jdead, jold, jcur>>
      BY <2>1 DEF QueueJournal, journalVars
    <3> HIDE DEF e
    <3> QED BY <1>0, <1>2, <3>1, <3>2, WriteAppends DEF FoundGrows
  <2> QED BY <1>2, <1>4, <2>1 DEF QueueMoves, Dequeues, QueueLoop, QueueWoken, QueueUpdate,
                                  journalVars
<1>5. CASE OtherMoves
  <2>1. CASE RotateClose
    <3>1. jdead' = jold /\ jold' = jcur /\ jcur' = <<>>
      BY <2>1 DEF RotateClose, Rotate
    <3>2. (jold \o jcur) \o <<>> = jold \o jcur /\ Found = jdead \o (jold \o jcur)
      BY <1>0, FoundType, ConcatEmptySeq
    <3>3. Found' = (jold \o jcur) \o <<>>
      BY <3>1 DEF Found
    <3>4. Found = jdead \o Found'
      BY <3>2, <3>3, Zenon
    <3> QED BY <1>0, <3>4, FoundType DEF FoundShrinks
  <2>2. CASE Cleanup
    <3>1. \/ UNCHANGED <<jdead, jold, jcur>>
          \/ jdead' = jdead /\ jold' = <<>> /\ jcur' = <<>>
      BY <2>2 DEF Cleanup, Done, journalVars
    <3>2. CASE jdead' = jdead /\ jold' = <<>> /\ jcur' = <<>>
      <4>1. jdead \o <<>> = jdead
        BY <1>0, FoundType, ConcatEmptySeq
      <4>2. Found' = jdead
        BY <3>2, <4>1, Zenon DEF Found
      <4>3. Found = Found' \o (jold \o jcur)
        BY <1>0, <4>2, FoundType
      <4> QED BY <1>0, <4>3, FoundType DEF FoundShrinks
    <3> QED BY <1>2, <3>1, <3>2
  <2>3. CASE Dies
    BY <1>0, <2>3, DieFound DEF Dies, FoundShrinks
  <2>4. CASE Restart
    BY <1>0, <2>4, RestartFound, FoundStays
  <2>5. CASE FlushExit \/ ReplayEntry \/ ReplayDone \/ \E s \in Signals : Signal(s)
    BY <1>2, <2>5 DEF FlushExit, ReplayEntry, ReplayDone, NewFile, Signal, journalVars
  <2> QED BY <1>5, <2>1, <2>2, <2>3, <2>4, <2>5 DEF OtherMoves
<1> QED BY <1>1, <1>3, <1>4, <1>5, NextQuiet

(* The replay works through what journal_init found.                       *)
LEMMA NextRlog ==
    ASSUME IInv, [Next]_vars
    PROVE  \/ rlog' = rlog \/ rlog' = <<>>
           \/ ReplayEntry /\ rlog # <<>> /\ rlog' = Tail(rlog)
           \/ Restart /\ rlog' = Found
<1>1. ASSUME NEW c \in Conns, ConnMoves(c) PROVE rlog' = rlog
  BY <1>1 DEF ConnMoves, Command, Request, UpdateApply, ForgetJournal, ForgetRemove, replayVars
<1>2. ASSUME NEW q \in QueueThreads, QueueMoves(q) PROVE rlog' = rlog
  BY <1>2 DEF QueueMoves, Dequeues, QueueLoop, QueueWoken, QueueUpdate, QueueJournal, replayVars
<1>3. CASE OtherMoves
  BY <1>3 DEF OtherMoves, RotateClose, FlushExit, Cleanup, Dies, Die, Restart, ReplayEntry,
              ReplayDone, Signal, replayVars
<1> QED BY <1>1, <1>2, <1>3, NextQuiet DEF Quiet

(* What is logged after a step was logged before, or has no values, or is  *)
(* the request that has just been applied.                                 *)
LEMMA NextLogged ==
    ASSUME IInv, [Next]_vars
    PROVE  \A e \in Logged' :
              e \in Logged \/ (e.vals = <<>> /\ e.op # "update") \/ IsApplied(e)
<1>0. TypeOK /\ Found \in Seq(Entries) /\ rlog \in Seq(Entries)
  BY FoundType DEF IInv
<1>1. IInv'
  BY NextInv
<1>2. Found' \in Seq(Entries)
  <2>1. TypeOK'
    BY <1>1 DEF IInv
  <2>2. /\ jdead' \in Seq(Entries) /\ jold' \in Seq(Entries) /\ jcur' \in Seq(Entries)
    BY <2>1 DEF TypeOK, JournalTypeOK
  <2>3. (jdead' \o jold') \o jcur' \in Seq(Entries)
    BY <2>2, ConcatProperties
  <2> QED BY <2>3 DEF Found
<1>3. \A e \in ElementsOf(Found') :
         e \in ElementsOf(Found) \/ (e.vals = <<>> /\ e.op # "update") \/ IsApplied(e)
  <2>1. CASE FoundShrinks
    <3>1. PICK a \in Seq(Entries) : Found = a \o Found' \/ Found = Found' \o a
      BY <2>1 DEF FoundShrinks
    <3>2. /\ ElementsOf(a \o Found') = ElementsOf(a) \cup ElementsOf(Found')
          /\ ElementsOf(Found' \o a) = ElementsOf(Found') \cup ElementsOf(a)
      BY <1>2, ElementsConcat
    <3> QED BY <3>1, <3>2, Zenon
  <2>2. CASE FoundGrows
    <3>1. PICK e \in Entries : /\ Found' = Append(Found, e)
                               /\ (e.vals = <<>> /\ e.op # "update") \/ IsApplied(e)
      BY <2>2 DEF FoundGrows
    <3>2. ElementsOf(Append(Found, e)) = ElementsOf(Found) \cup {e}
      BY <1>0, ElementsAppend
    <3> QED BY <3>1, <3>2, Zenon
  <2> QED BY <2>1, <2>2, NextFound
<1>4. ElementsOf(rlog') \subseteq ElementsOf(rlog) \cup ElementsOf(Found)
  <2>1. CASE rlog # <<>> /\ rlog' = Tail(rlog)
    BY <1>0, <2>1, ElementsHead
  <2> QED BY <2>1, NextRlog, ElementsSmall
<1>5. Logged' = ElementsOf(Found') \cup ElementsOf(rlog')
  BY DEF Logged
<1> QED BY <1>3, <1>4, <1>5, Zenon DEF Logged

-----------------------------------------------------------------------------
(* Only files that exist are cached and journalled                         *)

KnownFiles ==
    /\ tree \subseteq RrdFiles
    /\ \A c \in Conns : cpc[c] \in {"insert", "apply"} => arg[c].file \in RrdFiles
    /\ \A e \in Logged : e.op = "update" => e.file \in RrdFiles

(* A new daemon knows no file.                                             *)
LEMMA InitKnown == Init => KnownFiles
<1> SUFFICES ASSUME Init PROVE KnownFiles
  OBVIOUS
<1>1. jdead = <<>> /\ jold = <<>> /\ jcur = <<>> /\ rlog = <<>>
  BY DEF Init, JournalInit
<1>2. <<>> \o <<>> = <<>>
  BY FoundType, InitInv, ConcatEmptySeq DEF IInv
<1>3. Found = <<>>
  BY <1>1, <1>2, Zenon DEF Found
<1>4. Logged = {}
  BY <1>1, <1>3, ElementsSmall DEF Logged
<1> QED BY <1>4 DEF Init, CacheInit, KnownFiles

(* Every step keeps KnownFiles.                                            *)
LEMMA NextKnown ==
    ASSUME IInv, KnownFiles, [Next]_vars
    PROVE  KnownFiles'
<1>0. /\ cpc \in [Conns -> ConnPCs]
      /\ arg \in [Conns -> [file : Files, vals : Seq(Stamps),
                            jtest : BOOLEAN, due : SUBSET Stamps]]
  BY DEF IInv, TypeOK
<1>1. \A e \in Logged' : e.op = "update" => e.file \in RrdFiles
  <2>1. ASSUME NEW e, IsApplied(e) PROVE e.file \in RrdFiles
    BY <2>1 DEF IsApplied, UpdateEntry, UpdateApply, KnownFiles
  <2> QED BY <2>1, NextLogged DEF KnownFiles
<1>2. ASSUME NEW c \in Conns, ConnStep(c)
      PROVE  /\ tree' \subseteq RrdFiles
             /\ \A d \in Conns : cpc'[d] \in {"insert", "apply"} => arg'[d].file \in RrdFiles
  <2>1. tree' \subseteq RrdFiles
    <3>1. CASE UpdateInsert(c)
      BY <3>1 DEF UpdateInsert, InsertItem, AddItem, cacheVars, KnownFiles
    <3>2. CASE ~UpdateInsert(c)
      <4>1. tree' \subseteq tree
        BY <1>2, <3>2
           DEF ConnStep, ConnStart, ConnPoll, ConnAgain, ConnClose, Command, Request,
               UpdateLookup, UpdateStat, UpdateApply, AppendValues, FlushFile, PutAtHead,
               FlushReturn, FlushAnswer, FlushAll, FlushOldValues, RemoveItems, ForgetRemove,
               ForgetItem, ForgetJournal, Goes, Answers, cacheVars
      <4> QED BY <4>1 DEF KnownFiles
    <3> QED BY <3>1, <3>2
  <2>2. ASSUME NEW d \in Conns, cpc'[d] \in {"insert", "apply"}
        PROVE  arg'[d].file \in RrdFiles
    <3>1. CASE UpdateLookup(c)
      BY <1>0, <2>2, <3>1 DEF UpdateLookup, KnownFiles
    <3>2. CASE UpdateStat(c)
      BY <1>0, <2>2, <3>2 DEF UpdateStat, Goes, Answers, KnownFiles
    <3>3. CASE UpdateInsert(c)
      BY <1>0, <2>2, <3>3 DEF UpdateInsert, KnownFiles
    <3>4. CASE Command(c)
      <4>1. d # c /\ cpc'[d] = cpc[d] /\ arg'[d] = arg[d]
        BY <1>0, <2>2, <3>4, DaemonAssumption DEF Command, Request
      <4> QED BY <2>2, <4>1 DEF KnownFiles
    <3>5. CASE FlushFile(c)
      <4>1. cpc'[d] = cpc[d] /\ arg'[d].file = arg[d].file
        BY <1>0, <2>2, <3>5 DEF FlushFile
      <4> QED BY <2>2, <4>1 DEF KnownFiles
    <3>6. CASE ForgetRemove(c)
      <4>1. d # c /\ cpc'[d] = cpc[d] /\ arg'[d] = arg[d]
        BY <1>0, <2>2, <3>6 DEF ForgetRemove, Flushed
      <4> QED BY <2>2, <4>1 DEF KnownFiles
    <3>7. CASE ConnStart(c) \/ ConnPoll(c) \/ ConnAgain(c) \/ ConnClose(c) \/ UpdateApply(c)
               \/ FlushReturn(c) \/ FlushAnswer(c) \/ FlushAll(c) \/ ForgetJournal(c)
      <4>1. d # c /\ cpc'[d] = cpc[d] /\ arg'[d] = arg[d]
        BY <1>0, <2>2, <3>7 DEF ConnStart, ConnPoll, ConnAgain, ConnClose, UpdateApply,
            FlushReturn, FlushAnswer, FlushAll, ForgetJournal, Goes, Answers, Flushed
      <4> QED BY <2>2, <4>1 DEF KnownFiles
    <3> QED BY <1>2, <3>1, <3>2, <3>3, <3>4, <3>5, <3>6, <3>7 DEF ConnStep
  <2> QED BY <2>1, <2>2
<1>3. ASSUME NEW q \in QueueThreads, QueueStep(q)
      PROVE  /\ tree' = tree
             /\ \A d \in Conns : cpc'[d] \in {"insert", "apply"} =>
                                 cpc'[d] = cpc[d] /\ arg'[d] = arg[d]
  BY <1>0, <1>3 DEF QueueStep, QueueLoop, QueueWoken, QueueUpdate, QueueJournal,
         QueueBroadcast, WokenBy, Flushed, Dequeue, TakeValues, cacheVars
<1>4. CASE FlushStep
  <2>1. /\ tree' \subseteq tree
        /\ \A d \in Conns : cpc'[d] \in {"insert", "apply"} =>
                            cpc'[d] = cpc[d] /\ arg'[d] = arg[d]
    BY <1>0, <1>4 DEF FlushStep, FlushOld, FlushExit, FlushPrepare, FlushWait, FlushTimeout,
         FlushRelock, FlushGoes, RotateClose, RotateOpen, RotateRemove, Flushed,
         FlushOldValues, RemoveItems, cacheVars
  <2> QED BY <1>1, <2>1 DEF KnownFiles
<1>5. ASSUME NEW kept, Die(kept) PROVE KnownFiles'
  BY <1>1, <1>5 DEF Die, CacheGone, KnownFiles
<1>6. CASE MainStep
  <2>1. CASE ListenPoll \/ ListenAccept \/ ListenStop \/ Drain \/ JoinFlush \/ Cleanup
    <3>1. /\ tree' \subseteq tree
          /\ \A d \in Conns : cpc'[d] \in {"insert", "apply"} =>
                              cpc'[d] = cpc[d] /\ arg'[d] = arg[d]
      BY <1>0, <2>1 DEF ListenPoll, ListenAccept, ListenStop, Drain, JoinFlush, Cleanup,
           CacheGone, MainGoes, cacheVars
    <3> QED BY <1>1, <3>1 DEF KnownFiles
  <2>2. CASE ReplayEntry
    <3>1. rlog \in Seq(Entries) /\ rlog # <<>>
      BY <2>2 DEF IInv, TypeOK, ReplayEntry
    <3>2. Head(rlog) \in Logged
      BY <3>1, ElementsHead DEF Logged
    <3>3. tree' \subseteq tree \/ (Head(rlog).op = "update" /\ tree' = tree \cup {Head(rlog).file})
      BY <2>2 DEF ReplayEntry, AppendValues, AddItemWith, DropWrote, TakeValues, ForgetItem,
                  RemoveItems, cacheVars
    <3>4. UNCHANGED <<cpc, arg>>
      BY <2>2 DEF ReplayEntry, threadVars
    <3> QED BY <1>1, <3>2, <3>3, <3>4 DEF KnownFiles
  <2>3. CASE ReplayDone
    <3>1. tree' \subseteq tree /\ UNCHANGED <<cpc, arg>>
      BY <2>3 DEF ReplayDone, FlushOldValues, RemoveItems, cacheVars
    <3> QED BY <1>1, <3>1 DEF KnownFiles
  <2>4. CASE AssertFails
    BY <1>5, <2>4 DEF AssertFails
  <2> QED BY <1>6, <2>1, <2>2, <2>3, <2>4 DEF MainStep
<1>7. CASE Crash \/ NullWrite
  BY <1>5, <1>7 DEF Crash, NullWrite
<1>8. CASE Restart
  BY <1>1, <1>8 DEF Restart, cacheVars, KnownFiles
<1>9. CASE Tick \/ UNCHANGED vars
  BY <1>1, <1>9 DEF Tick, CacheTick, vars, threadVars, cacheVars, KnownFiles
<1>10. ASSUME NEW s \in Signals, Signal(s) PROVE KnownFiles'
  BY <1>1, <1>10 DEF Signal, cacheVars, KnownFiles
<1>11. ASSUME NEW c \in Conns, ConnStep(c) PROVE KnownFiles'
  BY <1>1, <1>2, <1>11 DEF KnownFiles
<1>12. ASSUME NEW q \in QueueThreads, QueueStep(q) PROVE KnownFiles'
  BY <1>1, <1>3, <1>12 DEF KnownFiles
<1> QED BY <1>4, <1>6, <1>7, <1>8, <1>9, <1>10, <1>11, <1>12 DEF Next

-----------------------------------------------------------------------------
(* The stamps the system holds for a file, and those on the way to it      *)

\* The stamps a journal entry, a batch or an item has, or a file, for f.
InLog(f, s) == \E e \in Logged : e.file = f /\ s \in ElementsOf(e.vals)
InJobs(f, s) == \E q \in QueueThreads : job[q].file = f /\ s \in ElementsOf(job[q].batch)
InItem(f, s) == s = lastStamp[f] \/ s \in ElementsOf(values[f])
Holds(f, s) ==
    s = 0 \/ s = rrd[f] \/ s \in owed[f] \/ InItem(f, s) \/ InJobs(f, s) \/ InLog(f, s)

\* The stamps of the request that this step applies.
Applied(f, s) ==
    \E c \in Conns : UpdateApply(c) /\ arg[c].file = f /\ s \in ElementsOf(arg[c].vals)

(* The first stamps of a list.                                             *)
LEMMA PrefixOf ==
    ASSUME NEW vals \in Seq(Stamps), NEW n \in 0 .. Len(vals)
    PROVE  /\ SubSeq(vals, 1, n) \in Seq(Stamps)
           /\ ElementsOf(SubSeq(vals, 1, n)) \subseteq ElementsOf(vals)
<1>1. /\ SubSeq(vals, 1, n) \in Seq(Stamps)
      /\ ElementsOf(vals) = ElementsOf(SubSeq(vals, 1, n))
                            \cup ElementsOf(SubSeq(vals, n + 1, Len(vals)))
  BY ElementsCut, Zenon
<1> QED BY <1>1, Zenon

(* What AppendValues adds to an item.                                      *)
LEMMA AppendHolds ==
    ASSUME TypeOK, NEW f \in Files, NEW vals \in Seq(Stamps), NEW n \in 0 .. Len(vals),
           NEW lag, AppendValues(f, vals, n, lag)
    PROVE  /\ ElementsOf(values'[f]) = ElementsOf(values[f]) \cup ElementsOf(SubSeq(vals, 1, n))
           /\ ElementsOf(SubSeq(vals, 1, n)) \subseteq ElementsOf(vals)
           /\ lastStamp'[f] = lastStamp[f] \/ lastStamp'[f] \in ElementsOf(vals)
           /\ n = 0 => lastStamp'[f] = lastStamp[f]
           /\ n # 0 => lastStamp'[f] = vals[n] /\ vals[n] \in ElementsOf(vals)
           /\ \A g \in Files \ {f} : values'[g] = values[g] /\ lastStamp'[g] = lastStamp[g]
<1>1. values \in [Files -> Seq(Stamps)] /\ lastStamp \in [Files -> Stamps \cup {0}]
  BY DEF TypeOK, CacheTypeOK
<1>2. SubSeq(vals, 1, n) \in Seq(Stamps) /\ ElementsOf(SubSeq(vals, 1, n)) \subseteq ElementsOf(vals)
  BY PrefixOf
<1>3. values' = [values EXCEPT ![f] = values[f] \o SubSeq(vals, 1, n)]
      /\ lastStamp' = [lastStamp EXCEPT ![f] = IF n = 0 THEN @ ELSE vals[n]]
  BY DEF AppendValues
<1>4. ElementsOf(values[f] \o SubSeq(vals, 1, n))
         = ElementsOf(values[f]) \cup ElementsOf(SubSeq(vals, 1, n))
  <2>1. values[f] \in Seq(Stamps)
    BY <1>1
  <2> QED BY <1>2, <2>1, ElementsConcat, Zenon
<1>5. values'[f] = values[f] \o SubSeq(vals, 1, n)
  BY <1>1, <1>3
<1>6. n # 0 => vals[n] \in ElementsOf(vals)
  BY DEF ElementsOf
<1>7. lastStamp'[f] = IF n = 0 THEN lastStamp[f] ELSE vals[n]
  BY <1>1, <1>3
<1>8. \A g \in Files \ {f} : values'[g] = values[g] /\ lastStamp'[g] = lastStamp[g]
  BY <1>1, <1>3
<1> QED BY <1>2, <1>4, <1>5, <1>6, <1>7, <1>8

(* The entry that is replayed.                                             *)
LEMMA ReplayHead ==
    ASSUME TypeOK, ReplayEntry
    PROVE  /\ rlog \in Seq(Entries) /\ rlog # <<>> /\ mpc = "replay"
           /\ Head(rlog) \in Entries /\ Head(rlog) \in Logged
           /\ Head(rlog).file \in Files /\ Head(rlog).vals \in Seq(Stamps)
<1>1. rlog \in Seq(Entries) /\ rlog # <<>> /\ mpc = "replay"
  BY DEF TypeOK, ReplayEntry
<1>2. Head(rlog) \in Entries /\ Head(rlog) \in Logged
  BY <1>1, ElementsHead DEF Logged
<1> QED BY <1>1, <1>2 DEF Entries

(* What an item holds after a step.                                        *)
LEMMA NextInItem ==
    ASSUME IInv, [Next]_vars, NEW f \in Files, NEW s, InItem(f, s)'
    PROVE  s = 0 \/ InItem(f, s) \/ InLog(f, s) \/ Applied(f, s)
<1>0. /\ TypeOK /\ CacheInv
      /\ values \in [Files -> Seq(Stamps)] /\ lastStamp \in [Files -> Stamps \cup {0}]
  BY DEF IInv, TypeOK, CacheTypeOK, CacheInv
<1>1. s = lastStamp'[f] \/ s \in ElementsOf(values'[f])
  BY DEF InItem
<1>2. ASSUME lastStamp'[f] \in {0, lastStamp[f]}, values'[f] = values[f] \/ values'[f] = <<>>
      PROVE  s = 0 \/ InItem(f, s)
  BY <1>1, <1>2, ElementsSmall DEF InItem
<1>3. ASSUME NEW c \in Conns, ConnMoves(c)
      PROVE  s = 0 \/ InItem(f, s) \/ Applied(f, s)
  <2>0. arg[c].file \in Files /\ arg[c].vals \in Seq(Stamps)
    BY <1>0 DEF TypeOK
  <2>1. CASE UpdateApply(c)
    <3>1. PICK n \in Taken(lastStamp[arg[c].file], arg[c].vals), lag \in 0 .. MaxLag :
             AppendValues(arg[c].file, arg[c].vals, n, lag)
      BY <2>1 DEF UpdateApply
    <3>2. n \in 0 .. Len(arg[c].vals)
      BY DEF Taken
    <3>3. CASE arg[c].file = f
      BY <1>0, <1>1, <2>0, <2>1, <3>1, <3>2, <3>3, AppendHolds DEF InItem, Applied
    <3>4. CASE arg[c].file # f
      BY <1>0, <1>2, <2>0, <3>1, <3>2, <3>4, AppendHolds
    <3> QED BY <3>3, <3>4
  <2>2. CASE ForgetRemove(c)
    BY <1>0, <1>2, <2>2 DEF ForgetRemove, ForgetItem, RemoveItems, cacheVars
  <2>3. CASE Command(c) \/ ForgetJournal(c)
    BY <1>2, <2>3 DEF Command, Request, ForgetJournal, cacheVars
  <2> QED BY <1>3, <2>1, <2>2, <2>3 DEF ConnMoves
<1>4. ASSUME NEW q \in QueueThreads, QueueMoves(q) PROVE s = 0 \/ InItem(f, s)
  BY <1>0, <1>2, <1>4 DEF QueueMoves, Dequeues, Dequeue, TakeValues, QueueUpdate, QueueJournal,
                    cacheVars
<1>5. CASE OtherMoves
  <2>1. CASE FlushExit
    <3>1. UNCHANGED <<values, lastStamp>> \/ FlushOldValues(EverythingAge, FALSE)
      BY <2>1 DEF FlushExit, cacheVars
    <3> QED BY <1>0, <1>2, <3>1, EverythingAgeType, FlushOldQuiet
  <2>2. CASE ReplayDone
    <3>1. UNCHANGED <<values, lastStamp>> \/ \E b \in BOOLEAN : FlushOldValues(EverythingAge, b)
      BY <2>2 DEF ReplayDone, cacheVars
    <3> QED BY <1>0, <1>2, <3>1, EverythingAgeType, FlushOldQuiet
  <2>3. CASE ReplayEntry
    <3> DEFINE e == Head(rlog)
    <3>1. e \in Logged /\ e.file \in Files /\ e.vals \in Seq(Stamps)
      BY <1>0, <2>3, ReplayHead
    <3>2. CASE \E n \in Taken(lastStamp[e.file], e.vals), lag \in 0 .. MaxLag :
                  AppendValues(e.file, e.vals, n, lag)
      <4>1. PICK n \in Taken(lastStamp[e.file], e.vals), lag \in 0 .. MaxLag :
               AppendValues(e.file, e.vals, n, lag)
        BY <3>2
      <4>2. n \in 0 .. Len(e.vals)
        BY DEF Taken
      <4> HIDE DEF e
      <4>3. CASE e.file = f
        BY <1>0, <1>1, <3>1, <4>1, <4>2, <4>3, AppendHolds DEF InItem, InLog
      <4>4. CASE e.file # f
        BY <1>0, <1>2, <3>1, <4>1, <4>2, <4>4, AppendHolds
      <4> QED BY <4>3, <4>4
    <3>3. CASE \E n \in Taken(0, e.vals) : AddItemWith(e.file, e.vals, n)
      <4>1. PICK n \in Taken(0, e.vals) : AddItemWith(e.file, e.vals, n)
        BY <3>3
      <4> HIDE DEF e
      <4>2. n \in 0 .. Len(e.vals)
        BY DEF Taken
      <4>3. ElementsOf(SubSeq(e.vals, 1, n)) \subseteq ElementsOf(e.vals)
            /\ (n # 0 => e.vals[n] \in ElementsOf(e.vals))
        <5>1. ElementsOf(SubSeq(e.vals, 1, n)) \subseteq ElementsOf(e.vals)
          BY <3>1, <4>2, PrefixOf
        <5> QED BY <3>1, <4>2, <5>1 DEF ElementsOf
      <4>4. CASE e.file = f
        <5>1. values'[f] = SubSeq(e.vals, 1, n)
              /\ lastStamp'[f] = IF n = 0 THEN 0 ELSE e.vals[n]
          BY <1>0, <4>1, <4>4 DEF AddItemWith
        <5> QED BY <1>1, <3>1, <4>3, <4>4, <5>1 DEF InLog
      <4>5. CASE e.file # f
        BY <1>0, <1>2, <4>1, <4>5 DEF AddItemWith
      <4> QED BY <4>4, <4>5
    <3>4. CASE DropWrote(e.file) \/ ForgetItem(e.file) \/ UNCHANGED cacheVars
      BY <1>0, <1>2, <3>4 DEF DropWrote, TakeValues, ForgetItem, RemoveItems, cacheVars
    <3> QED BY <2>3, <3>2, <3>3, <3>4 DEF ReplayEntry
  <2>4. CASE Cleanup \/ Dies
    BY <1>2, <2>4 DEF Cleanup, Dies, Die, CacheGone
  <2>5. CASE RotateClose \/ Restart \/ \E t \in Signals : Signal(t)
    BY <1>2, <2>5 DEF RotateClose, Restart, Signal, cacheVars
  <2> QED BY <1>5, <2>1, <2>2, <2>3, <2>4, <2>5 DEF OtherMoves
<1>6. CASE Quiet
  BY <1>2, <1>6 DEF Quiet
<1> QED BY <1>3, <1>4, <1>5, <1>6, NextQuiet

(* What the batches hold after a step.                                     *)
LEMMA NextInJobs ==
    ASSUME IInv, [Next]_vars, NEW f \in Files, NEW s, InJobs(f, s)'
    PROVE  InItem(f, s) \/ InJobs(f, s)
<1>0. /\ job \in [QueueThreads -> [file : Files, batch : Seq(Stamps),
                                   jtest : BOOLEAN, raced : BOOLEAN]]
  BY DEF IInv, TypeOK
<1>1. PICK p \in QueueThreads : job'[p].file = f /\ s \in ElementsOf(job'[p].batch)
  BY DEF InJobs
<1>2. ASSUME job'[p] = job[p] PROVE InJobs(f, s)
  BY <1>1, <1>2 DEF InJobs
<1>3. job'[p].batch # <<>>
  BY <1>1, ElementsSmall
<1>4. ASSUME NEW q \in QueueThreads, QueueMoves(q) PROVE InItem(f, s) \/ InJobs(f, s)
  <2>1. CASE Dequeue(q)
    <3>1. CASE p = q
      <4>1. job'[p].file = Head(queue) /\ job'[p].batch = values[Head(queue)]
        BY <2>1, <3>1 DEF Dequeue
      <4> QED BY <1>1, <4>1 DEF InItem
    <3>2. CASE p # q
      <4>1. job'[p].file = job[p].file /\ job'[p].batch = job[p].batch
        BY <1>0, <2>1, <3>2 DEF Dequeue
      <4> QED BY <1>1, <4>1 DEF InJobs
    <3> QED BY <3>1, <3>2
  <2>2. CASE QueueUpdate(q)
    <3>1. p = q => job'[p].batch = <<>>
      BY <1>0, <2>2 DEF QueueUpdate
    <3>2. p # q => job'[p] = job[p]
      BY <1>0, <2>2 DEF QueueUpdate
    <3> QED BY <1>2, <1>3, <3>1, <3>2
  <2>3. CASE QueueJournal(q)
    <3>1. job'[p].file = job[p].file /\ job'[p].batch = job[p].batch
      BY <1>0, <2>3 DEF QueueJournal
    <3> QED BY <1>1, <3>1 DEF InJobs
  <2> QED BY <1>4, <2>1, <2>2, <2>3 DEF QueueMoves, Dequeues
<1>5. NoJob.batch = <<>>
  BY DEF NoJob
<1>6. CASE Quiet
  BY <1>2, <1>3, <1>5, <1>6 DEF Quiet
<1>7. ASSUME NEW c \in Conns, ConnMoves(c) PROVE InJobs(f, s)
  BY <1>2, <1>7 DEF ConnMoves, Command, Request, UpdateApply, ForgetRemove, ForgetJournal
<1>8. CASE OtherMoves
  BY <1>2, <1>3, <1>5, <1>8 DEF OtherMoves, RotateClose, FlushExit, Cleanup, Dies, Die,
              Restart, ReplayEntry, ReplayDone, Signal, threadVars
<1> QED BY <1>4, <1>6, <1>7, <1>8, NextQuiet

(* Values that are owed come from requests.                                *)
LEMMA NextOwed ==
    ASSUME IInv, [Next]_vars, NEW f \in Files
    PROVE  /\ \A s \in owed'[f] : s \in owed[f] \/ Applied(f, s)
           /\ rrd'[f] = rrd[f] \/ InJobs(f, rrd'[f])
<1>0. /\ TypeOK /\ owed \in [Files -> SUBSET Stamps] /\ rrd \in [Files -> Stamps \cup {0}]
  BY DEF IInv, TypeOK
<1>1. ASSUME UNCHANGED <<owed, rrd>> PROVE owed'[f] = owed[f] /\ rrd'[f] = rrd[f]
  BY <1>1
<1>2. ASSUME NEW c \in Conns, ConnMoves(c)
      PROVE  rrd' = rrd /\ \A s \in owed'[f] : s \in owed[f] \/ Applied(f, s)
  <2>0. arg[c].file \in Files /\ arg[c].vals \in Seq(Stamps)
    BY <1>0 DEF TypeOK
  <2>1. CASE UpdateApply(c)
    <3>1. PICK n \in Taken(lastStamp[arg[c].file], arg[c].vals) :
             owed' = [owed EXCEPT ![arg[c].file] = @ \cup ElementsOf(SubSeq(arg[c].vals, 1, n))]
      BY <2>1 DEF UpdateApply
    <3>2. n \in 0 .. Len(arg[c].vals)
      BY DEF Taken
    <3>3. ElementsOf(SubSeq(arg[c].vals, 1, n)) \subseteq ElementsOf(arg[c].vals)
      BY <2>0, <3>2, PrefixOf
    <3>4. rrd' = rrd
      BY <2>1 DEF UpdateApply
    <3> QED BY <1>0, <2>0, <2>1, <3>1, <3>3, <3>4 DEF Applied
  <2>2. CASE ForgetRemove(c)
    BY <1>0, <2>2 DEF ForgetRemove
  <2> QED BY <1>2, <2>1, <2>2 DEF ConnMoves, Command, Request, ForgetJournal, diskVars
<1>3. ASSUME NEW q \in QueueThreads, QueueMoves(q)
      PROVE  owed'[f] \subseteq owed[f] /\ (rrd'[f] = rrd[f] \/ InJobs(f, rrd'[f]))
  <2>1. CASE QueueUpdate(q)
    <3>0. job[q].file \in Files /\ job[q].batch \in Seq(Stamps)
      BY <1>0 DEF TypeOK
    <3>1. PICK n \in Written(q) :
            /\ rrd' = [rrd EXCEPT ![job[q].file] = IF n = 0 THEN @ ELSE job[q].batch[n]]
            /\ owed' = [owed EXCEPT ![job[q].file] = @ \ ElementsOf(SubSeq(job[q].batch, 1, n))]
      BY <2>1 DEF QueueUpdate
    <3>2. n \in 0 .. Len(job[q].batch)
      BY DEF Written, Taken
    <3>3. n # 0 => job[q].batch[n] \in ElementsOf(job[q].batch)
      BY <3>0, <3>2 DEF ElementsOf
    <3>4. owed'[f] \subseteq owed[f]
      BY <1>0, <3>1
    <3>5. rrd'[f] = rrd[f] \/ (job[q].file = f /\ n # 0 /\ rrd'[f] = job[q].batch[n])
      BY <1>0, <3>1
    <3> QED BY <3>3, <3>4, <3>5 DEF InJobs
  <2> QED BY <1>1, <1>3, <2>1 DEF QueueMoves, Dequeues, QueueLoop, QueueWoken, QueueJournal,
                                  diskVars
<1>4. CASE OtherMoves
  BY <1>1, <1>4 DEF OtherMoves, RotateClose, FlushExit, Cleanup, Dies, Die, Restart,
              ReplayEntry, ReplayDone, Signal, diskVars
<1>5. CASE Quiet
  BY <1>1, <1>5 DEF Quiet
<1> QED BY <1>2, <1>3, <1>4, <1>5, NextQuiet

(* The system holds nothing new for a file, except for what a request      *)
(* brings.                                                                 *)
LEMMA NextHolds ==
    ASSUME IInv, [Next]_vars, NEW f \in Files, NEW s, Holds(f, s)'
    PROVE  Holds(f, s) \/ Applied(f, s)
<1>1. ASSUME InLog(f, s)' PROVE InLog(f, s) \/ Applied(f, s)
  <2>1. PICK e \in Logged' : e.file = f /\ s \in ElementsOf(e.vals)
    BY <1>1 DEF InLog
  <2>2. e.vals # <<>>
    BY <2>1, ElementsSmall
  <2>3. ASSUME IsApplied(e) PROVE Applied(f, s)
    BY <2>1, <2>3 DEF IsApplied, Applied, UpdateEntry
  <2> QED BY <2>1, <2>2, <2>3, NextLogged DEF InLog
<1> QED BY <1>1, NextInItem, NextInJobs, NextOwed DEF Holds

-----------------------------------------------------------------------------
(* Clients that do not go back                                             *)

\* At most one request with values is on the way to a file, and its stamps are
\* newer than everything the system holds for the file.
ClientSound ==
    /\ \A c, d \in Conns :
          arg[c].file = arg[d].file /\ arg[c].vals # <<>> /\ arg[d].vals # <<>> => c = d
    /\ \A c \in Conns : \A x \in ElementsOf(arg[c].vals) :
          \A s : Holds(arg[c].file, s) => s < x
    /\ \A f \in RrdFiles :
          /\ \A s : Holds(f, s) => s <= newest[f]
          /\ \A c \in Conns : arg[c].file = f =>
                \A x \in ElementsOf(arg[c].vals) : x <= newest[f]
    /\ \A f \in Files \ RrdFiles : \A s : Holds(f, s) => s = 0

(* What the system holds are stamps.                                       *)
LEMMA HoldsStamps ==
    ASSUME TypeOK, NEW f \in Files, NEW s, Holds(f, s)
    PROVE  s \in Stamps \cup {0} /\ s \in Nat
<1>1. ASSUME NEW t \in Seq(Stamps), s \in ElementsOf(t) PROVE s \in Stamps
  BY <1>1 DEF ElementsOf
<1>2. InItem(f, s) => s \in Stamps \cup {0}
  BY <1>1 DEF TypeOK, CacheTypeOK, InItem
<1>3. InJobs(f, s) => s \in Stamps
  BY <1>1 DEF TypeOK, InJobs
<1>4. InLog(f, s) => s \in Stamps
  <2> SUFFICES ASSUME NEW e \in Logged, s \in ElementsOf(e.vals) PROVE s \in Stamps
    BY DEF InLog
  <2>1. Found \in Seq(Entries) /\ rlog \in Seq(Entries)
    BY FoundType
  <2>2. e \in Entries
    BY <2>1 DEF Logged, ElementsOf
  <2> QED BY <1>1, <2>2 DEF Entries
<1>5. s \in Stamps \cup {0}
  BY <1>2, <1>3, <1>4 DEF Holds, TypeOK
<1> QED BY <1>5, StampsAreNumbers

(* A new daemon holds nothing.                                             *)
LEMMA InitClient == Init => ClientSound
<1> SUFFICES ASSUME Init PROVE ClientSound
  OBVIOUS
<1>1. jdead = <<>> /\ jold = <<>> /\ jcur = <<>> /\ rlog = <<>>
  BY DEF Init, JournalInit
<1>2. <<>> \o <<>> = <<>>
  BY FoundType, InitInv, ConcatEmptySeq DEF IInv
<1>3. Logged = {}
  <2>1. Found = <<>>
    BY <1>1, <1>2, Zenon DEF Found
  <2> QED BY <1>1, <2>1, ElementsSmall DEF Logged
<1>4. \A f \in Files : \A s : Holds(f, s) => s = 0
  <2>1. \A f \in Files : /\ rrd[f] = 0 /\ owed[f] = {} /\ lastStamp[f] = 0 /\ values[f] = <<>>
                         /\ newest[f] = 0
    BY DEF Init, CacheInit
  <2>2. \A q \in QueueThreads : job[q].batch = <<>>
    BY DEF Init, NoJob
  <2> QED BY <1>3, <2>1, <2>2, ElementsSmall DEF Holds, InItem, InJobs, InLog
<1>5. \A c \in Conns : arg[c].vals = <<>>
  BY DEF Init, NoArg
<1>6. \A f \in Files : newest[f] = 0
  BY DEF Init
<1>7. \A f \in RrdFiles : \A s : Holds(f, s) => s <= newest[f]
  BY <1>4, <1>6, DaemonAssumption
<1> QED BY <1>4, <1>5, <1>7, ElementsSmall DEF ClientSound

\* The request of connection d stays the same, or is done.
ArgStays(d) ==
    \/ arg'[d].file = arg[d].file /\ arg'[d].vals = arg[d].vals
    \/ arg'[d].vals = <<>>

(* Only a new command brings a new request.                                *)
LEMMA NextArgs ==
    ASSUME IInv, [Next]_vars
    PROVE  \/ \E c \in Conns : Command(c)
           \/ newest' = newest /\ \A d \in Conns : ArgStays(d)
<1>0. arg \in [Conns -> [file : Files, vals : Seq(Stamps), jtest : BOOLEAN, due : SUBSET Stamps]]
  BY DEF IInv, TypeOK
<1>1. ASSUME arg' = arg PROVE \A d \in Conns : ArgStays(d)
  BY <1>1 DEF ArgStays
<1>2. NoArg.vals = <<>>
  BY DEF NoArg
<1>3. ASSUME NEW c \in Conns, UpdateApply(c) \/ ForgetJournal(c) \/ ForgetRemove(c)
      PROVE  newest' = newest /\ \A d \in Conns : ArgStays(d)
  <2>1. /\ newest' = newest
        /\ arg' = [arg EXCEPT ![c] = NoArg] \/ arg' = [arg EXCEPT ![c].jtest = jopen]
    BY <1>3 DEF UpdateApply, ForgetJournal, ForgetRemove
  <2>2. CASE arg' = [arg EXCEPT ![c] = NoArg]
    BY <1>0, <1>2, <2>1, <2>2 DEF ArgStays
  <2>3. CASE arg' = [arg EXCEPT ![c].jtest = jopen]
    BY <1>0, <2>1, <2>3 DEF ArgStays
  <2> QED BY <2>1, <2>2, <2>3
<1>4. ASSUME NEW q \in QueueThreads, QueueMoves(q) PROVE UNCHANGED <<newest, arg>>
  BY <1>4 DEF QueueMoves, Dequeues, QueueLoop, QueueWoken, QueueUpdate, QueueJournal
<1>5. CASE OtherMoves
  <2>1. CASE Dies \/ Restart
    BY <1>2, <2>1 DEF Dies, Die, Restart, ArgStays
  <2>2. CASE ~(Dies \/ Restart)
    <3>1. UNCHANGED <<newest, arg>>
      BY <1>5, <2>2 DEF OtherMoves, RotateClose, FlushExit, Cleanup, ReplayEntry, ReplayDone,
                        Signal, threadVars
    <3> QED BY <1>1, <3>1
  <2> QED BY <2>1, <2>2
<1>6. CASE Quiet
  BY <1>6 DEF Quiet, ArgStays
<1> QED BY <1>1, <1>3, <1>4, <1>5, <1>6, NextQuiet DEF ConnMoves

(* Every step keeps ClientSound, if clients do not go back.                *)
LEMMA NextClient ==
    ASSUME ~StaleClients, IInv, KnownFiles, ClientSound, [Next]_vars
    PROVE  ClientSound'
<1>0. /\ TypeOK /\ newest \in [Files -> Stamps \cup {0}] /\ RrdFiles \subseteq Files
      /\ arg \in [Conns -> [file : Files, vals : Seq(Stamps), jtest : BOOLEAN, due : SUBSET Stamps]]
  BY DaemonAssumption DEF IInv, TypeOK
<1>1. ASSUME newest' = newest, \A d \in Conns : ArgStays(d) PROVE ClientSound'
  <2>1. \A d \in Conns : arg'[d].vals # <<>> =>
           arg'[d].file = arg[d].file /\ arg'[d].vals = arg[d].vals
    BY <1>1 DEF ArgStays
  <2>2. ASSUME NEW f, NEW s, Applied(f, s)
        PROVE  /\ f \in RrdFiles /\ s <= newest[f]
               /\ \A d \in Conns : arg[d].file = f => arg'[d].vals = <<>>
    <3>1. PICK c \in Conns : UpdateApply(c) /\ arg[c].file = f /\ s \in ElementsOf(arg[c].vals)
      BY <2>2 DEF Applied
    <3>2. f \in RrdFiles
      BY <3>1 DEF UpdateApply, KnownFiles
    <3>3. s <= newest[f]
      BY <3>1, <3>2 DEF ClientSound
    <3>4. arg[c].vals # <<>> /\ arg'[c].vals = <<>>
      BY <1>0, <3>1, ElementsSmall DEF UpdateApply, NoArg
    <3>5. \A d \in Conns : arg[d].file = f /\ arg[d].vals # <<>> => d = c
      BY <3>1, <3>4 DEF ClientSound
    <3>6. \A d \in Conns : arg[d].file = f => arg'[d].vals = <<>>
      BY <2>1, <3>4, <3>5
    <3> QED BY <3>2, <3>3, <3>6
  <2>3. ASSUME NEW d \in Conns, NEW x \in ElementsOf(arg'[d].vals), NEW s, NEW f,
               f = arg'[d].file, Holds(f, s)'
        PROVE  s < x
    <3>1. arg'[d].vals # <<>>
      BY ElementsSmall
    <3>2. f = arg[d].file /\ arg'[d].vals = arg[d].vals /\ f \in Files
      BY <1>0, <2>1, <2>3, <3>1
    <3>3. Holds(f, s)
      BY <2>2, <2>3, <3>1, <3>2, NextHolds
    <3> QED BY <3>2, <3>3 DEF ClientSound
  <2>4. ASSUME NEW f \in RrdFiles, NEW s, Holds(f, s)' PROVE s <= newest'[f]
    BY <1>0, <1>1, <2>2, <2>4, NextHolds DEF ClientSound
  <2>5. ASSUME NEW f \in RrdFiles, NEW d \in Conns, arg'[d].file = f,
               NEW x \in ElementsOf(arg'[d].vals)
        PROVE  x <= newest'[f]
    <3>1. arg'[d].vals # <<>>
      BY ElementsSmall
    <3> QED BY <1>1, <2>1, <2>5, <3>1 DEF ClientSound
  <2>6. ASSUME NEW f \in Files \ RrdFiles, NEW s, Holds(f, s)' PROVE s = 0
    BY <2>2, <2>6, NextHolds DEF ClientSound
  <2>7. ASSUME NEW c \in Conns, NEW d \in Conns, arg'[c].file = arg'[d].file,
               arg'[c].vals # <<>>, arg'[d].vals # <<>>
        PROVE  c = d
    BY <2>1, <2>7 DEF ClientSound
  <2> QED BY <2>3, <2>4, <2>5, <2>6, <2>7 DEF ClientSound
<1>2. ASSUME NEW c \in Conns, Command(c) PROVE ClientSound'
  <2>1. \A f, s : Holds(f, s)' <=> Holds(f, s)
    <3>1. UNCHANGED <<rrd, owed, lastStamp, values, job, jdead, jold, jcur, rlog>>
      BY <1>2 DEF Command, Request, diskVars, cacheVars, journalVars, replayVars
    <3>2. Logged' = Logged
      BY <3>1 DEF Logged, Found
    <3> QED BY <3>1, <3>2 DEF Holds, InItem, InJobs, InLog
  <2>2. ASSUME newest' = newest, arg'[c].vals = <<>>,
               \A d \in Conns : d # c => arg'[d] = arg[d]
        PROVE  ClientSound'
    BY <1>1, <2>2 DEF ArgStays
  <2>3. ASSUME NEW f \in Files, NEW vals \in UpdateArgs, MaySend(f, vals),
               Request(c, "update", f, vals),
               NEW m \in {newest[f]} \cup ElementsOf(vals),
               \A s \in {newest[f]} \cup ElementsOf(vals) : m >= s,
               newest' = [newest EXCEPT ![f] = IF StaleClients \/ f \notin RrdFiles THEN @ ELSE m]
        PROVE  ClientSound'
    <3>1. /\ \A d \in Conns : d # c => arg'[d] = arg[d]
          /\ arg'[c].file = f /\ arg'[c].vals = vals
      BY <1>0, <2>3 DEF Request, NoArg
    <3>2. /\ \A x \in ElementsOf(vals) : x > newest[f]
          /\ \A d \in Conns : arg[d].file = f => arg[d].vals = <<>>
      BY <2>3 DEF MaySend, ElementsOf
    <3>3. ElementsOf(vals) \subseteq Stamps /\ ElementsOf(vals) \subseteq Nat \ {0}
      <4>1. vals \in Seq(Stamps)
        BY DaemonAssumption
      <4>2. ElementsOf(vals) \subseteq Stamps
        BY <4>1 DEF ElementsOf
      <4> QED BY <4>2, TypesAssumption
    <3>4. /\ newest[f] \in Nat /\ m \in Nat
          /\ \A g \in Files : g # f => newest'[g] = newest[g]
          /\ f \in RrdFiles => newest'[f] = m
      BY <1>0, <2>3, <3>3, StampsAreNumbers
    <3>5. ASSUME NEW s, Holds(f, s) PROVE \A x \in ElementsOf(vals) : s < x
      <4>1. CASE f \in RrdFiles
        <5>1. s <= newest[f]
          BY <3>5, <4>1 DEF ClientSound
        <5>2. s \in Nat
          BY <1>0, <3>5, HoldsStamps
        <5> QED BY <3>2, <3>3, <3>4, <5>1, <5>2
      <4>2. CASE f \notin RrdFiles
        <5>1. s = 0
          BY <3>5, <4>2 DEF ClientSound
        <5> QED BY <3>3, <5>1
      <4> QED BY <4>1, <4>2
    <3>6. ASSUME NEW d \in Conns, NEW x \in ElementsOf(arg'[d].vals), NEW s, NEW g,
                 g = arg'[d].file, Holds(g, s)'
          PROVE  s < x
      <4>1. Holds(g, s) /\ g = arg'[d].file
        BY <2>1, <3>6
      <4>2. CASE d = c
        BY <3>1, <3>5, <4>1, <4>2
      <4>3. CASE d # c
        BY <3>1, <4>1, <4>3 DEF ClientSound
      <4> QED BY <4>2, <4>3
    <3>7. ASSUME NEW g \in RrdFiles
          PROVE  /\ \A s : Holds(g, s)' => s <= newest'[g]
                 /\ \A d \in Conns : arg'[d].file = g =>
                       \A x \in ElementsOf(arg'[d].vals) : x <= newest'[g]
      <4>1. CASE g = f
        <5>1. newest'[g] = m /\ newest[f] <= m /\ \A x \in ElementsOf(vals) : x <= m
          BY <2>3, <3>4, <3>3, <4>1
        <5>2. ASSUME NEW s, Holds(g, s)' PROVE s <= newest'[g]
          <6>1. Holds(f, s)
            BY <2>1, <4>1, <5>2
          <6>2. s <= newest[f] /\ s \in Nat
            BY <1>0, <4>1, <6>1, HoldsStamps DEF ClientSound
          <6> QED BY <3>4, <5>1, <6>2
        <5>3. ASSUME NEW d \in Conns, arg'[d].file = g, NEW x \in ElementsOf(arg'[d].vals)
              PROVE  x <= newest'[g]
          <6>1. d = c
            BY <3>1, <3>2, <4>1, <5>3, ElementsSmall
          <6> QED BY <3>1, <5>1, <6>1
        <5> QED BY <5>2, <5>3
      <4>2. CASE g # f
        BY <1>0, <2>1, <3>1, <3>4, <4>2 DEF ClientSound
      <4> QED BY <4>1, <4>2
    <3>8. \A d, h \in Conns :
            arg'[d].file = arg'[h].file /\ arg'[d].vals # <<>> /\ arg'[h].vals # <<>> => d = h
      BY <3>1, <3>2 DEF ClientSound
    <3>9. \A g \in Files \ RrdFiles : \A s : Holds(g, s)' => s = 0
      BY <2>1 DEF ClientSound
    <3> QED BY <3>6, <3>7, <3>8, <3>9 DEF ClientSound
  <2>4. ASSUME NEW command, NEW f, Request(c, command, f, <<>>), newest' = newest
        PROVE  ClientSound'
    BY <1>0, <2>2, <2>4 DEF Request, NoArg
  <2> QED BY <1>2, <2>3, <2>4 DEF Command
<1> QED BY <1>1, <1>2, NextArgs

-----------------------------------------------------------------------------
(* The order of the journal                                                *)

\* Every stamp of a is older than every stamp of b.
AllOlder(a, b) == \A x \in ElementsOf(a), y \in ElementsOf(b) : x < y

\* Later entries for a file have newer stamps.
Ordered(log) ==
    \A i, j \in DOMAIN log : i < j /\ log[i].file = log[j].file
                             => AllOlder(log[i].vals, log[j].vals)
Precedes(a, b) ==
    \A d \in ElementsOf(a), e \in ElementsOf(b) : d.file = e.file => AllOlder(d.vals, e.vals)

\* What is owed of an entry is what a new item would take of it.
AcceptedFirst(e) ==
    \A n \in Taken(0, e.vals) :
        owed[e.file] \cap ElementsOf(e.vals) \subseteq ElementsOf(SubSeq(e.vals, 1, n))

\* What a replay relies on.
ReplaySound ==
    /\ Ordered(Found) /\ Ordered(rlog)
    /\ \A e \in ElementsOf(rlog) : \A x \in ElementsOf(e.vals) : lastStamp[e.file] < x
    /\ \A e \in Logged : AcceptedFirst(e)

(* The order of two logs, one after the other.                             *)
LEMMA OrderedConcat ==
    ASSUME NEW a \in Seq(Entries), NEW b \in Seq(Entries)
    PROVE  Ordered(a \o b) <=> Ordered(a) /\ Ordered(b) /\ Precedes(a, b)
<1> DEFINE c == a \o b
<1>1. /\ c \in Seq(Entries) /\ Len(c) = Len(a) + Len(b)
      /\ \A i \in 1 .. Len(a) + Len(b) : c[i] = IF i <= Len(a) THEN a[i] ELSE b[i - Len(a)]
  BY ConcatProperties
<1> HIDE DEF c
<1>2. /\ DOMAIN a = 1 .. Len(a) /\ DOMAIN b = 1 .. Len(b) /\ DOMAIN c = 1 .. Len(c)
      /\ Len(a) \in Nat /\ Len(b) \in Nat /\ Len(c) = Len(a) + Len(b)
  BY <1>1
<1>3. \A k \in DOMAIN a : k \in DOMAIN c /\ c[k] = a[k]
  BY <1>1, <1>2
<1>4. \A k \in DOMAIN b : Len(a) + k \in DOMAIN c /\ c[Len(a) + k] = b[k]
  <2> SUFFICES ASSUME NEW k \in DOMAIN b
               PROVE  Len(a) + k \in DOMAIN c /\ c[Len(a) + k] = b[k]
    OBVIOUS
  <2>1. Len(a) + k \in 1 .. Len(a) + Len(b) /\ ~(Len(a) + k <= Len(a))
        /\ (Len(a) + k) - Len(a) = k
    BY <1>2
  <2> QED BY <1>1, <1>2, <2>1
<1>5. \A i \in DOMAIN c : ~(i <= Len(a)) => i - Len(a) \in DOMAIN b /\ c[i] = b[i - Len(a)]
  BY <1>1, <1>2
<1>6. ASSUME Ordered(c) PROVE Ordered(a) /\ Ordered(b) /\ Precedes(a, b)
  <2>1. Ordered(a)
    BY <1>3, <1>6 DEF Ordered
  <2>2. Ordered(b)
    <3> SUFFICES ASSUME NEW i \in DOMAIN b, NEW j \in DOMAIN b, i < j, b[i].file = b[j].file
                 PROVE  AllOlder(b[i].vals, b[j].vals)
      BY DEF Ordered
    <3>1. Len(a) + i < Len(a) + j
      BY <1>2
    <3> QED BY <1>4, <1>6, <3>1 DEF Ordered
  <2>3. Precedes(a, b)
    <3> SUFFICES ASSUME NEW i \in DOMAIN a, NEW j \in DOMAIN b, a[i].file = b[j].file
                 PROVE  AllOlder(a[i].vals, b[j].vals)
      BY DEF Precedes, ElementsOf
    <3>1. i < Len(a) + j
      BY <1>2
    <3> QED BY <1>3, <1>4, <1>6, <3>1 DEF Ordered
  <2> QED BY <2>1, <2>2, <2>3
<1>7. ASSUME Ordered(a), Ordered(b), Precedes(a, b) PROVE Ordered(c)
  <2> SUFFICES ASSUME NEW i \in DOMAIN c, NEW j \in DOMAIN c, i < j, c[i].file = c[j].file
               PROVE  AllOlder(c[i].vals, c[j].vals)
    BY DEF Ordered
  <2>1. CASE j <= Len(a)
    <3>1. i \in DOMAIN a /\ j \in DOMAIN a
      BY <1>2, <2>1
    <3> QED BY <1>3, <1>7, <3>1 DEF Ordered
  <2>2. CASE i <= Len(a) /\ ~(j <= Len(a))
    <3>1. i \in DOMAIN a /\ j - Len(a) \in DOMAIN b /\ c[i] = a[i] /\ c[j] = b[j - Len(a)]
      BY <1>2, <1>3, <1>5, <2>2
    <3>2. a[i] \in ElementsOf(a) /\ b[j - Len(a)] \in ElementsOf(b)
      BY <3>1 DEF ElementsOf
    <3> QED BY <1>7, <3>1, <3>2 DEF Precedes
  <2>3. CASE ~(i <= Len(a))
    <3>1. ~(j <= Len(a)) /\ i - Len(a) < j - Len(a)
      BY <1>2, <2>3
    <3>2. /\ i - Len(a) \in DOMAIN b /\ j - Len(a) \in DOMAIN b
          /\ c[i] = b[i - Len(a)] /\ c[j] = b[j - Len(a)]
      BY <1>5, <2>3, <3>1
    <3> QED BY <1>7, <3>1, <3>2 DEF Ordered
  <2> QED BY <2>1, <2>2, <2>3
<1> QED BY <1>6, <1>7 DEF c

(* A log of one entry, and of none.                                        *)
LEMMA OrderedSmall == Ordered(<<>>) /\ \A e : Ordered(<<e>>)
<1>1. ASSUME NEW e PROVE Ordered(<<e>>)
  <2> DEFINE l == <<e>>
  <2>1. DOMAIN l = {1}
    OBVIOUS
  <2> HIDE DEF l
  <2>2. Ordered(l)
    BY <2>1 DEF Ordered
  <2> QED BY <2>2 DEF l
<1>2. Ordered(<<>>)
  BY DEF Ordered
<1> QED BY <1>1, <1>2

(* There is one answer to how many values an item takes.                   *)
LEMMA TakenOnce ==
    ASSUME NEW vals \in Seq(Stamps), NEW last, NEW n \in Taken(last, vals),
           NEW m \in Taken(last, vals)
    PROVE  n = m
<1> DEFINE Good(k) ==
              \A i \in 1 .. k : MovesForward(vals[i], IF i = 1 THEN last ELSE vals[i - 1])
<1>1. /\ n \in 0 .. Len(vals) /\ Good(n) /\ (n < Len(vals) => ~Good(n + 1))
      /\ m \in 0 .. Len(vals) /\ Good(m) /\ (m < Len(vals) => ~Good(m + 1))
  BY DEF Taken
<1>2. ASSUME NEW j \in 0 .. Len(vals), NEW k \in 0 .. Len(vals), j < k, Good(k)
      PROVE  Good(j + 1) /\ j < Len(vals)
  <2>1. \A i \in 1 .. j + 1 : i \in 1 .. k
    BY <1>2
  <2> QED BY <1>2, <2>1
<1> HIDE DEF Good
<1>3. ~(n < m) /\ ~(m < n)
  BY <1>1, <1>2
<1> QED BY <1>1, <1>3

(* An item whose last stamp is older than all of vals takes of it what a   *)
(* new item takes.                                                         *)
LEMMA TakenNewer ==
    ASSUME NEW vals \in Seq(Stamps), NEW last \in Nat,
           \A x \in ElementsOf(vals) : last < x
    PROVE  Taken(last, vals) = Taken(0, vals)
<1> DEFINE Good(l, k) ==
              \A i \in 1 .. k : MovesForward(vals[i], IF i = 1 THEN l ELSE vals[i - 1])
<1>1. \A l : Taken(l, vals) =
         {k \in 0 .. Len(vals) : Good(l, k) /\ (k < Len(vals) => ~Good(l, k + 1))}
  BY DEF Taken
<1>2. \A i \in 1 .. Len(vals) : vals[i] \in Nat /\ last < vals[i] /\ 0 < vals[i]
  <2> SUFFICES ASSUME NEW i \in 1 .. Len(vals)
               PROVE  vals[i] \in Nat /\ last < vals[i] /\ 0 < vals[i]
    OBVIOUS
  <2>1. vals[i] \in Stamps /\ vals[i] \in ElementsOf(vals)
    BY DEF ElementsOf
  <2>2. vals[i] \in Nat /\ last < vals[i]
    BY <2>1, StampsAreNumbers
  <2> QED BY <2>2
<1>3. ASSUME NEW k \in 0 .. Len(vals) PROVE Good(last, k) <=> Good(0, k)
  <2>1. ASSUME NEW i \in 1 .. k
        PROVE  MovesForward(vals[i], IF i = 1 THEN last ELSE vals[i - 1])
               <=> MovesForward(vals[i], IF i = 1 THEN 0 ELSE vals[i - 1])
    <3>1. vals[i] \in Nat /\ last < vals[i] /\ 0 < vals[i]
      BY <1>2
    <3>2. CASE i = 1
      BY <3>1, <3>2 DEF MovesForward
    <3>3. CASE i # 1
      BY <3>3
    <3> QED BY <3>2, <3>3
  <2> QED BY <2>1
<1>4. \A k \in 0 .. Len(vals) : k < Len(vals) => k + 1 \in 0 .. Len(vals)
  OBVIOUS
<1> HIDE DEF Good
<1>5. \A k \in 0 .. Len(vals) :
         (Good(last, k) /\ (k < Len(vals) => ~Good(last, k + 1)))
         <=> (Good(0, k) /\ (k < Len(vals) => ~Good(0, k + 1)))
  BY <1>3, <1>4
<1> QED BY <1>1, <1>5

(* A new daemon has nothing to replay.                                     *)
LEMMA InitReplay == Init => ReplaySound
<1> SUFFICES ASSUME Init PROVE ReplaySound
  OBVIOUS
<1>1. jdead = <<>> /\ jold = <<>> /\ jcur = <<>> /\ rlog = <<>>
  BY DEF Init, JournalInit
<1>2. <<>> \o <<>> = <<>>
  BY FoundType, InitInv, ConcatEmptySeq DEF IInv
<1>3. Found = <<>>
  BY <1>1, <1>2, Zenon DEF Found
<1>4. Logged = {} /\ ElementsOf(rlog) = {}
  BY <1>1, <1>3, ElementsSmall DEF Logged
<1> QED BY <1>1, <1>3, <1>4, OrderedSmall DEF ReplaySound

(* What is left to be replayed stays while no item moves on.               *)
LEMMA RlogKept ==
    ASSUME IInv, EndSound, [Next]_vars, rlog' = rlog, rlog # <<>>, NEW f \in Files
    PROVE  lastStamp'[f] \in {0, lastStamp[f]}
<1>0. /\ mpc = "replay" /\ rlog \in Seq(Entries) /\ fpc = "off"
      /\ \A q \in QueueThreads : qpc[q] = "off"
      /\ \A c \in Conns : cpc[c] = "none"
  BY DEF EndSound, IInv, TypeOK, ControlSound
<1>1. ASSUME NEW c \in Conns, ConnMoves(c) PROVE FALSE
  BY <1>0, <1>1 DEF ConnMoves, Command, Request, UpdateApply, ForgetJournal, ForgetRemove
<1>2. ASSUME NEW q \in QueueThreads, QueueMoves(q) PROVE FALSE
  BY <1>0, <1>2 DEF QueueMoves, Dequeues, QueueLoop, QueueWoken, QueueUpdate, QueueJournal
<1>3. ~ReplayEntry
  <2>1. Tail(rlog) # rlog
    BY <1>0
  <2> QED BY <2>1 DEF ReplayEntry
<1>4. CASE OtherMoves
  BY <1>0, <1>3, <1>4 DEF OtherMoves, RotateClose, FlushExit, Cleanup, Dies, Die, CacheGone,
              Restart, Alive, ReplayDone, Signal, cacheVars
<1> QED BY <1>1, <1>2, <1>4, NextQuiet DEF Quiet

(* The last stamps after an entry has been replayed.                       *)
LEMMA ReplayStamp ==
    ASSUME TypeOK, ReplayEntry, NEW f \in Files
    PROVE  \/ lastStamp'[f] \in {0, lastStamp[f]}
           \/ f = Head(rlog).file /\ lastStamp'[f] \in ElementsOf(Head(rlog).vals)
<1> DEFINE e == Head(rlog)
<1>0. /\ e.file \in Files /\ e.vals \in Seq(Stamps) /\ lastStamp \in [Files -> Stamps \cup {0}]
  BY ReplayHead DEF TypeOK, CacheTypeOK
<1>1. CASE \E n \in Taken(lastStamp[e.file], e.vals), lag \in 0 .. MaxLag :
              AppendValues(e.file, e.vals, n, lag)
  <2>1. PICK n \in Taken(lastStamp[e.file], e.vals), lag \in 0 .. MaxLag :
           AppendValues(e.file, e.vals, n, lag)
    BY <1>1
  <2>2. n \in 0 .. Len(e.vals)
    BY DEF Taken
  <2> HIDE DEF e
  <2>3. /\ lastStamp'[e.file] = lastStamp[e.file] \/ lastStamp'[e.file] \in ElementsOf(e.vals)
        /\ \A g \in Files \ {e.file} : lastStamp'[g] = lastStamp[g]
    BY <1>0, <2>1, <2>2, AppendHolds
  <2> QED BY <2>3 DEF e
<1>2. CASE \E n \in Taken(0, e.vals) : AddItemWith(e.file, e.vals, n)
  <2>1. PICK n \in Taken(0, e.vals) : AddItemWith(e.file, e.vals, n)
    BY <1>2
  <2>2. n \in 0 .. Len(e.vals)
    BY DEF Taken
  <2> HIDE DEF e
  <2>3. n # 0 => e.vals[n] \in ElementsOf(e.vals)
    BY <1>0, <2>2 DEF ElementsOf
  <2>4. /\ lastStamp'[e.file] = IF n = 0 THEN 0 ELSE e.vals[n]
        /\ \A g \in Files \ {e.file} : lastStamp'[g] = lastStamp[g]
    BY <1>0, <2>1 DEF AddItemWith
  <2> QED BY <2>3, <2>4 DEF e
<1>3. CASE DropWrote(e.file) \/ ForgetItem(e.file) \/ UNCHANGED cacheVars
  BY <1>0, <1>3 DEF DropWrote, TakeValues, ForgetItem, RemoveItems, cacheVars
<1> QED BY <1>1, <1>2, <1>3 DEF ReplayEntry

(* A request that is applied is newer than what the system holds.          *)
LEMMA AppliedNewer ==
    ASSUME IInv, ClientSound, NEW f \in Files, NEW x, Applied(f, x), NEW s, Holds(f, s)
    PROVE  s < x /\ s # x
<1>1. s < x
  BY DEF Applied, ClientSound
<1>2. s \in Nat
  BY HoldsStamps DEF IInv
<1> QED BY <1>1, <1>2

(* What is owed of an entry after a step.                                  *)
LEMMA NextAccepted ==
    ASSUME ~StaleClients, IInv, ClientSound, [Next]_vars, NEW e \in Entries,
           \/ e \in Logged /\ AcceptedFirst(e)
           \/ e.vals = <<>>
           \/ IsApplied(e)
    PROVE  AcceptedFirst(e)'
<1>0. TypeOK /\ e.file \in Files /\ e.vals \in Seq(Stamps)
  BY DEF IInv, Entries
<1> SUFFICES ASSUME NEW m \in Taken(0, e.vals), NEW x \in owed'[e.file], x \in ElementsOf(e.vals)
             PROVE  x \in ElementsOf(SubSeq(e.vals, 1, m))
  BY DEF AcceptedFirst
<1>1. x \in owed[e.file] \/ Applied(e.file, x)
  BY <1>0, NextOwed
<1>2. CASE e \in Logged /\ AcceptedFirst(e)
  <2>1. Holds(e.file, x)
    BY <1>2 DEF Holds, InLog
  <2>2. x \in owed[e.file]
    BY <1>0, <1>1, <2>1, AppliedNewer
  <2> QED BY <1>2, <2>2 DEF AcceptedFirst
<1>3. CASE e.vals = <<>>
  BY <1>3, ElementsSmall
<1>4. CASE IsApplied(e)
  <2>1. PICK c \in Conns : UpdateApply(c) /\ e = UpdateEntry(arg[c].file, arg[c].vals)
    BY <1>4 DEF IsApplied
  <2>2. arg[c].file = e.file /\ arg[c].vals = e.vals
    BY <2>1 DEF UpdateEntry
  <2>3. PICK n \in Taken(lastStamp[e.file], e.vals) :
           owed' = [owed EXCEPT ![e.file] = @ \cup ElementsOf(SubSeq(e.vals, 1, n))]
    BY <2>1, <2>2 DEF UpdateApply
  <2>4. owed \in [Files -> SUBSET Stamps]
    BY <1>0 DEF TypeOK
  <2>5. owed'[e.file] = owed[e.file] \cup ElementsOf(SubSeq(e.vals, 1, n))
    BY <1>0, <2>3, <2>4
  <2>6. Applied(e.file, x)
    BY <2>1, <2>2 DEF Applied
  <2>7. x \notin owed[e.file]
    BY <1>0, <2>6, AppliedNewer DEF Holds
  <2>8. lastStamp[e.file] \in Nat
    BY <1>0, StampsAreNumbers DEF TypeOK, CacheTypeOK
  <2>9. \A y \in ElementsOf(e.vals) : lastStamp[e.file] < y
    <3>1. Holds(e.file, lastStamp[e.file])
      BY DEF Holds, InItem
    <3> QED BY <2>2, <3>1 DEF ClientSound
  <2>10. n = m
    BY <1>0, <2>8, <2>9, TakenNewer, TakenOnce
  <2> QED BY <2>5, <2>7, <2>10
<1> QED BY <1>2, <1>3, <1>4

(* Every step keeps ReplaySound, if clients do not go back.                *)
LEMMA NextReplay ==
    ASSUME ~StaleClients, IInv, EndSound, ClientSound, ReplaySound, [Next]_vars
    PROVE  ReplaySound'
<1>0. /\ TypeOK /\ TypeOK' /\ Found \in Seq(Entries) /\ rlog \in Seq(Entries)
      /\ lastStamp \in [Files -> Stamps \cup {0}] /\ ItemsSound
  BY NextInv, FoundType DEF IInv, TypeOK, CacheTypeOK
<1>1. /\ jdead' \in Seq(Entries) /\ jold' \in Seq(Entries) /\ jcur' \in Seq(Entries)
      /\ rlog' \in Seq(Entries) /\ Found' \in Seq(Entries)
  <2>1. /\ jdead' \in Seq(Entries) /\ jold' \in Seq(Entries) /\ jcur' \in Seq(Entries)
        /\ rlog' \in Seq(Entries)
    BY <1>0 DEF TypeOK, JournalTypeOK
  <2>2. (jdead' \o jold') \o jcur' \in Seq(Entries)
    BY <2>1, ConcatProperties
  <2> QED BY <2>1, <2>2 DEF Found
<1>2. ASSUME NEW e \in Logged' PROVE e \in Entries /\ AcceptedFirst(e)'
  <2>1. e \in Entries
    BY <1>1 DEF Logged, ElementsOf
  <2> QED BY <2>1, NextLogged, NextAccepted DEF ReplaySound
<1>3. Ordered(Found')
  <2>1. CASE FoundShrinks
    <3>1. PICK a \in Seq(Entries) : Found = a \o Found' \/ Found = Found' \o a
      BY <2>1 DEF FoundShrinks
    <3>2. CASE Found = a \o Found'
      BY <1>1, <3>2, OrderedConcat, Zenon DEF ReplaySound
    <3>3. CASE Found = Found' \o a
      BY <1>1, <3>3, OrderedConcat, Zenon DEF ReplaySound
    <3> QED BY <3>1, <3>2, <3>3
  <2>2. CASE FoundGrows
    <3>1. PICK e \in Entries : /\ Found' = Append(Found, e)
                               /\ (e.vals = <<>> /\ e.op # "update") \/ IsApplied(e)
      BY <2>2 DEF FoundGrows
    <3>2. Append(Found, e) = Found \o <<e>>
      BY <1>0, AppendIsConcat
    <3>3. <<e>> \in Seq(Entries) /\ ElementsOf(<<e>>) = {e}
      BY ElementsSmall
    <3>4. Precedes(Found, <<e>>)
      <4> SUFFICES ASSUME NEW d \in ElementsOf(Found), d.file = e.file,
                          NEW x \in ElementsOf(d.vals), NEW y \in ElementsOf(e.vals)
                   PROVE  x < y
        BY <3>3 DEF Precedes, AllOlder
      <4>1. e.vals # <<>>
        BY ElementsSmall
      <4>2. Applied(e.file, y)
        BY <3>1, <4>1 DEF IsApplied, Applied, UpdateEntry
      <4>3. Holds(e.file, x)
        BY DEF Holds, InLog, Logged
      <4>4. e.file \in Files
        BY DEF Entries
      <4> QED BY <4>2, <4>3, <4>4, AppliedNewer
    <3>5. Ordered(Found \o <<e>>)
      BY <1>0, <3>3, <3>4, OrderedConcat, OrderedSmall DEF ReplaySound
    <3> QED BY <3>1, <3>2, <3>5, Zenon
  <2> QED BY <2>1, <2>2, NextFound
<1>4. Ordered(rlog') /\ \A e \in ElementsOf(rlog') : \A x \in ElementsOf(e.vals) :
                            lastStamp'[e.file] < x
  <2>0. ASSUME NEW log \in Seq(Entries), NEW e \in ElementsOf(log)
        PROVE  /\ e.file \in Files /\ lastStamp[e.file] \in Nat
               /\ \A x \in ElementsOf(e.vals) : x \in Nat /\ 0 < x
    <3>1. e \in Entries
      BY DEF ElementsOf
    <3>2. e.file \in Files /\ e.vals \in Seq(Stamps)
      BY <3>1 DEF Entries
    <3>3. \A x \in ElementsOf(e.vals) : x \in Stamps
      BY <3>2 DEF ElementsOf
    <3>4. \A x \in Stamps : x \in Nat /\ 0 < x
      BY TypesAssumption
    <3> QED BY <1>0, <3>2, <3>3, <3>4, StampsAreNumbers
  <2>1. CASE rlog' = <<>>
    BY <2>1, OrderedSmall, ElementsSmall
  <2>2. CASE rlog' = rlog /\ rlog # <<>>
    <3>1. \A f \in Files : lastStamp'[f] \in {0, lastStamp[f]}
      BY <2>2, RlogKept
    <3> QED BY <1>0, <2>0, <2>2, <3>1 DEF ReplaySound
  <2>3. CASE ReplayEntry /\ rlog # <<>> /\ rlog' = Tail(rlog)
    <3>1. /\ Head(rlog) \in Entries /\ <<Head(rlog)>> \in Seq(Entries)
          /\ rlog = <<Head(rlog)>> \o Tail(rlog)
          /\ ElementsOf(rlog) = {Head(rlog)} \cup ElementsOf(Tail(rlog))
      BY <1>0, <2>3, ElementsHead, Zenon
    <3>2. Ordered(<<Head(rlog)>> \o Tail(rlog))
      BY <3>1, Zenon DEF ReplaySound
    <3>3. Ordered(rlog') /\ Precedes(<<Head(rlog)>>, rlog')
      <4>1. Ordered(<<Head(rlog)>> \o rlog')
        BY <2>3, <3>2
      <4> QED BY <1>1, <3>1, <4>1, OrderedConcat, Zenon
    <3>4. ASSUME NEW e \in ElementsOf(rlog'), NEW x \in ElementsOf(e.vals)
          PROVE  lastStamp'[e.file] < x
      <4>1. e \in ElementsOf(rlog) /\ e.file \in Files /\ x \in Nat /\ 0 < x
            /\ lastStamp[e.file] < x
        BY <1>0, <1>1, <2>0, <2>3, <3>1, <3>4 DEF ReplaySound
      <4>2. CASE lastStamp'[e.file] \in {0, lastStamp[e.file]}
        BY <4>1, <4>2
      <4>3. CASE e.file = Head(rlog).file /\ lastStamp'[e.file] \in ElementsOf(Head(rlog).vals)
        <5>1. Head(rlog) \in ElementsOf(<<Head(rlog)>>)
          BY ElementsSmall
        <5> QED BY <3>3, <4>3, <5>1 DEF Precedes, AllOlder
      <4> QED BY <1>0, <2>3, <4>1, <4>2, <4>3, ReplayStamp
    <3> QED BY <3>3, <3>4
  <2>4. CASE Restart /\ rlog' = Found
    <3>1. \A f \in Files : lastStamp'[f] = 0
      <4>1. tree = {} /\ lastStamp' = lastStamp
        BY <2>4 DEF Restart, EndSound, cacheVars
      <4> QED BY <1>0, <4>1 DEF ItemsSound
    <3> QED BY <1>0, <2>0, <2>4, <3>1 DEF ReplaySound
  <2> QED BY <2>1, <2>2, <2>3, <2>4, NextRlog
<1>5. ReplaySound' <=> /\ Ordered(Found') /\ Ordered(rlog')
                       /\ \A e \in ElementsOf(rlog') : \A x \in ElementsOf(e.vals) :
                             lastStamp'[e.file] < x
                       /\ \A e \in Logged' : AcceptedFirst(e)'
  BY DEF ReplaySound
<1> QED BY <1>2, <1>3, <1>4, <1>5

-----------------------------------------------------------------------------
(* Where an accepted value is kept                                         *)

\* s can be brought back: from the journal; during a replay from the item, if
\* nothing to come takes it out again, or from what is left to be replayed;
\* while the daemon is up it is cached or being written as well, and once the
\* flush thread has ended after a flush it is queued or being written.
Kept(f, s) ==
    /\ Back(jold \o jcur, f, s)
    /\ mpc = "replay" => \/ s \in ElementsOf(values[f]) /\ OnlyUpdates(rlog, f)
                         \/ Back(rlog, f, s)
    /\ Up => s \in ElementsOf(values[f]) \/ InJobs(f, s)
    /\ Up /\ fpc = "done" /\ flushAtShutdown =>
          \/ InJobs(f, s)
          \/ InQueue(queue, f) /\ s \in ElementsOf(values[f])

\* Every value that is owed and not excused is kept.
Safe(f) == owed[f] \ excused[f]
SafeKept == \A f \in Files : \A s \in Safe(f) : Kept(f, s)

(* What leaves a kept value where it is.                                   *)
LEMMA StaysKept ==
    ASSUME NEW f, NEW s, Kept(f, s), Back(jold' \o jcur', f, s),
           mpc' = mpc \/ {mpc, mpc'} \cap {"replay", "exit", "crashed"} = {},
           mpc = "replay" => rlog' = rlog,
           s \in ElementsOf(values[f]) => s \in ElementsOf(values'[f]),
           InJobs(f, s) => InJobs(f, s)',
           InQueue(queue, f) => InQueue(queue', f),
           fpc' = "done" /\ flushAtShutdown' => fpc = "done" /\ flushAtShutdown
    PROVE  Kept(f, s)'
<1>1. Up' <=> Up
  BY DEF Up, Alive
<1>2. Kept(f, s)' <=>
        /\ Back(jold' \o jcur', f, s)
        /\ mpc' = "replay" => \/ s \in ElementsOf(values'[f]) /\ OnlyUpdates(rlog', f)
                              \/ Back(rlog', f, s)
        /\ Up' => s \in ElementsOf(values'[f]) \/ InJobs(f, s)'
        /\ Up' /\ fpc' = "done" /\ flushAtShutdown' =>
              \/ InJobs(f, s)'
              \/ InQueue(queue', f) /\ s \in ElementsOf(values'[f])
  BY DEF Kept
<1> QED BY <1>1, <1>2 DEF Kept

(* A batch that stays, stays in the jobs.                                  *)
LEMMA JobsStay ==
    ASSUME EndSound, NEW f, NEW s, InJobs(f, s),
           \A q \in QueueThreads : qpc[q] = "update" =>
              job'[q].file = job[q].file /\ job'[q].batch = job[q].batch
    PROVE  InJobs(f, s)'
<1>1. PICK q \in QueueThreads : job[q].file = f /\ s \in ElementsOf(job[q].batch)
  BY DEF InJobs
<1>2. qpc[q] = "update"
  BY <1>1, ElementsSmall DEF EndSound
<1> QED BY <1>1, <1>2 DEF InJobs

(* A quiet step.                                                           *)
LEMMA QuietKept ==
    ASSUME IInv, EndSound, SafeKept, Quiet
    PROVE  SafeKept'
<1> SUFFICES ASSUME NEW f \in Files, NEW s \in Safe(f)' PROVE Kept(f, s)'
  BY DEF SafeKept
<1>1. Kept(f, s)
  BY DEF Quiet, Safe, SafeKept
<1>2. jold' \o jcur' = jold \o jcur
  BY QuietFound DEF IInv
<1>3. Back(jold' \o jcur', f, s)
  BY <1>1, <1>2, Zenon DEF Kept
<1>4. InJobs(f, s) => InJobs(f, s)'
  BY JobsStay DEF Quiet
<1> QED BY <1>1, <1>3, <1>4, StaysKept DEF Quiet

(* What is journalled for a file tells nothing of the others, and an       *)
(* update takes nothing back.                                              *)
LEMMA WriteKeepsBack ==
    ASSUME TypeOK, NEW e \in Entries, JournalWrite(e), NEW f \in Files, NEW s
    PROVE  /\ Back(jold \o jcur, f, s) /\ (e.file = f => e.op = "update")
              => Back(jold' \o jcur', f, s)
           /\ e.file = f /\ e.op = "update" /\ s \in ElementsOf(e.vals)
              => Back(jold' \o jcur', f, s)
<1> DEFINE a == jold \o jcur
           b == <<e>>
<1>1. a \in Seq(Entries) /\ b \in Seq(Entries) /\ jold' \o jcur' = a \o b
  BY FoundType, WriteAppends
<1>2. /\ Back(b, f, s) <=> e.file = f /\ s \in ElementsOf(e.vals) /\ e.op = "update"
      /\ OnlyUpdates(b, f) <=> (e.file = f => e.op = "update")
  BY BackSmall
<1> HIDE DEF a, b
<1>3. Back(a \o b, f, s) <=> Back(b, f, s) \/ (Back(a, f, s) /\ OnlyUpdates(b, f))
  BY <1>1, BackConcat
<1> QED BY <1>1, <1>2, <1>3, Zenon DEF a


(* What ExcusedIs does.                                                    *)
LEMMA ExcusedAll ==
    ASSUME NEW e, ExcusedIs(e), NEW f \in Files
    PROVE  /\ e[f] \subseteq excused'[f]
           /\ SetTooLate => owed[f] \subseteq excused'[f]
BY DEF ExcusedIs

(* A request that is applied: its values are cached and journalled, or     *)
(* excused.                                                                *)
LEMMA ApplyKept ==
    ASSUME IInv, EndSound, SafeKept, NEW c \in Conns, UpdateApply(c)
    PROVE  SafeKept'
<1> DEFINE f == arg[c].file
           vals == arg[c].vals
           jtest == arg[c].jtest
           entry == UpdateEntry(f, vals)
<1>0. /\ TypeOK /\ f \in Files /\ vals \in Seq(Stamps) /\ mpc # "replay" /\ entry \in Entries
      /\ entry.file = f /\ entry.vals = vals /\ entry.op = "update"
      /\ owed \in [Files -> SUBSET Stamps] /\ excused \in [Files -> SUBSET Stamps]
      /\ queue \in Seq(Files) /\ NoDuplicates(queue)
  <2>1. TypeOK /\ f \in Files /\ vals \in Seq(Stamps) /\ mpc # "replay"
        /\ owed \in [Files -> SUBSET Stamps] /\ excused \in [Files -> SUBSET Stamps]
        /\ queue \in Seq(Files) /\ NoDuplicates(queue)
    BY DEF IInv, TypeOK, CacheTypeOK, QueueSound, ControlSound, UpdateApply
  <2> QED BY <2>1, EntryTypes DEF UpdateEntry
<1>1. /\ IF jtest THEN JournalWrite(entry) ELSE UNCHANGED <<journalVars, flushAtShutdown>>
      /\ UNCHANGED <<fpc, mpc, job, rlog>>
  BY DEF UpdateApply, replayVars
<1>2. PICK n \in Taken(lastStamp[f], vals), lag \in 0 .. MaxLag :
        /\ AppendValues(f, vals, n, lag)
        /\ owed' = [owed EXCEPT ![f] = @ \cup ElementsOf(SubSeq(vals, 1, n))]
        /\ ExcusedIs([excused EXCEPT ![f] =
              IF jtest /\ (fpc = "done" => ~flushAtShutdown') THEN @
              ELSE @ \cup ElementsOf(SubSeq(vals, 1, n))])
  BY DEF UpdateApply
<1> DEFINE new == ElementsOf(SubSeq(vals, 1, n))
           covered == jtest /\ (fpc = "done" => ~flushAtShutdown')
           base == [excused EXCEPT ![f] = IF covered THEN @ ELSE @ \cup new]
<1>3. n \in 0 .. Len(vals)
  BY DEF Taken
<1>4. /\ ElementsOf(values'[f]) = ElementsOf(values[f]) \cup new /\ new \subseteq ElementsOf(vals)
      /\ \A g \in Files \ {f} : values'[g] = values[g]
  <2>1. AppendValues(f, vals, n, lag)
    BY <1>2
  <2> HIDE DEF f, vals
  <2> QED BY <1>0, <1>3, <2>1, AppendHolds
<1>5. \A g : InQueue(queue, g) => InQueue(queue', g)
  <2>1. queue' = queue \/ queue' = AtTail(queue, f)
    BY <1>2 DEF AppendValues
  <2> QED BY <1>0, <2>1, AtTailKeeps
<1>6. ExcusedIs(base) /\ owed' = [owed EXCEPT ![f] = @ \cup new]
  BY <1>2
<1> HIDE DEF new, f, vals, covered, entry, jtest
<1>7. /\ \A g \in Files : excused[g] \subseteq excused'[g]
      /\ \A g \in Files : SetTooLate => owed[g] \subseteq excused'[g]
      /\ ~covered => new \subseteq excused'[f]
  <2>1. \A g \in Files : /\ base[g] \subseteq excused'[g]
                         /\ SetTooLate => owed[g] \subseteq excused'[g]
    <3> HIDE DEF base
    <3> QED BY <1>6, ExcusedAll
  <2>2. \A g \in Files : excused[g] \subseteq base[g]
    BY <1>0
  <2>3. ~covered => new \subseteq base[f]
    BY <1>0
  <2> QED BY <1>0, <2>1, <2>2, <2>3
<1>8. /\ owed'[f] = owed[f] \cup new
      /\ \A g \in Files \ {f} : owed'[g] = owed[g]
  BY <1>0, <1>6
<1> SUFFICES ASSUME NEW g \in Files, NEW s \in Safe(g)' PROVE Kept(g, s)'
  BY DEF SafeKept
<1>9. s \in owed'[g] /\ s \notin excused'[g]
  BY DEF Safe
<1>10. s \in ElementsOf(values[g]) => s \in ElementsOf(values'[g])
  BY <1>4
<1>11. InJobs(g, s) => InJobs(g, s)'
  BY <1>1 DEF InJobs
<1>12. CASE s \in owed[g]
  <2>1. Kept(g, s) /\ ~SetTooLate
    BY <1>7, <1>9, <1>12 DEF Safe, SafeKept
  <2>2. Back(jold' \o jcur', g, s)
    <3>1. CASE jtest
      BY <1>0, <1>1, <2>1, <3>1, WriteKeepsBack DEF Kept
    <3>2. CASE ~jtest
      BY <1>1, <2>1, <3>2 DEF Kept, journalVars
    <3> QED BY <3>1, <3>2
  <2>3. fpc' = "done" /\ flushAtShutdown' => fpc = "done" /\ flushAtShutdown
    BY <1>1, <2>1 DEF SetTooLate
  <2> QED BY <1>0, <1>1, <1>5, <1>10, <1>11, <2>1, <2>2, <2>3, StaysKept
<1>13. CASE s \notin owed[g]
  <2>1. g = f /\ s \in new /\ covered
    BY <1>7, <1>8, <1>9, <1>13
  <2>2. Back(jold' \o jcur', g, s)
    BY <1>0, <1>1, <1>4, <2>1, WriteKeepsBack DEF covered
  <2>3. s \in ElementsOf(values'[g]) /\ mpc' # "replay" /\ ~(fpc' = "done" /\ flushAtShutdown')
    BY <1>0, <1>1, <1>4, <2>1 DEF covered
  <2> QED BY <2>2, <2>3 DEF Kept
<1> QED BY <1>12, <1>13

(* The steps of FORGET and the arrival of a request.                       *)
LEMMA ConnKept ==
    ASSUME IInv, EndSound, SafeKept, NEW c \in Conns, ConnMoves(c)
    PROVE  SafeKept'
<1>0. /\ TypeOK /\ arg[c].file \in Files
      /\ owed \in [Files -> SUBSET Stamps] /\ excused \in [Files -> SUBSET Stamps]
      /\ values \in [Files -> Seq(Stamps)] /\ queue \in Seq(Files) /\ NoDuplicates(queue)
  BY DEF IInv, TypeOK, CacheTypeOK, QueueSound
<1>1. CASE Command(c)
  <2>1. UNCHANGED <<owed, excused, values, queue, job, jold, jcur, rlog, mpc, fpc, flushAtShutdown>>
    BY <1>1 DEF Command, Request, diskVars, cacheVars, journalVars, replayVars
  <2> QED BY <2>1 DEF SafeKept, Safe, Kept, InJobs, Up, Alive
<1>2. CASE ForgetRemove(c) /\ arg[c].file \in tree
  <2> DEFINE f == arg[c].file
  <2>1. /\ UNCHANGED <<job, jold, jcur, rlog, mpc, fpc, flushAtShutdown>>
        /\ ForgetItem(f)
        /\ owed' = [owed EXCEPT ![f] = @ \ ElementsOf(values[f])]
        /\ excused' = [excused EXCEPT ![f] = @ \ ElementsOf(values[f])]
    BY <1>2 DEF ForgetRemove, journalVars, replayVars
  <2> HIDE DEF f
  <2>2. f \in Files
    BY <1>0 DEF f
  <2>3. \A g \in Files \ {f} : values'[g] = values[g] /\ (InQueue(queue, g) => InQueue(queue', g))
    <3>1. queue' = Without(queue, f) /\ \A g \in Files \ {f} : values'[g] = values[g]
      BY <2>1 DEF ForgetItem, RemoveItems
    <3> QED BY <1>0, <2>2, <3>1, WithoutKeeps
  <2>4. \A g \in Files : /\ Safe(g)' \subseteq Safe(g)
                         /\ g = f => Safe(g)' \cap ElementsOf(values[g]) = {}
    BY <1>0, <2>1, <2>2 DEF Safe
  <2> SUFFICES ASSUME NEW g \in Files, NEW s \in Safe(g)' PROVE Kept(g, s)'
    BY DEF SafeKept
  <2>5. Kept(g, s)
    BY <2>4 DEF SafeKept
  <2>6. InJobs(g, s) => InJobs(g, s)'
    BY <2>1 DEF InJobs
  <2>7. Back(jold' \o jcur', g, s) /\ mpc # "replay"
    BY <1>2, <2>1, <2>5 DEF Kept, ForgetRemove, IInv, ControlSound
  <2>8. CASE g # f
    BY <2>1, <2>3, <2>5, <2>6, <2>7, <2>8, StaysKept
  <2>9. CASE g = f
    <3>1. s \notin ElementsOf(values[g])
      BY <2>4, <2>9
    <3> QED BY <2>1, <2>5, <2>6, <2>7, <3>1 DEF Kept, Up, Alive
  <2> QED BY <2>8, <2>9
<1>3. CASE ForgetJournal(c)
  <2> DEFINE f == arg[c].file
             entry == ForgetEntry(f)
             base == [excused EXCEPT ![f] = @ \cup owed[f]]
  <2>1. /\ UNCHANGED <<job, rlog, mpc, fpc, values, queue, owed>>
        /\ IF arg[c].jtest THEN JournalWrite(entry) /\ ExcusedIs(base)
           ELSE UNCHANGED <<journalVars, flushAtShutdown, excused>>
    BY <1>3 DEF ForgetJournal, replayVars, cacheVars
  <2>2. f \in Files /\ entry \in Entries /\ entry.file = f
    BY <1>0, EntryTypes DEF ForgetEntry
  <2>3. mpc # "replay"
    BY <1>3 DEF ForgetJournal, IInv, ControlSound
  <2> HIDE DEF f, entry
  <2>4. \A g \in Files : excused[g] \subseteq base[g] /\ (g = f => owed[g] \subseteq base[g])
    BY <1>0, <2>2
  <2> HIDE DEF base
  <2> SUFFICES ASSUME NEW g \in Files, NEW s \in Safe(g)' PROVE Kept(g, s)'
    BY DEF SafeKept
  <2>5. InJobs(g, s) => InJobs(g, s)'
    BY <2>1 DEF InJobs
  <2>6. CASE arg[c].jtest
    <3>1. /\ s \in Safe(g) /\ ~SetTooLate /\ g # f
      <4>1. base[g] \subseteq excused'[g] /\ (SetTooLate => owed[g] \subseteq excused'[g])
        BY <2>1, <2>6, ExcusedAll
      <4>2. s \in owed[g] /\ s \notin excused'[g]
        BY <2>1 DEF Safe
      <4> QED BY <2>4, <4>1, <4>2 DEF Safe
    <3>2. Kept(g, s)
      BY <3>1 DEF SafeKept
    <3>3. Back(jold' \o jcur', g, s)
      BY <1>0, <2>1, <2>2, <2>6, <3>1, <3>2, WriteKeepsBack DEF Kept
    <3>4. fpc' = "done" /\ flushAtShutdown' => fpc = "done" /\ flushAtShutdown
      BY <2>1, <3>1 DEF SetTooLate
    <3> QED BY <2>1, <2>3, <2>5, <3>2, <3>3, <3>4, StaysKept
  <2>7. CASE ~arg[c].jtest
    <3>1. UNCHANGED <<jold, jcur, flushAtShutdown, excused>>
      BY <2>1, <2>7 DEF journalVars
    <3>2. Kept(g, s)
      BY <2>1, <3>1 DEF SafeKept, Safe
    <3>3. Back(jold' \o jcur', g, s)
      BY <3>1, <3>2 DEF Kept
    <3> QED BY <2>1, <2>5, <3>1, <3>2, <3>3, StaysKept
  <2> QED BY <2>6, <2>7
<1> QED BY <1>1, <1>2, <1>3, ApplyKept DEF ConnMoves


(* The steps of an update thread: what it takes is in its hands, what it   *)
(* has written is no longer owed, and what it could not write is excused.  *)
LEMMA QueueKept ==
    ASSUME IInv, EndSound, SafeKept, NEW q \in QueueThreads, QueueMoves(q)
    PROVE  SafeKept'
<1>0. /\ TypeOK /\ job[q].file \in Files /\ job[q].batch \in Seq(Stamps)
      /\ job \in [QueueThreads -> [file : Files, batch : Seq(Stamps),
                                   jtest : BOOLEAN, raced : BOOLEAN]]
      /\ owed \in [Files -> SUBSET Stamps] /\ excused \in [Files -> SUBSET Stamps]
      /\ values \in [Files -> Seq(Stamps)] /\ queue \in Seq(Files) /\ NoDuplicates(queue)
  BY DEF IInv, TypeOK, CacheTypeOK, QueueSound
<1>1. CASE Dequeues(q)
  <2> DEFINE f == Head(queue)
  <2>1. /\ UNCHANGED <<jold, jcur, rlog, mpc, fpc, flushAtShutdown, owed, excused>>
        /\ Dequeue(q) /\ qpc[q] # "update" /\ queue # <<>>
    BY <1>1 DEF Dequeues, QueueLoop, QueueWoken, Dequeue, diskVars, journalVars, replayVars
  <2>2. f \in Files
    BY <1>0, <2>1
  <2>3. /\ job'[q].file = f /\ job'[q].batch = values[f]
        /\ \A p \in QueueThreads \ {q} : job'[p].file = job[p].file /\ job'[p].batch = job[p].batch
    <3>1. job'[q].file = f /\ job'[q].batch = values[f]
      BY <2>1 DEF Dequeue
    <3>2. \A p \in QueueThreads \ {q} : job'[p].file = job[p].file /\ job'[p].batch = job[p].batch
      BY <1>0, <2>1 DEF Dequeue
    <3> QED BY <3>1, <3>2
  <2>4. TakeValues(f)
    BY <2>1 DEF Dequeue
  <2> HIDE DEF f
  <2>5. \A g \in Files \ {f} : values'[g] = values[g] /\ (InQueue(queue, g) => InQueue(queue', g))
    <3>1. queue' = Without(queue, f) /\ \A g \in Files \ {f} : values'[g] = values[g]
      BY <1>0, <2>4 DEF TakeValues
    <3> QED BY <1>0, <2>2, <3>1, WithoutKeeps
  <2> SUFFICES ASSUME NEW g \in Files, NEW s \in Safe(g)' PROVE Kept(g, s)'
    BY DEF SafeKept
  <2>6. Kept(g, s)
    BY <2>1 DEF SafeKept, Safe
  <2>7. InJobs(g, s) => InJobs(g, s)'
    BY <2>1, <2>3, JobsStay
  <2>8. Back(jold' \o jcur', g, s) /\ mpc # "replay"
    BY <1>1, <2>1, <2>6 DEF Kept, EndSound, Dequeues, QueueLoop, QueueWoken
  <2>9. CASE g # f
    BY <2>1, <2>5, <2>6, <2>7, <2>8, <2>9, StaysKept
  <2>10. CASE g = f
    <3>1. s \in ElementsOf(values[g]) => InJobs(g, s)'
      BY <2>3, <2>10 DEF InJobs
    <3> QED BY <2>1, <2>6, <2>7, <2>8, <3>1 DEF Kept, Up, Alive
  <2> QED BY <2>9, <2>10
<1>2. CASE QueueUpdate(q)
  <2> DEFINE f == job[q].file
             batch == job[q].batch
  <2>1. /\ UNCHANGED <<jold, jcur, rlog, mpc, fpc, flushAtShutdown, values, queue>>
        /\ qpc[q] = "update"
        /\ \A p \in QueueThreads \ {q} : job'[p] = job[p]
    <3>1. /\ UNCHANGED <<jold, jcur, rlog, mpc, fpc, flushAtShutdown, values, queue>>
          /\ qpc[q] = "update"
      BY <1>2 DEF QueueUpdate, cacheVars, journalVars, replayVars
    <3>2. \A p \in QueueThreads \ {q} : job'[p] = job[p]
      BY <1>0, <1>2 DEF QueueUpdate
    <3> QED BY <3>1, <3>2
  <2>2. PICK n \in Written(q) :
          /\ owed' = [owed EXCEPT ![f] = @ \ ElementsOf(SubSeq(batch, 1, n))]
          /\ excused' = [excused EXCEPT ![f] =
                (@ \ ElementsOf(SubSeq(batch, 1, n)))
                \cup (ElementsOf(SubSeq(batch, n + 1, Len(batch))) \cap owed[f])]
    BY <1>2 DEF QueueUpdate
  <2>3. n \in 0 .. Len(batch)
    BY DEF Written, Taken
  <2>4. f \in Files /\ batch \in Seq(Stamps)
    BY <1>0
  <2> HIDE DEF f, batch
  <2> DEFINE done == ElementsOf(SubSeq(batch, 1, n))
             rest == ElementsOf(SubSeq(batch, n + 1, Len(batch)))
  <2>5. ElementsOf(batch) = done \cup rest
    BY <2>3, <2>4, ElementsCut, Zenon
  <2>6. /\ owed' = [owed EXCEPT ![f] = @ \ done]
        /\ excused' = [excused EXCEPT ![f] = (@ \ done) \cup (rest \cap owed[f])]
    BY <2>2
  <2> HIDE DEF done, rest
  <2>7. \A g \in Files : /\ Safe(g)' \subseteq Safe(g)
                         /\ g = f => Safe(g)' \cap ElementsOf(batch) = {}
    BY <1>0, <2>4, <2>5, <2>6 DEF Safe
  <2> SUFFICES ASSUME NEW g \in Files, NEW s \in Safe(g)' PROVE Kept(g, s)'
    BY DEF SafeKept
  <2>8. Kept(g, s)
    BY <2>7 DEF SafeKept
  <2>9. InJobs(g, s) => InJobs(g, s)'
    <3> SUFFICES ASSUME NEW p \in QueueThreads, job[p].file = g, s \in ElementsOf(job[p].batch)
                 PROVE  InJobs(g, s)'
      BY DEF InJobs
    <3>1. p # q
      BY <2>7 DEF f, batch
    <3> QED BY <2>1, <3>1 DEF InJobs
  <2>10. Back(jold' \o jcur', g, s)
    BY <2>1, <2>8 DEF Kept
  <2> QED BY <2>1, <2>8, <2>9, <2>10, StaysKept
<1>3. CASE QueueJournal(q)
  <2> DEFINE f == job[q].file
             entry == WroteEntry(f)
             base == [excused EXCEPT ![f] = @ \cup owed[f]]
  <2>1. /\ UNCHANGED <<rlog, mpc, fpc, values, queue, owed>>
        /\ IF job[q].jtest THEN JournalWrite(entry) /\ ExcusedIs(base)
           ELSE UNCHANGED <<journalVars, flushAtShutdown, excused>>
    BY <1>3 DEF QueueJournal, replayVars, cacheVars
  <2>2. f \in Files /\ entry \in Entries /\ entry.file = f
    BY <1>0, EntryTypes DEF WroteEntry
  <2>3. \A p \in QueueThreads : job'[p].file = job[p].file /\ job'[p].batch = job[p].batch
    BY <1>0, <1>3 DEF QueueJournal
  <2> HIDE DEF f, entry
  <2>4. \A g \in Files : excused[g] \subseteq base[g] /\ (g = f => owed[g] \subseteq base[g])
    BY <1>0, <2>2
  <2> HIDE DEF base
  <2> SUFFICES ASSUME NEW g \in Files, NEW s \in Safe(g)' PROVE Kept(g, s)'
    BY DEF SafeKept
  <2>5. InJobs(g, s) => InJobs(g, s)'
    BY <2>3, JobsStay
  <2>6. CASE job[q].jtest
    <3>1. /\ s \in Safe(g) /\ ~SetTooLate /\ g # f
      <4>1. base[g] \subseteq excused'[g] /\ (SetTooLate => owed[g] \subseteq excused'[g])
        BY <2>1, <2>6, ExcusedAll
      <4>2. s \in owed[g] /\ s \notin excused'[g]
        BY <2>1 DEF Safe
      <4> QED BY <2>4, <4>1, <4>2 DEF Safe
    <3>2. Kept(g, s)
      BY <3>1 DEF SafeKept
    <3>3. Back(jold' \o jcur', g, s)
      BY <1>0, <2>1, <2>2, <2>6, <3>1, <3>2, WriteKeepsBack DEF Kept
    <3>4. fpc' = "done" /\ flushAtShutdown' => fpc = "done" /\ flushAtShutdown
      BY <2>1, <3>1 DEF SetTooLate
    <3> QED BY <2>1, <2>5, <3>2, <3>3, <3>4, StaysKept
  <2>7. CASE ~job[q].jtest
    <3>1. UNCHANGED <<jold, jcur, flushAtShutdown, excused>>
      BY <2>1, <2>7 DEF journalVars
    <3>2. Kept(g, s)
      BY <2>1, <3>1 DEF SafeKept, Safe
    <3>3. Back(jold' \o jcur', g, s)
      BY <3>1, <3>2 DEF Kept
    <3> QED BY <2>1, <2>5, <3>1, <3>2, <3>3, StaysKept
  <2> QED BY <2>6, <2>7
<1> QED BY <1>1, <1>2, <1>3 DEF QueueMoves


(* A rotation: what the set that is given up has is excused.               *)
LEMMA RotateKept ==
    ASSUME IInv, SafeKept, RotateClose
    PROVE  SafeKept'
<1>0. TypeOK /\ excused \in [Files -> SUBSET Stamps] /\ mpc # "replay"
  BY DEF IInv, TypeOK, ControlSound, RotateClose
<1>1. /\ UNCHANGED <<owed, values, queue, job, rlog, mpc, flushAtShutdown>>
      /\ fpc' # "done" /\ jold' = jcur /\ jcur' = <<>>
      /\ excused' = [g \in Files |-> excused[g] \cup (owed[g] \cap Mentioned(jold, g))]
  BY DEF RotateClose, Rotate, cacheVars, replayVars
<1> SUFFICES ASSUME NEW f \in Files, NEW s \in Safe(f)' PROVE Kept(f, s)'
  BY DEF SafeKept
<1>2. s \in owed[f] /\ s \notin excused[f] /\ s \notin Mentioned(jold, f)
  BY <1>1 DEF Safe
<1>3. Kept(f, s)
  BY <1>2 DEF SafeKept, Safe
<1>4. jold \in Seq(Entries) /\ jcur \in Seq(Entries) /\ jcur \o <<>> = jcur
  BY <1>0, FoundType, ConcatEmptySeq
<1>5. ~Back(jold, f, s)
  BY <1>2, <1>4, BackMentioned
<1>6. Back(jcur, f, s)
  BY <1>3, <1>4, <1>5, BackConcat DEF Kept
<1>7. jold' \o jcur' = jcur
  BY <1>1, <1>4, Zenon
<1>8. Back(jold' \o jcur', f, s)
  BY <1>6, <1>7, Zenon
<1>9. InJobs(f, s) => InJobs(f, s)'
  BY <1>1 DEF InJobs
<1> QED BY <1>0, <1>1, <1>3, <1>8, <1>9, StaysKept

(* The end of the flush thread: everything that is cached is queued.       *)
LEMMA ExitKept ==
    ASSUME IInv, SafeKept, FlushExit
    PROVE  SafeKept'
<1>0. CacheInv /\ values \in [Files -> Seq(Stamps)] /\ mpc # "replay"
  BY DEF IInv, TypeOK, CacheInv, CacheTypeOK, ControlSound, FlushExit
<1>1. /\ UNCHANGED <<owed, excused, job, rlog, mpc, flushAtShutdown, jold, jcur>>
      /\ IF flushAtShutdown THEN FlushOldValues(EverythingAge, FALSE) ELSE UNCHANGED cacheVars
  BY DEF FlushExit, diskVars, journalVars, replayVars
<1> SUFFICES ASSUME NEW f \in Files, NEW s \in Safe(f)' PROVE Kept(f, s)'
  BY DEF SafeKept
<1>2. Kept(f, s)
  BY <1>1 DEF Safe, SafeKept
<1>3. Back(jold' \o jcur', f, s) /\ (Up' <=> Up) /\ (InJobs(f, s) <=> InJobs(f, s)')
  BY <1>1, <1>2 DEF Kept, Up, Alive, InJobs
<1>4. values'[f] = values[f]
      /\ (flushAtShutdown /\ s \in ElementsOf(values[f]) => InQueue(queue', f))
  <2>1. CASE flushAtShutdown
    <3>1. FlushOldValues(EverythingAge, FALSE)
      BY <1>1, <2>1
    <3>2. /\ InQueue(queue', f) <=> InQueue(queue, f) \/ f \in OldItems(EverythingAge, FALSE)
          /\ values'[f] = values[f]
      BY <1>0, <3>1, EverythingAgeType, FlushedOldValues
    <3>3. s \in ElementsOf(values[f]) => values[f] # <<>> /\ f \in tree
      BY <1>0, ElementsSmall DEF CacheInv, ItemsSound
    <3> QED BY <3>2, <3>3 DEF OldItems
  <2>2. CASE ~flushAtShutdown
    BY <1>1, <2>2 DEF cacheVars
  <2> QED BY <2>1, <2>2
<1>5. mpc' # "replay"
  BY <1>0, <1>1
<1> QED BY <1>1, <1>2, <1>3, <1>4, <1>5 DEF Kept

(* A clean end: the journal is removed only if nothing is left.            *)
LEMMA CleanupKept ==
    ASSUME IInv, EndSound, SafeKept, Cleanup
    PROVE  SafeKept'
<1>1. /\ UNCHANGED <<owed, excused>> /\ mpc = "join_queue" /\ mpc' = "exit"
      /\ \A q \in QueueThreads : qpc[q] = "done"
      /\ flushAtShutdown => queue = <<>>
      /\ UNCHANGED <<jold, jcur>> \/ flushAtShutdown
  BY DEF Cleanup, QueueThreadsDone, Done, diskVars, journalVars
<1> SUFFICES ASSUME NEW f \in Files, NEW s \in Safe(f)' PROVE Kept(f, s)'
  BY DEF SafeKept
<1>2. Kept(f, s)
  BY <1>1 DEF Safe, SafeKept
<1>3. ~flushAtShutdown
  <2>1. Up /\ fpc = "done"
    BY <1>1 DEF Up, Alive, EndSound
  <2>2. ~InJobs(f, s)
    BY <1>1, ElementsSmall DEF InJobs, EndSound
  <2>3. flushAtShutdown => ~InQueue(queue, f)
    BY <1>1 DEF InQueue
  <2> QED BY <1>2, <2>1, <2>2, <2>3 DEF Kept
<1>4. Back(jold' \o jcur', f, s)
  BY <1>1, <1>2, <1>3 DEF Kept
<1> QED BY <1>1, <1>4 DEF Kept, Up, Alive

(* A process that dies: what stdio had not written is excused.             *)
LEMMA DieKept ==
    ASSUME IInv, SafeKept, NEW kept \in jsafe .. Len(jcur), Die(kept)
    PROVE  SafeKept'
<1> DEFINE end == SubSeq(jcur, kept + 1, Len(jcur))
<1>1. /\ mpc' = "crashed" /\ owed' = owed
      /\ excused' = [g \in Files |-> excused[g] \cup (owed[g] \cap Mentioned(end, g))]
  BY DEF Die
<1>2. /\ jcur = jcur' \o end /\ end \in Seq(Entries) /\ jcur' \in Seq(Entries)
      /\ jold \o jcur = (jold' \o jcur') \o end
  BY DieFound DEF IInv
<1>3. jold' \o jcur' \in Seq(Entries)
  <2>1. jold \in Seq(Entries) /\ jold' = jold
    BY FoundType DEF IInv, Die, Lose
  <2> QED BY <1>2, <2>1, ConcatProperties
<1> HIDE DEF end
<1> SUFFICES ASSUME NEW f \in Files, NEW s \in Safe(f)' PROVE Kept(f, s)'
  BY DEF SafeKept
<1>4. s \in owed[f] /\ s \notin excused[f] /\ s \notin Mentioned(end, f)
  BY <1>1 DEF Safe
<1>5. Kept(f, s)
  BY <1>4 DEF SafeKept, Safe
<1>6. ~Back(end, f, s)
  BY <1>2, <1>4, BackMentioned
<1> DEFINE left == jold' \o jcur'
<1> HIDE DEF left
<1>7. Back(left \o end, f, s)
  BY <1>2, <1>5, Zenon DEF Kept, left
<1>8. left \in Seq(Entries)
  BY <1>3 DEF left
<1>9. Back(left, f, s)
  BY <1>2, <1>6, <1>7, <1>8, BackConcat
<1> QED BY <1>1, <1>9 DEF Kept, Up, Alive, left

(* The next process finds everything.                                      *)
LEMMA RestartKept ==
    ASSUME IInv, SafeKept, Restart
    PROVE  SafeKept'
<1>1. UNCHANGED <<owed, excused>> /\ mpc' = "replay"
  BY DEF Restart, diskVars
<1>2. rlog' = Found /\ jold' \o jcur' = Found
  BY RestartFound DEF IInv
<1>3. jdead \in Seq(Entries) /\ jold \o jcur \in Seq(Entries) /\ Found = jdead \o (jold \o jcur)
  BY FoundType DEF IInv
<1> SUFFICES ASSUME NEW f \in Files, NEW s \in Safe(f)' PROVE Kept(f, s)'
  BY DEF SafeKept
<1>4. Kept(f, s)
  BY <1>1 DEF SafeKept, Safe
<1> DEFINE tail == jold \o jcur
<1> HIDE DEF tail
<1>5. Back(tail, f, s) /\ tail \in Seq(Entries)
  BY <1>3, <1>4 DEF Kept, tail
<1>6. Back(jdead \o tail, f, s)
  BY <1>3, <1>5, BackConcat
<1>7. Back(Found, f, s)
  BY <1>3, <1>6, Zenon DEF tail
<1>8. Back(jold' \o jcur', f, s) /\ Back(rlog', f, s)
  BY <1>2, <1>7, Zenon
<1> QED BY <1>1, <1>8 DEF Kept, Up, Alive

(* A signal: if it asks for a flush too late, everything is excused.       *)
LEMMA SignalKept ==
    ASSUME IInv, SafeKept, NEW t \in Signals, Signal(t)
    PROVE  SafeKept'
<1>1. /\ UNCHANGED <<owed, values, queue, job, rlog, mpc, jold, jcur>>
      /\ ExcusedIs(excused) /\ fpc' = FlushWoken
  BY DEF Signal, cacheVars, journalVars, replayVars
<1> SUFFICES ASSUME NEW f \in Files, NEW s \in Safe(f)' PROVE Kept(f, s)'
  BY DEF SafeKept
<1>2. s \in owed[f] /\ s \notin excused'[f]
  BY <1>1 DEF Safe
<1>3. s \notin excused[f] /\ ~SetTooLate
  BY <1>1, <1>2, ExcusedAll
<1>4. Kept(f, s)
  BY <1>2, <1>3 DEF SafeKept, Safe
<1>5. fpc' = "done" /\ flushAtShutdown' => fpc = "done" /\ flushAtShutdown
  BY <1>1, <1>3 DEF SetTooLate, FlushWoken, IInv, TypeOK
<1>6. Back(jold' \o jcur', f, s) /\ (InJobs(f, s) => InJobs(f, s)')
  BY <1>1, <1>4 DEF Kept, InJobs
<1> QED BY <1>1, <1>4, <1>5, <1>6, StaysKept

(* The end of a replay: what it has brought back is cached.                *)
LEMMA ReplayDoneKept ==
    ASSUME IInv, SafeKept, ReplayDone
    PROVE  SafeKept'
<1>0. CacheInv
  BY DEF IInv, TypeOK, CacheInv
<1>1. /\ UNCHANGED <<owed, excused, job, rlog, jold, jcur>>
      /\ mpc = "replay" /\ rlog = <<>> /\ mpc' = "loop" /\ fpc' = "loop"
      /\ UNCHANGED cacheVars \/ \E b \in BOOLEAN : FlushOldValues(EverythingAge, b)
  BY DEF ReplayDone, NewFile, diskVars, journalVars, replayVars
<1> SUFFICES ASSUME NEW f \in Files, NEW s \in Safe(f)' PROVE Kept(f, s)'
  BY DEF SafeKept
<1>2. Kept(f, s)
  BY <1>1 DEF SafeKept, Safe
<1>3. s \in ElementsOf(values[f])
  BY <1>1, <1>2, BackSmall DEF Kept
<1>4. values'[f] = values[f]
  BY <1>0, <1>1, EverythingAgeType, FlushOldQuiet DEF cacheVars
<1>5. Back(jold' \o jcur', f, s)
  BY <1>1, <1>2 DEF Kept
<1> QED BY <1>1, <1>3, <1>4, <1>5 DEF Kept

(* One entry is replayed.                                                  *)
LEMMA ReplayKept ==
    ASSUME IInv, ReplaySound, SafeKept, ReplayEntry
    PROVE  SafeKept'
<1> DEFINE e == Head(rlog)
           rest == Tail(rlog)
<1>0. /\ TypeOK /\ ItemsSound /\ values \in [Files -> Seq(Stamps)]
      /\ lastStamp \in [Files -> Stamps \cup {0}]
  BY DEF IInv, TypeOK, CacheTypeOK
<1>1. /\ UNCHANGED <<owed, excused, jold, jcur, mpc>> /\ mpc = "replay" /\ rlog' = rest
  BY DEF ReplayEntry, diskVars, journalVars, threadVars
<1>2. /\ rlog \in Seq(Entries) /\ rlog # <<>> /\ e \in Logged
      /\ e.file \in Files /\ e.vals \in Seq(Stamps) /\ e \in Entries
  BY <1>0, ReplayHead
<1>3. /\ rest \in Seq(Entries) /\ <<e>> \in Seq(Entries) /\ rlog = <<e>> \o rest
      /\ ElementsOf(rlog) = {e} \cup ElementsOf(rest)
  BY <1>2, ElementsHead, Zenon
<1>4. \/ /\ e.op = "update" /\ e.file \in tree
         /\ \E n \in Taken(lastStamp[e.file], e.vals), lag \in 0 .. MaxLag :
               AppendValues(e.file, e.vals, n, lag)
      \/ /\ e.op = "update" /\ e.file \notin tree
         /\ \E n \in Taken(0, e.vals) : AddItemWith(e.file, e.vals, n)
      \/ /\ e.op # "update"
         /\ DropWrote(e.file) \/ ForgetItem(e.file) \/ UNCHANGED cacheVars
  BY DEF ReplayEntry
<1> HIDE DEF e, rest
<1>5. \A g \in Files \ {e.file} : values'[g] = values[g]
  BY <1>0, <1>4 DEF AppendValues, AddItemWith, DropWrote, TakeValues, ForgetItem, RemoveItems,
                    cacheVars
<1>6. ASSUME e.op = "update"
      PROVE  \E n \in Taken(0, e.vals) :
                /\ ElementsOf(values[e.file]) \subseteq ElementsOf(values'[e.file])
                /\ ElementsOf(SubSeq(e.vals, 1, n)) \subseteq ElementsOf(values'[e.file])
  <2>1. CASE \E n \in Taken(lastStamp[e.file], e.vals), lag \in 0 .. MaxLag :
               AppendValues(e.file, e.vals, n, lag)
    <3>1. PICK n \in Taken(lastStamp[e.file], e.vals), lag \in 0 .. MaxLag :
               AppendValues(e.file, e.vals, n, lag)
      BY <2>1
    <3>2. n \in 0 .. Len(e.vals)
      BY DEF Taken
    <3>3. ElementsOf(values'[e.file]) =
             ElementsOf(values[e.file]) \cup ElementsOf(SubSeq(e.vals, 1, n))
      BY <1>0, <1>2, <3>1, <3>2, AppendHolds
    <3>4. lastStamp[e.file] \in Nat
      BY <1>0, <1>2, StampsAreNumbers
    <3>5. \A x \in ElementsOf(e.vals) : lastStamp[e.file] < x
      BY <1>3 DEF ReplaySound
    <3>6. n \in Taken(0, e.vals)
      BY <1>2, <3>4, <3>5, TakenNewer
    <3> QED BY <3>3, <3>6
  <2>2. CASE e.file \notin tree /\ \E n \in Taken(0, e.vals) : AddItemWith(e.file, e.vals, n)
    <3>1. PICK n \in Taken(0, e.vals) : AddItemWith(e.file, e.vals, n)
      BY <2>2
    <3>2. values'[e.file] = SubSeq(e.vals, 1, n)
      BY <1>0, <1>2, <3>1 DEF AddItemWith
    <3>3. ElementsOf(values[e.file]) = {}
      BY <1>0, <1>2, <2>2, ElementsSmall DEF ItemsSound
    <3> QED BY <3>2, <3>3
  <2> QED BY <1>4, <1>6, <2>1, <2>2
<1> SUFFICES ASSUME NEW f \in Files, NEW s \in Safe(f)' PROVE Kept(f, s)'
  BY DEF SafeKept
<1>7. Kept(f, s) /\ s \in owed[f]
  BY <1>1 DEF SafeKept, Safe
<1>8. /\ Back(<<e>>, f, s) <=> e.file = f /\ s \in ElementsOf(e.vals) /\ e.op = "update"
  BY BackSmall
<1>9. Back(rlog, f, s) => Back(rest, f, s) \/ (Back(<<e>>, f, s) /\ OnlyUpdates(rest, f))
  <2> DEFINE first == <<e>>
  <2> HIDE DEF first
  <2>1. Back(first \o rest, f, s)
        => Back(rest, f, s) \/ (Back(first, f, s) /\ OnlyUpdates(rest, f))
    BY <1>3, BackConcat DEF first
  <2> QED BY <1>3, <2>1, Zenon DEF first
<1>10. ASSUME s \in ElementsOf(values[f]), OnlyUpdates(rlog, f)
       PROVE  s \in ElementsOf(values'[f]) /\ OnlyUpdates(rest, f)
  <2>1. OnlyUpdates(rest, f) /\ (e.file = f => e.op = "update")
    BY <1>3, <1>10 DEF OnlyUpdates
  <2> QED BY <1>5, <1>6, <1>10, <2>1
<1>11. ASSUME Back(<<e>>, f, s), OnlyUpdates(rest, f)
       PROVE  s \in ElementsOf(values'[f]) /\ OnlyUpdates(rest, f)
  <2>1. e.file = f /\ s \in ElementsOf(e.vals) /\ e.op = "update"
    BY <1>8, <1>11
  <2>2. \A n \in Taken(0, e.vals) : s \in ElementsOf(SubSeq(e.vals, 1, n))
    BY <1>2, <1>7, <2>1 DEF ReplaySound, AcceptedFirst
  <2> QED BY <1>6, <1>11, <2>1, <2>2
<1>12. (s \in ElementsOf(values'[f]) /\ OnlyUpdates(rlog', f)) \/ Back(rlog', f, s)
  BY <1>1, <1>7, <1>9, <1>10, <1>11 DEF Kept
<1>13. Back(jold' \o jcur', f, s)
  BY <1>1, <1>7 DEF Kept
<1> QED BY <1>1, <1>12, <1>13 DEF Kept, Up, Alive

(* Every step keeps SafeKept.                                              *)
LEMMA NextKept ==
    ASSUME IInv, EndSound, ReplaySound, SafeKept, [Next]_vars
    PROVE  SafeKept'
<1>1. CASE OtherMoves
  BY <1>1, RotateKept, ExitKept, CleanupKept, DieKept, RestartKept, ReplayKept, ReplayDoneKept,
     SignalKept DEF OtherMoves, Dies
<1> QED BY <1>1, NextQuiet, QuietKept, ConnKept, QueueKept

(* SafeKept says what Recoverable asks for.                                *)
LEMMA KeptIsRecoverable ==
    ASSUME IInv, EndSound, SafeKept
    PROVE  Recoverable
<1>0. TypeOK /\ values \in [Files -> Seq(Stamps)] /\ rlog \in Seq(Entries)
      /\ jdead \in Seq(Entries) /\ jold \o jcur \in Seq(Entries)
      /\ Found = jdead \o (jold \o jcur)
  BY FoundType DEF IInv, TypeOK, CacheTypeOK
<1> SUFFICES ASSUME NEW f \in Files, NEW s \in owed[f] \ excused[f]
             PROVE  /\ mpc # "replay" => s \in Replayable(Found, f)
                    /\ mpc = "replay" =>
                          s \in Replayable(<<UpdateEntry(f, values[f])>> \o rlog, f)
                    /\ Up => s \in ElementsOf(values[f]) \cup InFlight(f)
  BY DEF Recoverable
<1>1. Kept(f, s)
  BY DEF SafeKept, Safe
<1>2. s \in Replayable(Found, f)
  <2> DEFINE tail == jold \o jcur
  <2>1. Back(tail, f, s) /\ tail \in Seq(Entries)
    BY <1>0, <1>1 DEF Kept
  <2> HIDE DEF tail
  <2>2. Back(jdead \o tail, f, s)
    BY <1>0, <2>1, BackConcat
  <2>3. Back(Found, f, s)
    BY <1>0, <2>2, Zenon DEF tail
  <2> QED BY <2>3, BackIsReplayable
<1>3. mpc = "replay" => s \in Replayable(<<UpdateEntry(f, values[f])>> \o rlog, f)
  <2> DEFINE entry == UpdateEntry(f, values[f])
             item == <<entry>>
  <2>1. entry \in Entries /\ entry.file = f /\ entry.vals = values[f] /\ entry.op = "update"
    BY <1>0, EntryTypes DEF UpdateEntry
  <2> HIDE DEF entry
  <2>2. item \in Seq(Entries)
    BY <2>1
  <2>3. Back(item, f, s) <=> s \in ElementsOf(values[f])
    BY <2>1, BackSmall
  <2> HIDE DEF item
  <2>4. mpc = "replay" => Back(item \o rlog, f, s)
    BY <1>0, <1>1, <2>2, <2>3, BackConcat DEF Kept
  <2>5. mpc = "replay" => s \in Replayable(item \o rlog, f)
    BY <2>4, BackIsReplayable
  <2> QED BY <2>5 DEF item, entry
<1>4. InJobs(f, s) => s \in InFlight(f)
  <2> SUFFICES ASSUME NEW q \in QueueThreads, job[q].file = f, s \in ElementsOf(job[q].batch)
               PROVE  s \in InFlight(f)
    BY DEF InJobs
  <2>1. qpc[q] = "update"
    BY ElementsSmall DEF EndSound
  <2> QED BY <2>1 DEF InFlight
<1> QED BY <1>1, <1>2, <1>3, <1>4 DEF Kept


-----------------------------------------------------------------------------
(* The theorem                                                             *)

\* The inductive invariant.
RecoveryInv ==
    /\ IInv /\ EndSound /\ KnownFiles /\ ClientSound /\ ReplaySound /\ SafeKept

(* The invariant holds at the start: nothing is owed.                      *)
LEMMA InitRecovery == Init => RecoveryInv
<1>1. Init => SafeKept
  BY DEF Init, SafeKept, Safe
<1> QED BY <1>1, InitInv, InitEnd, InitKnown, InitClient, InitReplay DEF RecoveryInv

(* Every step keeps it, if clients do not go back.                         *)
LEMMA NextRecovery ==
    ASSUME ~StaleClients
    PROVE  RecoveryInv /\ [Next]_vars => RecoveryInv'
<1> SUFFICES ASSUME RecoveryInv, [Next]_vars PROVE RecoveryInv'
  OBVIOUS
<1>1. IInv /\ EndSound /\ KnownFiles /\ ClientSound /\ ReplaySound /\ SafeKept
  BY DEF RecoveryInv
<1>2. IInv' /\ EndSound' /\ KnownFiles'
  BY <1>1, NextInv, NextEnd, NextKnown
<1>3. ClientSound' /\ ReplaySound'
  BY <1>1, NextClient, NextReplay
<1>4. SafeKept'
  BY <1>1, NextKept
<1> QED BY <1>2, <1>3, <1>4 DEF RecoveryInv

(* Whatever the threads, the clients, signals and crashes do: a value that *)
(* handle_request_update has accepted and that rrd_update_r has not yet    *)
(* written can be brought back by journal_replay, and is in the cache or   *)
(* being written while the daemon is up, unless the journal failed to      *)
(* cover it for a reason recorded in excused.  Clients send the stamps of  *)
(* a file in order.                                                        *)
THEOREM DaemonRecoverable ==
    ASSUME ~StaleClients
    PROVE  Spec => []Recoverable
<1>1. Init => RecoveryInv
  BY InitRecovery
<1>2. RecoveryInv /\ [Next]_vars => RecoveryInv'
  BY NextRecovery
<1>3. RecoveryInv => Recoverable
  BY KeptIsRecoverable DEF RecoveryInv
<1> QED BY <1>1, <1>2, <1>3, PTL DEF Spec


-----------------------------------------------------------------------------
(* A single writer                                                         *)

Rising(s) == \A i \in 1 .. Len(s) : i > 1 => s[i - 1] < s[i]

\* What is cached is newer than what is being written, and that is newer than
\* the file: rrd_update_r has no reason to refuse it.
WritesNew ==
    /\ \A f \in Files : \A v \in ElementsOf(values[f]) : rrd[f] < v
    /\ \A q \in QueueThreads :
          /\ ~job[q].raced /\ Rising(job[q].batch)
          /\ \A b \in ElementsOf(job[q].batch) :
                /\ rrd[job[q].file] < b
                /\ \A v \in ElementsOf(values[job[q].file]) : b < v

\* What is owed is cached or being written, and a daemon that has started for
\* the first time has nothing to replay.
AllHeld ==
    /\ mpc = "replay" => rlog = <<>> /\ \A f \in Files : owed[f] = {}
    /\ Up => \A f \in Files : \A s \in owed[f] : s \in ElementsOf(values[f]) \/ InJobs(f, s)

(* A step that adds no value and starts no batch.                          *)
LEMMA WritesStay ==
    ASSUME TypeOK, WritesNew, rrd' = rrd,
           \A f \in Files : ElementsOf(values'[f]) \subseteq ElementsOf(values[f]),
           \A q \in QueueThreads :
              \/ /\ job'[q].file = job[q].file /\ job'[q].batch = job[q].batch
                 /\ job'[q].raced = job[q].raced
              \/ job'[q] = NoJob
    PROVE  WritesNew'
<1>1. \A f \in Files : \A v \in ElementsOf(values'[f]) : rrd'[f] < v
  BY DEF WritesNew
<1>2. ASSUME NEW q \in QueueThreads
      PROVE  /\ ~job'[q].raced /\ Rising(job'[q].batch)
             /\ \A b \in ElementsOf(job'[q].batch) :
                   /\ rrd'[job'[q].file] < b
                   /\ \A v \in ElementsOf(values'[job'[q].file]) : b < v
  <2>1. CASE job'[q] = NoJob
    <3>1. ~NoJob.raced /\ NoJob.batch = <<>>
      BY DEF NoJob
    <3>2. Rising(<<>>)
      BY DEF Rising
    <3> QED BY <2>1, <3>1, <3>2, ElementsSmall
  <2>2. CASE /\ job'[q].file = job[q].file /\ job'[q].batch = job[q].batch
             /\ job'[q].raced = job[q].raced
    <3>1. job[q].file \in Files
      BY DEF TypeOK
    <3> QED BY <2>2, <3>1 DEF WritesNew
  <2> QED BY <2>1, <2>2
<1>3. WritesNew' <=>
        /\ \A f \in Files : \A v \in ElementsOf(values'[f]) : rrd'[f] < v
        /\ \A q \in QueueThreads :
              /\ ~job'[q].raced /\ Rising(job'[q].batch)
              /\ \A b \in ElementsOf(job'[q].batch) :
                    /\ rrd'[job'[q].file] < b
                    /\ \A v \in ElementsOf(values'[job'[q].file]) : b < v
  BY DEF WritesNew
<1> QED BY <1>1, <1>2, <1>3

(* A request that is applied.                                              *)
LEMMA ApplyWrites ==
    ASSUME IInv, EndSound, ClientSound, WritesNew, AllHeld, NEW c \in Conns, UpdateApply(c)
    PROVE  WritesNew' /\ AllHeld'
<1> DEFINE f == arg[c].file
           vals == arg[c].vals
<1>0. /\ TypeOK /\ f \in Files /\ vals \in Seq(Stamps) /\ mpc # "replay"
      /\ owed \in [Files -> SUBSET Stamps]
  BY DEF IInv, TypeOK, ControlSound, UpdateApply
<1>1. UNCHANGED <<rrd, job, mpc, rlog>>
  BY DEF UpdateApply, replayVars
<1>2. PICK n \in Taken(lastStamp[f], vals), lag \in 0 .. MaxLag :
        /\ AppendValues(f, vals, n, lag)
        /\ owed' = [owed EXCEPT ![f] = @ \cup ElementsOf(SubSeq(vals, 1, n))]
  BY DEF UpdateApply
<1>3. n \in 0 .. Len(vals)
  BY DEF Taken
<1>4. \A x \in ElementsOf(vals) : \A s : Holds(f, s) => s < x
  BY DEF ClientSound
<1> DEFINE new == ElementsOf(SubSeq(vals, 1, n))
<1>5. owed' = [owed EXCEPT ![f] = @ \cup new] /\ AppendValues(f, vals, n, lag)
  BY <1>2
<1> HIDE DEF f, vals
<1>6. /\ ElementsOf(values'[f]) = ElementsOf(values[f]) \cup new /\ new \subseteq ElementsOf(vals)
      /\ \A g \in Files \ {f} : values'[g] = values[g]
  BY <1>0, <1>3, <1>5, AppendHolds
<1> HIDE DEF new
<1>7. ASSUME NEW g \in Files, NEW v \in ElementsOf(values'[g])
      PROVE  v \in ElementsOf(values[g]) \/ (g = f /\ \A s : Holds(g, s) => s < v)
  BY <1>4, <1>6
<1>8. ASSUME NEW g \in Files, NEW v \in ElementsOf(values'[g]) PROVE rrd'[g] < v
  <2>1. Holds(g, rrd[g])
    BY DEF Holds
  <2> QED BY <1>1, <1>7, <2>1 DEF WritesNew
<1>9. ASSUME NEW q \in QueueThreads, NEW b \in ElementsOf(job[q].batch),
             NEW v \in ElementsOf(values'[job[q].file])
      PROVE  b < v
  <2>1. job[q].file \in Files /\ Holds(job[q].file, b)
    BY <1>0 DEF TypeOK, Holds, InJobs
  <2> QED BY <1>7, <2>1 DEF WritesNew
<1>10. WritesNew'
  BY <1>1, <1>8, <1>9 DEF WritesNew
<1>11. /\ owed'[f] = owed[f] \cup new
       /\ \A g \in Files \ {f} : owed'[g] = owed[g]
  BY <1>0, <1>5
<1>12. (Up' <=> Up) /\ \A g, s : InJobs(g, s)' <=> InJobs(g, s)
  BY <1>1 DEF Up, Alive, InJobs
<1>13. ASSUME Up', NEW g \in Files, NEW s \in owed'[g]
       PROVE  s \in ElementsOf(values'[g]) \/ InJobs(g, s)'
  BY <1>6, <1>11, <1>12, <1>13 DEF AllHeld
<1>14. AllHeld'
  BY <1>0, <1>1, <1>13 DEF AllHeld
<1> QED BY <1>10, <1>14

(* The other steps of a connection.                                        *)
LEMMA ConnWrites ==
    ASSUME IInv, EndSound, ClientSound, WritesNew, AllHeld, NEW c \in Conns, ConnMoves(c)
    PROVE  WritesNew' /\ AllHeld'
<1>0. /\ TypeOK /\ arg[c].file \in Files /\ owed \in [Files -> SUBSET Stamps]
      /\ values \in [Files -> Seq(Stamps)]
  BY DEF IInv, TypeOK, CacheTypeOK
<1>1. CASE Command(c) \/ ForgetJournal(c)
  <2>1. UNCHANGED <<rrd, job, mpc, rlog, values, owed>>
    BY <1>1 DEF Command, Request, ForgetJournal, diskVars, cacheVars, replayVars
  <2>2. WritesNew'
    BY <1>0, <2>1, WritesStay
  <2> QED BY <2>1, <2>2 DEF AllHeld, Up, Alive, InJobs
<1>2. CASE ForgetRemove(c) /\ arg[c].file \in tree
  <2> DEFINE f == arg[c].file
  <2>1. /\ UNCHANGED <<rrd, job, mpc, rlog>> /\ ForgetItem(f) /\ mpc # "replay"
        /\ owed' = [owed EXCEPT ![f] = @ \ ElementsOf(values[f])]
    BY <1>2 DEF ForgetRemove, replayVars, IInv, ControlSound
  <2>2. f \in Files
    BY <1>0
  <2> HIDE DEF f
  <2>3. values'[f] = <<>> /\ \A g \in Files \ {f} : values'[g] = values[g]
    BY <2>1, <2>2 DEF ForgetItem, RemoveItems
  <2>4. owed'[f] = owed[f] \ ElementsOf(values[f]) /\ \A g \in Files \ {f} : owed'[g] = owed[g]
    BY <1>0, <2>1, <2>2
  <2>5. WritesNew'
    BY <1>0, <2>1, <2>3, ElementsSmall, WritesStay
  <2>6. (Up' <=> Up) /\ \A g, s : InJobs(g, s)' <=> InJobs(g, s)
    BY <2>1 DEF Up, Alive, InJobs
  <2>7. ASSUME Up', NEW g \in Files, NEW s \in owed'[g]
        PROVE  s \in ElementsOf(values'[g]) \/ InJobs(g, s)'
    BY <2>3, <2>4, <2>6, <2>7 DEF AllHeld
  <2> QED BY <2>1, <2>5, <2>7 DEF AllHeld
<1> QED BY <1>1, <1>2, ApplyWrites DEF ConnMoves

(* rrd_update_r takes all of a batch that is new and in order.             *)
LEMMA WritesAll ==
    ASSUME ~CanFail, TypeOK, WritesNew, NEW q \in QueueThreads, NEW n \in Written(q)
    PROVE  n = Len(job[q].batch)
<1> DEFINE batch == job[q].batch
           last == rrd[job[q].file]
           Good(k) == \A i \in 1 .. k : MovesForward(batch[i], IF i = 1 THEN last ELSE batch[i - 1])
<1>1. /\ batch \in Seq(Stamps) /\ ~job[q].raced /\ Rising(batch)
      /\ \A b \in ElementsOf(batch) : last < b
      /\ last \in Nat
  BY StampsAreNumbers DEF TypeOK, WritesNew
<1>2. n \in 0 .. Len(batch) /\ (n < Len(batch) => ~Good(n + 1))
  BY <1>1 DEF Written, Taken
<1> HIDE DEF batch, last
<1>3. ASSUME NEW i \in 1 .. Len(batch)
      PROVE  MovesForward(batch[i], IF i = 1 THEN last ELSE batch[i - 1])
  <2>1. CASE i = 1
    <3>1. batch[i] \in Stamps /\ batch[i] \in ElementsOf(batch)
      BY <1>1 DEF ElementsOf
    <3>2. last < batch[i] /\ batch[i] \in Nat
      BY <1>1, <3>1, StampsAreNumbers
    <3> QED BY <1>1, <2>1, <3>2 DEF MovesForward
  <2>2. CASE i # 1
    <3>1. batch[i - 1] < batch[i] /\ i - 1 \in 1 .. Len(batch) /\ i > 1
      BY <1>1, <2>2 DEF Rising
    <3>2. batch[i] \in Stamps /\ batch[i - 1] \in Stamps
      BY <1>1, <3>1
    <3>3. batch[i] \in Nat /\ batch[i - 1] \in Nat
      BY <3>2, StampsAreNumbers
    <3> QED BY <2>2, <3>1, <3>3 DEF MovesForward
  <2> QED BY <2>1, <2>2
<1>4. n < Len(batch) => Good(n + 1)
  <2>1. n < Len(batch) => \A i \in 1 .. n + 1 : i \in 1 .. Len(batch)
    BY <1>1, <1>2
  <2> QED BY <1>3, <2>1
<1> HIDE DEF Good
<1>5. n = Len(batch)
  BY <1>1, <1>2, <1>4
<1> QED BY <1>5 DEF batch

(* The steps of the only update thread.                                    *)
LEMMA QueueWrites ==
    ASSUME ~CanFail, \A p, r \in QueueThreads : p = r,
           IInv, EndSound, WritesNew, AllHeld, NEW q \in QueueThreads, QueueMoves(q)
    PROVE  WritesNew' /\ AllHeld'
<1>0. /\ TypeOK /\ job[q].file \in Files /\ job[q].batch \in Seq(Stamps)
      /\ job \in [QueueThreads -> [file : Files, batch : Seq(Stamps),
                                   jtest : BOOLEAN, raced : BOOLEAN]]
      /\ owed \in [Files -> SUBSET Stamps] /\ rrd \in [Files -> Stamps \cup {0}]
      /\ values \in [Files -> Seq(Stamps)] /\ queue \in Seq(Files) /\ ItemsSound
  BY DEF IInv, TypeOK, CacheTypeOK
<1>1. mpc # "replay" /\ UNCHANGED <<mpc, rlog>> /\ \A p \in QueueThreads : p = q
  BY DEF QueueMoves, Dequeues, QueueLoop, QueueWoken, QueueUpdate, QueueJournal, EndSound,
         replayVars
<1>2. CASE Dequeues(q)
  <2> DEFINE f == Head(queue)
  <2>1. UNCHANGED <<rrd, owed>> /\ Dequeue(q) /\ qpc[q] # "update" /\ queue # <<>>
    BY <1>2 DEF Dequeues, QueueLoop, QueueWoken, Dequeue, diskVars
  <2>2. f \in Files
    BY <1>0, <2>1
  <2>3. job'[q].file = f /\ job'[q].batch = values[f] /\ job'[q].raced = FALSE
    <3>1. {p \in QueueThreads \ {q} : qpc[p] = "update" /\ job[p].file = f} = {}
      BY <1>1
    <3> QED BY <2>1, <3>1 DEF Dequeue
  <2>4. TakeValues(f)
    BY <2>1 DEF Dequeue
  <2> HIDE DEF f
  <2>5. values'[f] = <<>> /\ \A g \in Files \ {f} : values'[g] = values[g]
    BY <1>0, <2>2, <2>4 DEF TakeValues
  <2>6. Rising(values[f])
    BY <1>0, <2>2 DEF ItemsSound, Forward, Rising
  <2>7. WritesNew'
    BY <1>1, <2>1, <2>2, <2>3, <2>5, <2>6, ElementsSmall DEF WritesNew
  <2>8. \A g, s : ~InJobs(g, s)
    BY <1>1, <2>1, ElementsSmall DEF InJobs, EndSound
  <2>9. ASSUME Up', NEW g \in Files, NEW s \in owed'[g]
        PROVE  s \in ElementsOf(values'[g]) \/ InJobs(g, s)'
    <3>1. s \in ElementsOf(values[g])
      BY <1>1, <2>1, <2>8, <2>9 DEF AllHeld, Up, Alive
    <3>2. CASE g = f
      BY <2>3, <3>1, <3>2 DEF InJobs
    <3> QED BY <2>5, <3>1, <3>2
  <2> QED BY <1>1, <2>7, <2>9 DEF AllHeld
<1>3. CASE QueueUpdate(q)
  <2> DEFINE f == job[q].file
             batch == job[q].batch
  <2>1. /\ values' = values /\ qpc[q] = "update"
        /\ job'[q].file = f /\ job'[q].batch = <<>> /\ job'[q].raced = FALSE
    <3>1. values' = values /\ qpc[q] = "update"
      BY <1>3 DEF QueueUpdate, cacheVars
    <3> QED BY <1>0, <1>3, <3>1 DEF QueueUpdate
  <2>2. PICK n \in Written(q) :
          /\ rrd' = [rrd EXCEPT ![f] = IF n = 0 THEN @ ELSE batch[n]]
          /\ owed' = [owed EXCEPT ![f] = @ \ ElementsOf(SubSeq(batch, 1, n))]
    BY <1>3 DEF QueueUpdate
  <2>3. n = Len(batch)
    BY <1>0, WritesAll
  <2>4. f \in Files /\ batch \in Seq(Stamps)
    BY <1>0
  <2>5. \A b \in ElementsOf(batch) : \A v \in ElementsOf(values[f]) : b < v
    BY DEF WritesNew
  <2>6. ASSUME NEW g, NEW s, InJobs(g, s) PROVE g = f /\ s \in ElementsOf(batch)
    BY <1>1, <2>6 DEF InJobs
  <2> HIDE DEF f, batch
  <2>7. SubSeq(batch, 1, n) = batch
    BY <2>3, <2>4, SubSeqFull
  <2>8. owed' = [owed EXCEPT ![f] = @ \ ElementsOf(batch)]
    BY <2>2, <2>7
  <2>9. n # 0 => batch[n] \in ElementsOf(batch)
    BY <2>3, <2>4 DEF ElementsOf
  <2>10. /\ rrd'[f] = rrd[f] \/ rrd'[f] \in ElementsOf(batch)
         /\ \A g \in Files \ {f} : rrd'[g] = rrd[g]
    BY <1>0, <2>2, <2>4, <2>9
  <2>11. ASSUME NEW g \in Files, NEW v \in ElementsOf(values'[g]) PROVE rrd'[g] < v
    BY <2>1, <2>5, <2>10 DEF WritesNew
  <2>12. Rising(<<>>)
    BY DEF Rising
  <2>13. WritesNew'
    BY <1>1, <2>1, <2>11, <2>12, ElementsSmall DEF WritesNew
  <2>14. owed'[f] = owed[f] \ ElementsOf(batch) /\ \A g \in Files \ {f} : owed'[g] = owed[g]
    BY <1>0, <2>4, <2>8
  <2>15. ASSUME Up', NEW g \in Files, NEW s \in owed'[g]
         PROVE  s \in ElementsOf(values'[g])
    <3>1. s \in owed[g] /\ Up /\ (g = f => s \notin ElementsOf(batch))
      BY <1>1, <2>14, <2>15 DEF Up, Alive
    <3> QED BY <2>1, <2>6, <3>1 DEF AllHeld
  <2> QED BY <1>1, <2>13, <2>15 DEF AllHeld
<1>4. CASE QueueJournal(q)
  <2>1. /\ UNCHANGED <<rrd, owed, values>>
        /\ \A p \in QueueThreads : /\ job'[p].file = job[p].file /\ job'[p].batch = job[p].batch
                                   /\ job'[p].raced = job[p].raced
    <3>1. UNCHANGED <<rrd, owed, values>>
      BY <1>4 DEF QueueJournal, cacheVars
    <3> QED BY <1>0, <1>4, <3>1 DEF QueueJournal
  <2>2. WritesNew'
    BY <1>0, <2>1, WritesStay
  <2>3. (Up' <=> Up) /\ \A g, s : InJobs(g, s)' <=> InJobs(g, s)
    BY <1>1, <2>1 DEF Up, Alive, InJobs
  <2> QED BY <1>1, <2>1, <2>2, <2>3 DEF AllHeld
<1> QED BY <1>2, <1>3, <1>4 DEF QueueMoves

(* The other steps.                                                        *)
LEMMA OtherWrites ==
    ASSUME MaxStarts = 0, IInv, EndSound, WritesNew, AllHeld, OtherMoves
    PROVE  WritesNew' /\ AllHeld'
<1>0. TypeOK /\ CacheInv /\ starts = 0
  BY DEF IInv, TypeOK, CacheInv
<1>1. ~Restart
  BY <1>0 DEF Restart
<1>2. ~ReplayEntry
  BY DEF ReplayEntry, AllHeld
<1>3. CASE Cleanup \/ Dies
  <2>1. /\ rrd' = rrd /\ values' = [f \in Files |-> <<>>] /\ mpc' \in {"exit", "crashed"}
        /\ job' = job \/ \A q \in QueueThreads : job'[q] = NoJob
    BY <1>3 DEF Cleanup, Dies, Die, CacheGone, diskVars
  <2>2. WritesNew'
    BY <1>0, <2>1, ElementsSmall, WritesStay
  <2> QED BY <2>1, <2>2 DEF AllHeld, Up, Alive
<1>4. CASE RotateClose \/ FlushExit \/ ReplayDone \/ \E t \in Signals : Signal(t)
  <2>1. /\ UNCHANGED <<rrd, owed, job, rlog>>
        /\ mpc' = mpc \/ (mpc = "replay" /\ mpc' = "loop")
    BY <1>4 DEF RotateClose, FlushExit, ReplayDone, Signal, diskVars, replayVars
  <2>2. UNCHANGED values \/ \E b \in BOOLEAN : FlushOldValues(EverythingAge, b)
    BY <1>4 DEF RotateClose, FlushExit, ReplayDone, Signal, cacheVars
  <2>3. \A f \in Files : values'[f] = values[f]
    BY <1>0, <2>2, EverythingAgeType, FlushOldQuiet
  <2>4. WritesNew'
    BY <1>0, <2>1, <2>3, WritesStay
  <2>5. ASSUME Up', NEW f \in Files, NEW s \in owed'[f]
        PROVE  s \in ElementsOf(values'[f]) \/ InJobs(f, s)'
    <3>1. Up
      BY <2>1, <2>5 DEF AllHeld, Up, Alive
    <3>2. InJobs(f, s) => InJobs(f, s)'
      BY <2>1 DEF InJobs
    <3> QED BY <2>1, <2>3, <3>1, <3>2 DEF AllHeld
  <2>6. mpc' = "replay" => rlog' = <<>> /\ \A f \in Files : owed'[f] = {}
    BY <2>1 DEF AllHeld
  <2> QED BY <2>4, <2>5, <2>6 DEF AllHeld
<1> QED BY <1>1, <1>2, <1>3, <1>4 DEF OtherMoves

(* A quiet step.                                                           *)
LEMMA QuietWrites ==
    ASSUME IInv, EndSound, WritesNew, AllHeld, Quiet
    PROVE  WritesNew' /\ AllHeld'
<1>1. /\ UNCHANGED <<rrd, owed, rlog>> /\ \A f \in Files : values'[f] = values[f]
      /\ \A q \in QueueThreads : job'[q] = job[q] \/ (job'[q] = NoJob /\ qpc[q] # "update")
      /\ mpc' = mpc \/ {mpc, mpc'} \cap {"replay", "exit", "crashed"} = {}
  BY DEF Quiet
<1>2. WritesNew'
  BY <1>1, WritesStay DEF IInv
<1>3. \A f, s : InJobs(f, s) => InJobs(f, s)'
  BY <1>1, JobsStay
<1>4. Up' <=> Up
  BY <1>1 DEF Up, Alive
<1> QED BY <1>1, <1>2, <1>3, <1>4 DEF AllHeld

(* While it runs, a daemon with one update thread (-t 1) loses no value it *)
(* has accepted, if rrd_update_r fails only where the stamps call for it,  *)
(* clients send the stamps of a file in order, and nothing was there to be *)
(* replayed: every value is in the cache or being written until it is in   *)
(* the file, unless FORGET has dropped it.                                 *)
THEOREM DaemonNothingLost ==
    ASSUME ~StaleClients, ~CanFail, MaxStarts = 0, \A p, q \in QueueThreads : p = q
    PROVE  Spec => []NothingLost
<1> DEFINE Inv == IInv /\ EndSound /\ KnownFiles /\ ClientSound /\ WritesNew /\ AllHeld
<1>1. Init => Inv
  <2>1. Init => WritesNew
    <3> SUFFICES ASSUME Init PROVE WritesNew
      OBVIOUS
    <3>1. \A f \in Files : values[f] = <<>>
      BY DEF Init, CacheInit
    <3>2. \A q \in QueueThreads : ~job[q].raced /\ job[q].batch = <<>>
      BY DEF Init, NoJob
    <3>3. Rising(<<>>)
      BY DEF Rising
    <3> QED BY <3>1, <3>2, <3>3, ElementsSmall DEF WritesNew
  <2>2. Init => AllHeld
    BY DEF Init, AllHeld
  <2> QED BY <2>1, <2>2, InitInv, InitEnd, InitKnown, InitClient
<1>2. Inv /\ [Next]_vars => Inv'
  <2> SUFFICES ASSUME Inv, [Next]_vars PROVE Inv'
    OBVIOUS
  <2>1. IInv' /\ EndSound' /\ KnownFiles' /\ ClientSound'
    BY NextInv, NextEnd, NextKnown, NextClient
  <2>2. WritesNew' /\ AllHeld'
    BY NextQuiet, QuietWrites, ConnWrites, QueueWrites, OtherWrites
  <2> QED BY <2>1, <2>2
<1>3. Inv => NothingLost
  <2> SUFFICES ASSUME Inv, Up, NEW f \in Files, NEW s \in owed[f]
               PROVE  s \in ElementsOf(values[f]) \cup InFlight(f)
    BY DEF NothingLost
  <2>1. s \in ElementsOf(values[f]) \/ InJobs(f, s)
    BY DEF AllHeld
  <2>2. ASSUME NEW q \in QueueThreads, job[q].file = f, s \in ElementsOf(job[q].batch)
        PROVE  s \in InFlight(f)
    <3>1. qpc[q] = "update"
      BY <2>2, ElementsSmall DEF EndSound
    <3> QED BY <2>2, <3>1 DEF InFlight
  <2> QED BY <2>1, <2>2 DEF InJobs
<1> HIDE DEF Inv
<1> QED BY <1>1, <1>2, <1>3, PTL DEF Spec


=============================================================================
