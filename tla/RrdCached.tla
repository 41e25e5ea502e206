----------------------------- MODULE RrdCached ------------------------------
(***************************************************************************)
(* The caching daemon rrdcached (rrd_daemon.c): connection threads that    *)
(* handle UPDATE, FLUSH, FLUSHALL and FORGET, update ("queue") threads     *)
(* that write the queued files, the flush thread that looks for old values *)
(* and rotates the journal, the main thread that accepts connections and   *)
(* shuts the daemon down, the signal handlers, and what a crash leaves for *)
(* the journal replay of the next start.                                   *)
(*                                                                         *)
(* A step is what a thread does between two points where another thread    *)
(* can observe or disturb it: it takes a lock, waits on a condition        *)
(* variable, or calls into the file system.  cache_lock is a variable,     *)
(* because three threads keep it over several steps; journal_lock is kept  *)
(* over several steps by the flush thread in the middle of a rotation      *)
(* only.                                                                   *)
(***************************************************************************)
EXTENDS RrdCache, RrdJournal

CONSTANTS
    Conns,          \* connection slots, reused when a connection is closed
    QueueThreads,   \* the update threads (-t)
    RrdFiles,       \* the files that exist and can be read and written, for good
    ConfigFlush,    \* config_flush_at_shutdown after read_options (-F)
    Commands,       \* the commands clients send
    UpdateArgs,     \* the value lists clients send with UPDATE
    StaleClients,   \* whether a client may send a stamp it sent before
    Clock,          \* whether time passes
    Signals,        \* the signals that are sent
    MaxSignals, MaxCrashes, MaxStarts, MaxJournalled,   \* bounds
    LoseBuffered,   \* whether a crash loses what stdio has buffered
    CanFail         \* whether rrd_update_r may fail for other reasons

ASSUME DaemonAssumption ==
    /\ RrdFiles \subseteq Files
    /\ ConfigFlush \in BOOLEAN
    /\ JournalDir \/ ConfigFlush    \* read_options: no journal, so flush
    /\ UpdateArgs \subseteq Seq(Stamps)
    /\ Commands \subseteq {"update", "flush", "flushall", "forget"}
    /\ Signals \subseteq {"INT", "USR1", "USR2"}    \* TERM is handled as INT
    /\ MaxSignals \in Nat /\ MaxCrashes \in Nat
    /\ MaxStarts \in Nat /\ MaxJournalled \in Nat
    /\ Conns \cap {"none", "flush", "leaked"} = {}
    /\ IsFiniteSet(QueueThreads)
    /\ \A b \in {StaleClients, Clock, LoseBuffered, CanFail} : b \in BOOLEAN

VARIABLES
    state,          \* RUNNING, FLUSHING or SHUTDOWN
    flushAtShutdown,\* config_flush_at_shutdown
    cacheLock,      \* who holds cache_lock
    qpc, job,       \* the update threads and the batch each one writes
    fpc, timer,     \* the flush thread and the time until its next_flush
    cpc, arg,       \* the connection threads and the request each handles
    mpc,            \* the main thread
    rlog, had,      \* replay: the entries left, and had_journal
    rrd,            \* external: the time of the last update in each RRD file
    owed,           \* history: accepted values that are not in the file yet
    excused,        \* history: the values the journal does not cover
    newest,         \* the newest stamp a client has sent for each file
    signals, crashes, starts, journalled     \* counters for the bounds

threadVars == <<qpc, job, fpc, timer, cpc, arg, mpc>>
replayVars == <<rlog, had>>
diskVars == <<rrd, owed, excused>>
countVars == <<signals, crashes, starts, journalled>>
vars == <<state, flushAtShutdown, cacheLock, threadVars, replayVars, diskVars,
          newest, countVars, cacheVars, journalVars>>

AnyFile == CHOOSE f \in Files : TRUE

\* The request of a connection: jtest is the result of the test of
\* journal_fh that journal_write makes without the lock; due is history: the
\* values FLUSH is meant to write.
NoArg == [file |-> AnyFile, vals |-> <<>>, jtest |-> FALSE, due |-> {}]
NoJob == [file |-> AnyFile, batch |-> <<>>, jtest |-> FALSE, raced |-> FALSE]

QueuePCs == {"off", "loop", "wait", "woken", "update", "journal", "broadcast", "done"}
FlushPCs == {"off", "loop", "prewait", "wait", "rotate", "rotate_open",
             "rotate_remove", "relock", "done"}
ConnPCs == {"none", "start", "loop", "read", "update", "stat", "insert", "apply",
            "flush", "wait", "woken", "flushed", "flushall", "forget", "forgotten"}
MainPCs == {"replay", "loop", "accept", "drain", "join_flush", "join_queue",
            "exit", "crashed"}

TypeOK ==
    /\ CacheTypeOK /\ JournalTypeOK
    /\ state \in {"RUNNING", "FLUSHING", "SHUTDOWN"}
    /\ flushAtShutdown \in BOOLEAN
    /\ cacheLock \in Conns \cup {"none", "flush", "leaked"}
    /\ qpc \in [QueueThreads -> QueuePCs]
    /\ job \in [QueueThreads -> [file : Files, batch : Seq(Stamps),
                                 jtest : BOOLEAN, raced : BOOLEAN]]
    /\ fpc \in FlushPCs /\ timer \in 0 .. FlushInterval
    /\ cpc \in [Conns -> ConnPCs]
    /\ arg \in [Conns -> [file : Files, vals : Seq(Stamps),
                          jtest : BOOLEAN, due : SUBSET Stamps]]
    /\ mpc \in MainPCs
    /\ rlog \in Seq(Entries) /\ had \in BOOLEAN
    /\ rrd \in [Files -> Stamps \cup {0}]
    /\ owed \in [Files -> SUBSET Stamps] /\ excused \in [Files -> SUBSET Stamps]
    /\ newest \in [Files -> Stamps \cup {0}]
    /\ signals \in 0 .. MaxSignals /\ crashes \in 0 .. MaxCrashes
    /\ starts \in 0 .. MaxStarts /\ journalled \in 0 .. MaxJournalled

\* The first start of the daemon, with no journal file in the directory.
Init ==
    /\ CacheInit /\ JournalInit
    /\ state = "RUNNING" /\ flushAtShutdown = ConfigFlush /\ cacheLock = "none"
    /\ qpc = [q \in QueueThreads |-> "off"] /\ job = [q \in QueueThreads |-> NoJob]
    /\ fpc = "off" /\ timer = FlushInterval
    /\ cpc = [c \in Conns |-> "none"] /\ arg = [c \in Conns |-> NoArg]
    /\ mpc = "replay" /\ rlog = <<>> /\ had = FALSE
    /\ rrd = [f \in Files |-> 0]
    /\ owed = [f \in Files |-> {}] /\ excused = [f \in Files |-> {}]
    /\ newest = [f \in Files |-> 0]
    /\ signals = 0 /\ crashes = 0 /\ starts = 0 /\ journalled = 0

-----------------------------------------------------------------------------
(* Locks and condition variables                                           *)

\* A slip to guard against: cache_lock is not taken.
LockIgnored == TRUE

LockFree == cacheLock = "none"
JournalLockFree == fpc # "rotate_open"

ElementsOf(s) == {s[i] : i \in DOMAIN s}

\* The waiting update threads.
Waiting == {q \in QueueThreads : qpc[q] = "wait"}

\* A slip to guard against: an update thread is not told of a queued file.
WakeNobody(n) == UNCHANGED qpc

\* n calls of pthread_cond_signal(&queue_cond) wake n waiting threads, or all.
WakeQueue(n) ==
    \E W \in SUBSET Waiting :
        /\ IF n < Cardinality(Waiting) THEN Cardinality(W) = n ELSE W = Waiting
        /\ qpc' = [q \in QueueThreads |-> IF q \in W THEN "woken" ELSE qpc[q]]

\* A slip to guard against: ci->flushed is destroyed under its waiters.
FlushedUnheard(R) == cpc

\* pthread_cond_broadcast(&ci->flushed) for the files of R.
Flushed(R) == [c \in Conns |-> IF cpc[c] = "wait" /\ arg[c].file \in R
                               THEN "woken" ELSE cpc[c]]

\* How many files a step adds to the queue.
Added == Cardinality({f \in Files : InQueue(queue', f) /\ ~InQueue(queue, f)})

\* journal_write failing to roll over makes the daemon flush at shutdown.
JournalWrite(e) ==
    \E failed \in BOOLEAN :
        /\ Write(e, failed)
        /\ flushAtShutdown' = (flushAtShutdown \/ failed)

\* config_flush_at_shutdown is set after the flush thread has ended: nothing
\* is flushed any more, and yet cleanup will remove the journal.
SetTooLate == fpc = "done" /\ ~flushAtShutdown /\ flushAtShutdown'

\* excused becomes e, and what is owed is added if the flag is set too late.
ExcusedIs(e) == excused' = [f \in Files |-> e[f] \cup (IF SetTooLate THEN owed[f] ELSE {})]

-----------------------------------------------------------------------------
(* Connections: listen_thread_main and connection_thread_main              *)

\* poll(2) reports a client, and state is checked once more.
ListenPoll ==
    /\ mpc = "loop" /\ state = "RUNNING"
    /\ \E c \in Conns : cpc[c] = "none"
    /\ mpc' = "accept"
    /\ UNCHANGED <<state, flushAtShutdown, cacheLock, qpc, job, fpc, timer, cpc, arg,
                   replayVars, diskVars, newest, countVars, cacheVars, journalVars>>

ListenAccept ==
    /\ mpc = "accept"
    /\ \E c \in Conns : cpc[c] = "none" /\ cpc' = [cpc EXCEPT ![c] = "start"]
    /\ mpc' = "loop"
    /\ UNCHANGED <<state, flushAtShutdown, cacheLock, qpc, job, fpc, timer, arg,
                   replayVars, diskVars, newest, countVars, cacheVars, journalVars>>

\* A step of connection c that changes nothing but its program counter.
Goes(c, from, to) ==
    /\ cpc[c] = from
    /\ cpc' = [cpc EXCEPT ![c] = to]
    /\ UNCHANGED <<state, flushAtShutdown, cacheLock, qpc, job, fpc, timer, mpc, arg,
                   replayVars, diskVars, newest, countVars, cacheVars, journalVars>>

\* The reply is sent and the next command can be read.
Answers(c, from) ==
    /\ cpc[c] = from
    /\ cpc' = [cpc EXCEPT ![c] = "read"]
    /\ arg' = [arg EXCEPT ![c] = NoArg]
    /\ UNCHANGED <<state, flushAtShutdown, cacheLock, qpc, job, fpc, timer, mpc,
                   replayVars, diskVars, newest, countVars, cacheVars, journalVars>>

\* The thread counts itself in connection_threads_num, whatever state is.
ConnStart(c) == Goes(c, "start", "loop")

\* poll(2) reports a request, and state is checked once more.
ConnPoll(c) == state = "RUNNING" /\ Goes(c, "loop", "read")

\* The commands that were read are handled; state is not looked at in between.
ConnAgain(c) == Goes(c, "read", "loop")

\* The daemon shuts down, the client hangs up or QUITs, or an answer cannot be
\* sent: the connection is closed and counted off.
ConnClose(c) ==
    \/ Goes(c, "loop", "none")
    \/ Goes(c, "read", "none")

\* The connections that connection_threads_num counts.
Counted == {c \in Conns : cpc[c] \notin {"none", "start"}}

\* What a client may send.  Unless clients are careless, a file is fed by one
\* client at a time, and no request goes back behind an earlier one.
MaySend(f, vals) ==
    \/ StaleClients
    \/ /\ \A i \in DOMAIN vals : vals[i] > newest[f]
       /\ \A c \in Conns : arg[c].file = f => arg[c].vals = <<>>

\* handle_request reads a command and calls its handler.
Request(c, command, f, vals) ==
    /\ cpc[c] = "read"
    /\ command \in Commands
    /\ command \in {"update", "forget"} /\ JournalDir => journalled < MaxJournalled
    /\ journalled' = IF command \in {"update", "forget"} /\ JournalDir
                     THEN journalled + 1 ELSE journalled
    /\ cpc' = [cpc EXCEPT ![c] = command]
    /\ arg' = [arg EXCEPT ![c] = [NoArg EXCEPT !.file = f, !.vals = vals]]
    /\ UNCHANGED <<state, flushAtShutdown, cacheLock, qpc, job, fpc, timer, mpc,
                   replayVars, diskVars, signals, crashes, starts,
                   cacheVars, journalVars>>

Command(c) ==
    \E f \in Files :
        \/ \E vals \in UpdateArgs :
              /\ MaySend(f, vals)
              /\ Request(c, "update", f, vals)
              /\ \E m \in {newest[f]} \cup ElementsOf(vals) :
                    /\ \A s \in {newest[f]} \cup ElementsOf(vals) : m >= s
                    /\ newest' = [newest EXCEPT ![f] =
                          IF StaleClients \/ f \notin RrdFiles THEN @ ELSE m]
        \/ Request(c, "flush", f, <<>>) /\ UNCHANGED newest
        \/ Request(c, "forget", f, <<>>) /\ UNCHANGED newest
        \/ f = AnyFile /\ Request(c, "flushall", f, <<>>) /\ UNCHANGED newest

-----------------------------------------------------------------------------
(* handle_request_update                                                   *)

\* The item is looked up; a missing one is set up without the lock.
UpdateLookup(c) ==
    LET f == arg[c].file IN
    /\ cpc[c] = "update" /\ LockFree
    /\ IF f \in tree
       THEN /\ cacheLock' = c
            /\ cpc' = [cpc EXCEPT ![c] = "apply"]
            /\ arg' = [arg EXCEPT ![c].jtest = jopen]
       ELSE /\ cpc' = [cpc EXCEPT ![c] = "stat"]
            /\ UNCHANGED <<cacheLock, arg>>
    /\ UNCHANGED <<state, flushAtShutdown, qpc, job, fpc, timer, mpc,
                   replayVars, diskVars, newest, countVars, cacheVars, journalVars>>

\* stat(2) and access(2): a request for a missing file is refused.
UpdateStat(c) ==
    \/ arg[c].file \in RrdFiles /\ Goes(c, "stat", "insert")
    \/ arg[c].file \notin RrdFiles /\ Answers(c, "stat")

\* Another request may have added the item in the meantime.
InsertItem(f, lag) == IF f \in tree THEN UNCHANGED cacheVars ELSE AddItem(f, lag)

\* The item is inserted.  When the flush thread has ended in the meantime, the
\* handler returns without unlocking cache_lock, and the connection is closed.
UpdateInsert(c) ==
    LET f == arg[c].file IN
    /\ cpc[c] = "insert" /\ LockFree
    /\ \E lag \in 0 .. MaxLag : InsertItem(f, lag)
    /\ IF state = "SHUTDOWN"
       THEN /\ cacheLock' = "leaked"
            /\ cpc' = [cpc EXCEPT ![c] = "none"]
            /\ arg' = [arg EXCEPT ![c] = NoArg]
       ELSE /\ cacheLock' = c
            /\ cpc' = [cpc EXCEPT ![c] = "apply"]
            /\ arg' = [arg EXCEPT ![c].jtest = jopen]
    /\ UNCHANGED <<state, flushAtShutdown, qpc, job, fpc, timer, mpc,
                   replayVars, diskVars, newest, countVars, journalVars>>

\* The request is journalled, its values are appended and an old item is
\* enqueued.  Values accepted while journal_fh was NULL are not covered, nor
\* those accepted after the flush thread has queued everything.
UpdateApply(c) ==
    LET f    == arg[c].file
        vals == arg[c].vals
    IN
    /\ cpc[c] = "apply"
    /\ IF arg[c].jtest
       THEN JournalLockFree /\ jopen /\ JournalWrite(UpdateEntry(f, vals))
       ELSE UNCHANGED <<journalVars, flushAtShutdown>>
    /\ \E n \in Taken(lastStamp[f], vals), lag \in 0 .. MaxLag :
          /\ AppendValues(f, vals, n, lag)
          /\ owed' = [owed EXCEPT ![f] = @ \cup ElementsOf(SubSeq(vals, 1, n))]
          /\ ExcusedIs([excused EXCEPT ![f] =
                IF arg[c].jtest /\ (fpc = "done" => ~flushAtShutdown') THEN @
                ELSE @ \cup ElementsOf(SubSeq(vals, 1, n))])
    /\ WakeQueue(Added)
    /\ cacheLock' = "none"
    /\ cpc' = [cpc EXCEPT ![c] = "read"]
    /\ arg' = [arg EXCEPT ![c] = NoArg]
    /\ UNCHANGED <<state, job, fpc, timer, mpc, replayVars, rrd, newest, countVars>>

-----------------------------------------------------------------------------
(* handle_request_flush and flush_file                                     *)

\* The file goes to the head of the queue and the thread waits for
\* ci->flushed, once.
FlushFile(c) ==
    LET f == arg[c].file IN
    /\ cpc[c] = "flush" /\ LockFree
    /\ arg' = [arg EXCEPT ![c].due = owed[f]]
    /\ IF f \in tree /\ values[f] # <<>>
       THEN /\ PutAtHead(f)
            /\ IF queue # <<>> /\ queue[1] = f THEN UNCHANGED qpc ELSE WakeQueue(1)
            /\ cpc' = [cpc EXCEPT ![c] = "wait"]
       ELSE /\ cpc' = [cpc EXCEPT ![c] = "flushed"]
            /\ UNCHANGED <<cacheVars, qpc>>
    /\ UNCHANGED <<state, flushAtShutdown, cacheLock, job, fpc, timer, mpc,
                   replayVars, diskVars, newest, countVars, journalVars>>

\* pthread_cond_wait returns once it has the lock again.
FlushReturn(c) == LockFree /\ Goes(c, "woken", "flushed")

\* The client is told that the file is flushed.
FlushAnswer(c) == Answers(c, "flushed")

-----------------------------------------------------------------------------
(* handle_request_flushall and handle_request_forget                       *)

\* The purge of flush_old_values broadcasts ci->flushed like FORGET does.
FlushAll(c) ==
    /\ cpc[c] = "flushall" /\ LockFree
    /\ FlushOldValues(EverythingAge, state = "RUNNING")
    /\ WakeQueue(Added)
    /\ cpc' = [Flushed(tree \ tree') EXCEPT ![c] = "read"]
    /\ UNCHANGED <<state, flushAtShutdown, cacheLock, job, fpc, timer, mpc, arg,
                   replayVars, diskVars, newest, countVars, journalVars>>

\* The item is removed, and with it the values nobody has taken yet.
ForgetRemove(c) ==
    LET f == arg[c].file IN
    /\ cpc[c] = "forget" /\ LockFree
    /\ IF f \in tree
       THEN /\ ForgetItem(f)
            /\ owed' = [owed EXCEPT ![f] = @ \ ElementsOf(values[f])]
            /\ excused' = [excused EXCEPT ![f] = @ \ ElementsOf(values[f])]
            /\ cpc' = [Flushed({f}) EXCEPT ![c] = "forgotten"]
            /\ arg' = [arg EXCEPT ![c].jtest = jopen]
       ELSE /\ cpc' = [cpc EXCEPT ![c] = "read"]
            /\ arg' = [arg EXCEPT ![c] = NoArg]
            /\ UNCHANGED <<cacheVars, owed, excused>>
    /\ UNCHANGED <<state, flushAtShutdown, cacheLock, qpc, job, fpc, timer, mpc,
                   replayVars, rrd, newest, countVars, journalVars>>

\* The journal entry is written after cache_lock has been released: a replay
\* will also drop what has been accepted for the file in between.
ForgetJournal(c) ==
    LET f == arg[c].file IN
    /\ cpc[c] = "forgotten"
    /\ IF arg[c].jtest
       THEN /\ JournalLockFree /\ jopen /\ JournalWrite(ForgetEntry(f))
            /\ ExcusedIs([excused EXCEPT ![f] = @ \cup owed[f]])
       ELSE UNCHANGED <<journalVars, flushAtShutdown, excused>>
    /\ cpc' = [cpc EXCEPT ![c] = "read"]
    /\ arg' = [arg EXCEPT ![c] = NoArg]
    /\ UNCHANGED <<state, cacheLock, qpc, job, fpc, timer, mpc, replayVars,
                   rrd, owed, newest, countVars, cacheVars>>

-----------------------------------------------------------------------------
(* queue_thread_main                                                       *)

\* The values of the head of the queue become the batch of thread q.  Nothing
\* keeps two threads from writing the same file: an overlap is recorded.
Dequeue(q) ==
    LET f    == Head(queue)
        Same == {p \in QueueThreads \ {q} : qpc[p] = "update" /\ job[p].file = f}
    IN
    /\ queue # <<>>
    /\ TakeValues(f)
    /\ job' = [p \in QueueThreads |->
                 IF p = q THEN [file |-> f, batch |-> values[f],
                                jtest |-> FALSE, raced |-> Same # {}]
                 ELSE IF p \in Same THEN [job[p] EXCEPT !.raced = TRUE]
                 ELSE job[p]]
    /\ qpc' = [qpc EXCEPT ![q] = "update"]

\* The loop condition.
QueueContinues == state # "SHUTDOWN" \/ (queue # <<>> /\ flushAtShutdown)

QueueLoop(q) ==
    /\ qpc[q] = "loop" /\ LockFree
    /\ \/ /\ ~QueueContinues
          /\ qpc' = [qpc EXCEPT ![q] = "done"]
          /\ UNCHANGED <<job, cacheVars>>
       \/ /\ QueueContinues /\ queue = <<>>
          /\ qpc' = [qpc EXCEPT ![q] = "wait"]
          /\ UNCHANGED <<job, cacheVars>>
       \/ /\ QueueContinues
          /\ Dequeue(q)
    /\ UNCHANGED <<state, flushAtShutdown, cacheLock, fpc, timer, cpc, arg, mpc,
                   replayVars, diskVars, newest, countVars, journalVars>>

\* After pthread_cond_wait the loop condition is not looked at again before a
\* file is taken.
QueueWoken(q) ==
    /\ qpc[q] = "woken" /\ LockFree
    /\ \/ /\ queue = <<>>
          /\ qpc' = [qpc EXCEPT ![q] = "loop"]
          /\ UNCHANGED <<job, cacheVars>>
       \/ Dequeue(q)
    /\ UNCHANGED <<state, flushAtShutdown, cacheLock, fpc, timer, cpc, arg, mpc,
                   replayVars, diskVars, newest, countVars, journalVars>>

\* External: rrd_update_r stops at the first value that is not newer than the
\* file; it may fail earlier, and so may one that races with another writer.
Written(q) ==
    LET all == Taken(rrd[job[q].file], job[q].batch)
    IN  IF CanFail \/ job[q].raced THEN {n \in 0 .. Len(job[q].batch) :
                                           \E k \in all : n <= k}
        ELSE all

QueueUpdate(q) ==
    LET f     == job[q].file
        batch == job[q].batch
    IN
    /\ qpc[q] = "update"
    /\ \E n \in Written(q) :
          /\ rrd' = [rrd EXCEPT ![f] = IF n = 0 THEN @ ELSE batch[n]]
          /\ owed' = [owed EXCEPT ![f] = @ \ ElementsOf(SubSeq(batch, 1, n))]
          /\ excused' = [excused EXCEPT ![f] =
                (@ \ ElementsOf(SubSeq(batch, 1, n)))
                \cup (ElementsOf(SubSeq(batch, n + 1, Len(batch))) \cap owed[f])]
    /\ qpc' = [qpc EXCEPT ![q] = "journal"]
    /\ job' = [job EXCEPT ![q].batch = <<>>, ![q].raced = FALSE, ![q].jtest = jopen]
    /\ UNCHANGED <<state, flushAtShutdown, cacheLock, fpc, timer, cpc, arg, mpc,
                   replayVars, newest, countVars, cacheVars, journalVars>>

\* "wrote" is journalled without cache_lock, and whatever rrd_update_r said: a
\* replay will drop all that has been accepted for the file until now.
QueueJournal(q) ==
    LET f == job[q].file IN
    /\ qpc[q] = "journal"
    /\ IF job[q].jtest
       THEN /\ JournalLockFree /\ jopen /\ JournalWrite(WroteEntry(f))
            /\ ExcusedIs([excused EXCEPT ![f] = @ \cup owed[f]])
       ELSE UNCHANGED <<journalVars, flushAtShutdown, excused>>
    /\ qpc' = [qpc EXCEPT ![q] = "broadcast"]
    /\ job' = [job EXCEPT ![q].jtest = FALSE]
    /\ UNCHANGED <<state, cacheLock, fpc, timer, cpc, arg, mpc, replayVars,
                   rrd, owed, newest, countVars, cacheVars>>

\* A slip to guard against: nobody is told that the file has been written.
NobodyWoken(f) == cpc

\* The item is looked up again, since it may have been forgotten.
WokenBy(f) == IF f \in tree THEN Flushed({f}) ELSE cpc

QueueBroadcast(q) ==
    /\ qpc[q] = "broadcast" /\ LockFree
    /\ cpc' = WokenBy(job[q].file)
    /\ qpc' = [qpc EXCEPT ![q] = "loop"]
    /\ job' = [job EXCEPT ![q] = NoJob]
    /\ UNCHANGED <<state, flushAtShutdown, cacheLock, fpc, timer, arg, mpc,
                   replayVars, diskVars, newest, countVars, cacheVars, journalVars>>

-----------------------------------------------------------------------------
(* flush_thread_main                                                       *)

\* Old values are queued when next_flush has come; cache_lock is released for
\* the rotation of the journal.
FlushOld ==
    /\ fpc = "loop" /\ LockFree /\ state = "RUNNING" /\ timer = 0
    /\ FlushOldValues(WriteInterval, TRUE)
    /\ WakeQueue(Added)
    /\ cpc' = Flushed(tree \ tree')
    /\ timer' = FlushInterval
    /\ fpc' = IF JournalDir THEN "rotate" ELSE "relock"
    /\ UNCHANGED <<state, flushAtShutdown, cacheLock, job, arg, mpc,
                   replayVars, diskVars, newest, countVars, journalVars>>

\* A step that changes the flush thread and cache_lock only.
FlushGoes(from, to, lock) ==
    /\ fpc = from
    /\ fpc' = to
    /\ cacheLock' = lock
    /\ UNCHANGED <<state, flushAtShutdown, qpc, job, timer, cpc, arg, mpc,
                   replayVars, diskVars, newest, countVars, cacheVars, journalVars>>

\* A signal that arrives between the check of state and the wait is lost.
FlushPrepare ==
    /\ state = "RUNNING" /\ timer > 0 /\ LockFree
    /\ FlushGoes("loop", "prewait", "flush")

FlushWait == FlushGoes("prewait", "wait", "none")

\* pthread_cond_timedwait returns with ETIMEDOUT.
FlushTimeout == timer = 0 /\ FlushGoes("wait", "loop", cacheLock)

\* After a rotation the thread waits without looking at state.
FlushRelock == LockFree /\ FlushGoes("relock", "prewait", "flush")

\* The stamps a journal mentions for a file.
Mentioned(log, f) ==
    UNION {ElementsOf(log[i].vals) : i \in {j \in DOMAIN log : log[j].file = f}}

\* journal_rotate closes the file and shifts the sets.  The set that is to be
\* unlinked may hold values that have not been written.
RotateClose ==
    /\ fpc = "rotate"
    /\ fpc' = "rotate_open"
    /\ Rotate
    /\ excused' = [f \in Files |-> excused[f] \cup (owed[f] \cap Mentioned(jold, f))]
    /\ UNCHANGED <<state, flushAtShutdown, cacheLock, qpc, job, timer, cpc, arg, mpc,
                   replayVars, rrd, owed, newest, countVars, cacheVars>>

\* journal_rotate opens the next file; journal_fh was NULL until then.
RotateOpen ==
    /\ fpc = "rotate_open"
    /\ fpc' = "rotate_remove"
    /\ \E failed \in BOOLEAN :
          NewFile(jcur, failed) /\ flushAtShutdown' = (flushAtShutdown \/ failed)
    /\ UNCHANGED <<state, cacheLock, qpc, job, timer, cpc, arg, mpc,
                   replayVars, diskVars, newest, countVars, cacheVars>>

\* The oldest set is unlinked, whether or not its values have been written.
RotateRemove ==
    /\ fpc = "rotate_remove"
    /\ fpc' = "relock"
    /\ RemoveDead
    /\ UNCHANGED <<state, flushAtShutdown, cacheLock, qpc, job, timer, cpc, arg, mpc,
                   replayVars, diskVars, newest, countVars, cacheVars>>

\* The thread ends: everything is queued if that was asked for.
FlushExit ==
    /\ fpc = "loop" /\ LockFree /\ state # "RUNNING"
    /\ IF flushAtShutdown
       THEN /\ FlushOldValues(EverythingAge, FALSE)
            /\ WakeQueue(Added)
            /\ cpc' = Flushed(tree \ tree')
       ELSE UNCHANGED <<cacheVars, qpc, cpc>>
    /\ state' = "SHUTDOWN"
    /\ fpc' = "done"
    /\ UNCHANGED <<flushAtShutdown, cacheLock, job, timer, arg, mpc,
                   replayVars, diskVars, newest, countVars, journalVars>>

-----------------------------------------------------------------------------
(* Signals and shutdown: sig_common, listen_thread_main and cleanup        *)

Alive == mpc \notin {"exit", "crashed"}

\* What a broadcast of flush_cond does.
FlushWoken == IF fpc = "wait" THEN "loop" ELSE fpc

\* A slip to guard against: the update threads sleep on at shutdown.
AllAsleep == qpc

\* What a broadcast of queue_cond does.
AllWoken == [q \in QueueThreads |-> IF qpc[q] = "wait" THEN "woken" ELSE qpc[q]]

\* The handler takes no lock; it sets state even if it is SHUTDOWN already.
Signal(s) ==
    /\ s \in Signals /\ Alive /\ signals < MaxSignals
    /\ signals' = signals + 1
    /\ state' = "FLUSHING"
    /\ flushAtShutdown' = CASE s = "USR1" -> TRUE
                             [] s = "USR2" -> FALSE
                             [] OTHER      -> flushAtShutdown
    /\ ExcusedIs(excused)
    /\ fpc' = FlushWoken
    /\ qpc' = AllWoken
    /\ UNCHANGED <<cacheLock, job, timer, cpc, arg, mpc, replayVars, rrd, owed, newest,
                   crashes, starts, journalled, cacheVars, journalVars>>

\* A step of the main thread that changes only what it broadcasts to.
MainGoes(from, to, flush, updaters) ==
    /\ mpc = from
    /\ mpc' = to
    /\ fpc' = flush
    /\ qpc' = updaters
    /\ UNCHANGED <<state, flushAtShutdown, cacheLock, job, timer, cpc, arg,
                   replayVars, diskVars, newest, countVars, cacheVars, journalVars>>

ListenStop == state # "RUNNING" /\ MainGoes("loop", "drain", fpc, qpc)

\* A slip to guard against: cleanup begins while requests are being handled.
DrainedUnchecked == TRUE

\* connection_threads_num <= 0
Drained == Counted = {}

Drain == Drained /\ MainGoes("drain", "join_flush", FlushWoken, qpc)

JoinFlush == fpc = "done" /\ MainGoes("join_flush", "join_queue", fpc, AllWoken)

QueueThreadsDone == \A q \in QueueThreads : qpc[q] = "done"

\* The tree is destroyed and the journal closed; without cache_lock cleanup
\* does not get that far.
Cleanup ==
    /\ mpc = "join_queue" /\ QueueThreadsDone
    /\ flushAtShutdown => queue = <<>>
    /\ LockFree
    /\ mpc' = "exit"
    /\ CacheGone
    /\ IF JournalDir THEN Done(flushAtShutdown) ELSE UNCHANGED journalVars
    /\ UNCHANGED <<state, flushAtShutdown, cacheLock, qpc, job, fpc, timer, cpc, arg,
                   replayVars, diskVars, newest, countVars>>

-----------------------------------------------------------------------------
(* Crashes and restarts                                                    *)

\* The process ends; kept entries of the open journal are on the disk.
Die(kept) ==
    /\ mpc' = "crashed"
    /\ Lose(kept)
    /\ excused' = [f \in Files |-> excused[f] \cup
          (owed[f] \cap Mentioned(SubSeq(jcur, kept + 1, Len(jcur)), f))]
    /\ CacheGone
    /\ state' = "RUNNING" /\ flushAtShutdown' = ConfigFlush /\ cacheLock' = "none"
    /\ qpc' = [q \in QueueThreads |-> "off"] /\ job' = [q \in QueueThreads |-> NoJob]
    /\ fpc' = "off" /\ timer' = FlushInterval
    /\ cpc' = [c \in Conns |-> "none"] /\ arg' = [c \in Conns |-> NoArg]
    /\ rlog' = <<>> /\ had' = FALSE
    /\ UNCHANGED <<rrd, owed, newest, signals, starts, journalled>>

Crash ==
    /\ Alive /\ crashes < MaxCrashes
    /\ crashes' = crashes + 1
    /\ IF LoseBuffered THEN \E kept \in jsafe .. Len(jcur) : Die(kept)
       ELSE Die(Len(jcur))

\* fprintf is called with journal_fh = NULL: the file was there when
\* journal_write looked without the lock, and no new one could be created.
NullWrite ==
    /\ JournalLockFree /\ ~jopen
    /\ \/ \E c \in Conns : cpc[c] \in {"apply", "forgotten"} /\ arg[c].jtest
       \/ \E q \in QueueThreads : qpc[q] = "journal" /\ job[q].jtest
    /\ \E kept \in jsafe .. Len(jcur) : Die(kept)
    /\ UNCHANGED crashes

\* The assertion of cleanup fails: a file was queued after the update threads
\* had found the queue empty.
AssertFails ==
    /\ mpc = "join_queue" /\ QueueThreadsDone
    /\ flushAtShutdown /\ queue # <<>>
    /\ \E kept \in jsafe .. Len(jcur) : Die(kept)
    /\ UNCHANGED crashes

\* The next process: every journal file in the directory is to be replayed.
Restart ==
    /\ ~Alive /\ starts < MaxStarts
    /\ starts' = starts + 1
    /\ mpc' = "replay"
    /\ Reopen
    /\ rlog' = Found /\ had' = FALSE
    /\ state' = "RUNNING" /\ flushAtShutdown' = ConfigFlush /\ cacheLock' = "none"
    /\ qpc' = [q \in QueueThreads |-> "off"] /\ job' = [q \in QueueThreads |-> NoJob]
    /\ fpc' = "off" /\ timer' = FlushInterval
    /\ cpc' = [c \in Conns |-> "none"] /\ arg' = [c \in Conns |-> NoArg]
    /\ UNCHANGED <<diskVars, newest, signals, crashes, journalled, cacheVars>>

\* handle_request_wrote
DropWrote(f) == IF f \in tree THEN TakeValues(f) ELSE UNCHANGED cacheVars

\* One entry goes through its handler, which journals nothing during replay.
ReplayEntry ==
    LET e == Head(rlog)
        f == e.file
    IN
    /\ mpc = "replay" /\ rlog # <<>>
    /\ rlog' = Tail(rlog)
    /\ \/ /\ e.op = "update" /\ f \in tree
          /\ \E n \in Taken(lastStamp[f], e.vals), lag \in 0 .. MaxLag :
                /\ AppendValues(f, e.vals, n, lag)
                /\ had' = (had \/ (n > 0 /\ n = Len(e.vals)))
       \/ /\ e.op = "update" /\ f \notin tree
          /\ \E n \in Taken(0, e.vals) :
                /\ AddItemWith(f, e.vals, n)
                /\ had' = (had \/ (n > 0 /\ n = Len(e.vals)))
       \/ e.op = "wrote" /\ DropWrote(f) /\ had' = TRUE
       \/ /\ e.op = "forget"
          /\ IF f \in tree THEN ForgetItem(f) /\ had' = TRUE
             ELSE UNCHANGED <<cacheVars, had>>
    /\ UNCHANGED <<state, flushAtShutdown, cacheLock, threadVars, diskVars, newest,
                   countVars, journalVars>>

\* journal_init opens a new file and starts a flush if it was asked for; then
\* main starts the threads.
ReplayDone ==
    /\ mpc = "replay" /\ rlog = <<>>
    /\ mpc' = "loop"
    /\ fpc' = "loop" /\ timer' = FlushInterval
    /\ qpc' = [q \in QueueThreads |-> "loop"]
    /\ IF JournalDir
       THEN \E failed \in BOOLEAN :
              NewFile(jcur, failed) /\ flushAtShutdown' = (flushAtShutdown \/ failed)
       ELSE UNCHANGED <<journalVars, flushAtShutdown>>
    /\ IF JournalDir /\ had /\ flushAtShutdown'
       THEN FlushOldValues(EverythingAge, state = "RUNNING")
       ELSE UNCHANGED cacheVars
    /\ UNCHANGED <<state, cacheLock, job, cpc, arg, replayVars, diskVars, newest,
                   countVars>>

-----------------------------------------------------------------------------
(* Time                                                                    *)

\* The flush thread is scheduled in the second in which next_flush comes.
Tick ==
    /\ Clock /\ Alive
    /\ timer > 0 \/ fpc \in {"off", "done"} \/ state # "RUNNING"
    /\ timer' = IF timer > 0 THEN timer - 1 ELSE 0
    /\ CacheTick(fpc \notin {"off", "done"} /\ state = "RUNNING")
    /\ UNCHANGED <<state, flushAtShutdown, cacheLock, qpc, job, fpc, cpc, arg, mpc,
                   replayVars, diskVars, newest, countVars, journalVars>>

-----------------------------------------------------------------------------

ConnStep(c) ==
    \/ ConnStart(c) \/ ConnPoll(c) \/ ConnAgain(c) \/ ConnClose(c) \/ Command(c)
    \/ UpdateLookup(c) \/ UpdateStat(c) \/ UpdateInsert(c) \/ UpdateApply(c)
    \/ FlushFile(c) \/ FlushReturn(c) \/ FlushAnswer(c)
    \/ FlushAll(c) \/ ForgetRemove(c) \/ ForgetJournal(c)

QueueStep(q) ==
    \/ QueueLoop(q) \/ QueueWoken(q)
    \/ QueueUpdate(q) \/ QueueJournal(q) \/ QueueBroadcast(q)

FlushStep ==
    \/ FlushOld \/ FlushPrepare \/ FlushWait \/ FlushTimeout \/ FlushRelock
    \/ RotateClose \/ RotateOpen \/ RotateRemove \/ FlushExit

MainStep ==
    \/ ListenPoll \/ ListenAccept \/ ListenStop \/ Drain \/ JoinFlush \/ Cleanup
    \/ ReplayEntry \/ ReplayDone \/ AssertFails

Next ==
    \/ \E c \in Conns : ConnStep(c)
    \/ \E q \in QueueThreads : QueueStep(q)
    \/ FlushStep \/ MainStep \/ Tick
    \/ \E s \in Signals : Signal(s)
    \/ Crash \/ NullWrite \/ Restart

Spec == Init /\ [][Next]_vars

(***************************************************************************)
(* Threads are scheduled, and one that asks for a mutex again and again    *)
(* while it is free gets it.  A client need not send anything; the buffer  *)
(* a connection reads commands from is finite.                             *)
(***************************************************************************)
ConnProgress(c) ==
    \/ ConnStart(c) \/ (state # "RUNNING" /\ ConnClose(c))
    \/ UpdateLookup(c) \/ UpdateStat(c) \/ UpdateInsert(c) \/ UpdateApply(c)
    \/ FlushFile(c) \/ FlushReturn(c) \/ FlushAnswer(c)
    \/ FlushAll(c) \/ ForgetRemove(c) \/ ForgetJournal(c)

Fairness ==
    /\ \A c \in Conns : SF_vars(ConnProgress(c)) /\ SF_vars(ConnAgain(c))
    /\ \A q \in QueueThreads : SF_vars(QueueStep(q))
    /\ SF_vars(FlushStep)
    /\ WF_vars(MainStep)
    /\ WF_vars(Tick)

FairSpec == Spec /\ Fairness

-----------------------------------------------------------------------------
(* Properties                                                              *)

Up == Alive /\ mpc # "replay"

\* The values an update thread has taken out of the cache for f.
InFlight(f) ==
    UNION {ElementsOf(job[q].batch) :
              q \in {p \in QueueThreads : qpc[p] = "update" /\ job[p].file = f}}

\* An accepted value is in the cache or in the hands of an update thread until
\* rrd_update_r has written it, unless FORGET dropped it: no thread loses it
\* on the way (handle_request_update, queue_thread_main, flush_old_values).
NothingLost ==
    Up => \A f \in Files : owed[f] \subseteq ElementsOf(values[f]) \cup InFlight(f)

\* A thread that waits for ci->flushed has not missed its wakeup: its file is queued
\* or is being written (flush_file waits without a timeout and without a predicate).
WaiterCovered ==
    \A c \in Conns : cpc[c] = "wait" =>
        \/ InQueue(queue, arg[c].file)
        \/ \E q \in QueueThreads : /\ qpc[q] \in {"update", "journal", "broadcast"}
                                  /\ job[q].file = arg[c].file

\* The item a FLUSH waits for stays in the tree until the update thread looks
\* it up again to broadcast ci->flushed.
WaitedItemStays ==
    \A c \in Conns : cpc[c] = "wait" => arg[c].file \in tree

\* No request is being handled once cleanup has begun to take the daemon
\* apart, although connection threads count themselves in late.
NoRequestDuringCleanup ==
    mpc \in {"join_flush", "join_queue", "exit"} =>
        \A c \in Conns : cpc[c] \in {"none", "start", "loop"}

\* Only a thread that can release cache_lock holds it, or an UPDATE that met
\* the end of the flush thread has leaked it.
LockSound ==
    /\ \A c \in Conns : cacheLock = c <=> cpc[c] = "apply"
    /\ cacheLock = "flush" <=> fpc = "prewait"
    /\ cacheLock = "leaked" => fpc = "done"

\* rrdcached.pod on FLUSH: the command returns only after the pending updates
\* of the file have been written.
FlushMeansWritten ==
    \A c \in Conns : cpc[c] = "flushed" => arg[c].due \cap owed[arg[c].file] = {}

\* What a replay of the journal would bring back for f.
Replayable(log, f) ==
    UNION {ElementsOf(log[i].vals) : i \in
        {j \in DOMAIN log : /\ log[j].file = f
                            /\ \A k \in j .. Len(log) :
                                 log[k].file = f => log[k].op = "update"}}

\* While the daemon runs, when it has ended and while it replays, an accepted
\* value can be brought back from the journal, unless the journal failed to
\* cover it for one of the reasons recorded in excused: a "wrote" or "forget"
\* that was journalled after it, a rotation that removed it or that was under
\* way when it came, a lost stdio buffer, or a batch rrd_update_r refused.
Recoverable ==
    \A f \in Files :
        LET safe == owed[f] \ excused[f] IN
        /\ mpc # "replay" => safe \subseteq Replayable(Found, f)
        /\ mpc = "replay" =>
              safe \subseteq Replayable(<<UpdateEntry(f, values[f])>> \o rlog, f)
        /\ Up => safe \subseteq ElementsOf(values[f]) \cup InFlight(f)

\* A FLUSH is answered.
FlushAnswered ==
    \A c \in Conns : cpc[c] = "wait" ~> (cpc[c] # "wait" \/ state # "RUNNING")

\* A queued file is written.
QueueDrains ==
    \A f \in Files : InQueue(queue, f) ~> (~InQueue(queue, f) \/ state # "RUNNING")

\* What keeps a daemon that has been told to stop from exiting.
Stuck ==
    \/ cacheLock = "leaked"
    \/ \E c \in Conns : cpc[c] = "wait"
    \/ signals > 1

\* A signal makes the daemon exit, except for the known ways to get stuck: a
\* leaked cache_lock, a FLUSH nobody answers, and a second signal.
SignalEndsDaemon == (state # "RUNNING") ~> (~Alive \/ Stuck)
=============================================================================
