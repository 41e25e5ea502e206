# A TLA+ verification of RRDtool

RRDtool keeps time series in round-robin database (RRD) files.  This project
models the parts of it that carry the data: `rrdcached`, the caching daemon
(`src/src/rrd_daemon.c`), in which concurrency, failure and time meet, with its
protocol, its clients and its start-up; and the life of an RRD file, which is
created, updated, tuned, resized, dumped, restored and read, by one process or by
several (`rrd_create.c`, `rrd_update.c`, `rrd_hw*.c`, `rrd_open.c`, `rrd_tune.c`,
`rrd_resize.c`, `rrd_dump.c`, `rrd_restore.c`, `rrd_fetch.c`, `rrd_rpncalc.c`,
`rrd_tool.c`).  The rest of the library is inventoried below.

## Inventory

| Component | State it keeps | Operations | What is hard | What makes it correct |
|---|---|---|---|---|
| Update queue (`rrd_daemon.c`) | doubly linked list through the cache items, head, tail, flag, counter | `enqueue_cache_item` (HEAD, TAIL), `remove_from_queue` | removal from the middle, moving to the head | the links, the flags and the counter describe one duplicate-free sequence |
| Cache tree (`rrd_daemon.c`) | per file: values, `last_flush_time`, `last_update_stamp` | UPDATE, FLUSH, FLUSHALL, FORGET, purge | lock released in the middle of UPDATE, ageing, jitter | no accepted value is lost; none waits too long; stamps move forward |
| Journal (`rrd_daemon.c`) | current and old set of files, open stream | write, roll over, rotate, done, replay | unlocked test of the stream, order of "wrote", crash at any point | what was accepted and not written can be replayed |
| Threads and shutdown (`rrd_daemon.c`) | `state`, `config_flush_at_shutdown`, `connection_threads_num`, mutexes, condition variables | update, flush, connection and main thread; signals; `cleanup` | lost wakeups, waiting without a predicate, late connections | FLUSH is answered, the queue drains, a signal ends the daemon, cleanup meets no request |
| Protocol (`rrd_daemon.c`) | read and write buffers, BATCH state, permissions | `next_cmd`, `handle_request`, `send_response` | pipelining, pieces of commands, a full buffer, BATCH | one answer per request, in order; a BATCH names its failures |
| Start-up (`rrd_daemon.c`) | default socket, options, PID file, sockets | `read_options`, `daemonize`, `check_pidfile`, `cleanup` | order of options, death at any point, reused process ids | sockets have the permissions asked for, the PID file leads to the running daemon |
| Client library (`rrd_client.c`) | one connection, its address and their lock | connect, test, update, flush, stats | threads that share the connection, a test without the lock, a daemon that goes away | an answer belongs to its request, every call returns |
| Update engine (`rrd_update.c`) | PDP and CDP scratch areas, row pointers | `rrd_update_r` | steps that span several PDPs, heartbeat, partial failure | preparation areas and rows are what the history of rates gives |
| Holt-Winters (`rrd_hw*.c`) | coefficients, seasonal rows, failure window | updates of the five archives, smoothing, reset | archives that read each other's state, skips, cyclic rows | the order of the archives is irrelevant, the window is the last violations |
| File access (`rrd_open.c`) | the file, mapped or copied; the lock | open, lock, write, close | lock after read, kill between two writes, readers without a lock | archives agree with `last_up`, time moves forward |
| Create, tune (`rrd_create.c`, `rrd_tune.c`), resize | header | parsing of DS and RRA definitions, contingent archives, tuning, GROW, SHRINK | references by index, parameters that share their place | references resolve, old rows stay where they belong |
| Fetch (`rrd_fetch.c`) | none | `rrd_fetch_fn` | choice of the archive, wrap-around of the row window | the rows returned are those of the interval |
| Dump, restore, info, first, last | none; a document | `rrd_dump_cb_r`, `rrd_restore` | rotation of rows, optional tags, numbers as text | a restored file means what the dumped one meant, also later |
| RPN calculator (`rrd_rpncalc.c`) | a stack | parse, compact, print, calculate | stack discipline, constants cut down | a program's value is that of its expression |
| Command line tool (`rrd_tool.c`) | static options | remote mode, argument splitting, dispatch | what outlives a line, counting against splitting | the arguments fit their vector |
| Time parser, xport, graph, CGI, bindings | none beyond a call | conversions and output | | |

How they interact: clients call the client library, which talks to the daemon's
connection threads over a socket.  These share the cache and the queue (under
`cache_lock`) with the update threads, the flush thread and `cleanup`, and the
journal (under `journal_lock`).  The update threads call `rrd_update_r`, which
works on the RRD file through `rrd_open`, like the command line tool and every
program that uses the library.

## Modules

| Module | Models | Role |
|---|---|---|
| `QueueOps` | queue operations on sequences | shared operators |
| `WriteQueue` | what the queue promises | abstract specification |
| `CacheQueue` | the linked list, pointer by pointer | component; refines `WriteQueue` |
| `QueueLemmas`, `CacheQueueProofs` | | lemmas and theorems |
| `RrdTypes` | files and values | shared constants |
| `RrdCache` | the cache tree with the queue as a sequence | state and operations of the cache |
| `RrdJournal` | the journal | state and operations of the journal |
| `RrdCached` | all threads, signals, shutdown, crash, restart and replay | composition of `RrdCache` and `RrdJournal` |
| `RrdCachedProofs` | | what the operations of the cache preserve; theorems about the daemon: queue, items, locks, time, waiting |
| `RrdRecoveryProofs` | | theorems about the daemon: what is kept, and can be replayed |
| `ExtRationals` | doubles as exact fractions, with infinities and DNAN | shared operators (external) |
| `RraRing` | the rows of one archive: next row, GROW, SHRINK | operators |
| `RoundRobin` | what the archives promise: the newest rows, in order | abstract specification |
| `RrdFile` | create, update and resize of a file | component; refines `RoundRobin` |
| `RrdFetch` | `rrd_fetch_fn` | pure algorithm over the state of `RrdFile` |
| `RrdFileProofs` | | lemmas on rows, refinement theorem |
| `RrdProto` | one connection of the daemon: buffers, commands, BATCH, answers | state and operations of the protocol |
| `RrdClient` | the client library's shared connection, a script that pipelines, the words of a request | composition with `RrdProto` |
| `RrdClientProofs` | | theorems about the shared connection, the script and the words |
| `RrdStart` | options, PID file and sockets of daemons started one after the other, and other programs with their process ids | component |
| `RrdStartProofs` | | theorems about start-up |
| `RrdAccess` | processes that update and read one file, in three builds | component |
| `RrdAccessProofs` | | lemmas on remainders and on rows shown, theorems about shared files |
| `RrdAberrant` | the five Holt-Winters archives | component, with a reference that knows no archives |
| `RrdSmooth` | when a season is counted and smoothed, and the moving average | operators shared by `RrdAberrant` and `RrdTool` |
| `RrdHeader` | what `rrd_create` makes of its arguments, and `rrd_tune` | operators |
| `RrdRpn` | programs of COMPUTE data sources | operators |
| `RrdXml` | dump, restore, info, first, last, lastupdate | operators |
| `RrdTool` | rrdtool in remote mode | composition of `RrdHeader`, `RrdRpn`, `RrdSmooth` and `RrdXml` |
| `RrdArgs` | `CountArgs`, `CreateArgs` | pure algorithms |
| `MCCacheQueue`, `MCRrdCached`, `MCRrdFile`, `MCRrdClient`, `MCRrdStart`, `MCRrdAccess`, `MCRrdAberrant`, `MCTool` | | instances for TLC |

`RrdCached` uses the queue as a sequence with the operators of `QueueOps`;
`CacheQueue` shows (by TLC and by proof) that the linked list behaves like that
sequence.

### How state corresponds to the code

- `tree`, `values`, `lastStamp`, `queue`: `cache_tree`, `ci->values`,
  `ci->last_update_stamp`, the list from `cache_queue_head`.  A value is
  represented by its time stamp, which is all the code looks at.
- `age[f]`: now minus `ci->last_flush_time`.  Time is relative, so that it needs
  no bound: ages are cut off at `AgeCap`, beyond which no comparison of the code
  differs.  `timer` is the time until the flush thread's `next_flush`.
- `waited[f]` (history): for how many seconds a value of f has been in the cache
  without being queued.
- `cacheLock`: the holder of `cache_lock` between two steps.  Most critical
  sections are one step; an UPDATE between lookup and journal entry, the flush
  thread between its test of `state` and its wait, and the UPDATE that leaks the
  lock are not.  `journal_lock` is held over several steps only while the flush
  thread is in the middle of a rotation (`fpc = "rotate_open"`).
- `qpc`, `fpc`, `cpc`, `mpc`: where each thread is.  A step is what a thread
  does between two points at which another thread can observe or disturb it.
  `jtest` keeps the result of the test of `journal_fh` that `journal_write`
  makes before it takes the lock.
- `jdead`, `jold`, `jcur`: the entries in the journal files that are about to be
  unlinked, in `journal_old` and in `journal_cur`; `jsafe` says how many of the
  last are in closed files, so that a crash cannot lose them.
- `rrd[f]` (external): the last update time in the file.  `rrd_update_r` is
  modelled from how `queue_thread_main` uses it: it writes values up to the first
  one that does not move forward, and may fail earlier (`CanFail`, or when two
  threads write the file at the same time: the record lock does not exclude
  threads of one process).
- `owed[f]` (history): accepted values that are not in the file yet.
- `excused[f]` (history): values for which the journal is known to have a gap.
  Every gap is recorded by the action in which it opens: a "wrote" or "forget"
  journalled after the value, an entry skipped because `journal_fh` was NULL, the
  set a rotation is about to unlink, a lost stdio buffer, a batch
  `rrd_update_r` refused, a value accepted after everything was queued for a
  flushing shutdown, and `config_flush_at_shutdown` set after the flush thread
  has ended.  `Recoverable` says that there is no other.

Bounds: `MaxSignals`, `MaxCrashes`, `MaxStarts`, `MaxJournalled` (journalled
requests), `MaxJournalFailures`, `JournalMax` (entries in a journal file before
it is rolled over), `MaxLag` (how far the `now` of a request may lie behind the
clock, through scheduling or BATCH).

`RrdFile` (one data file):

- `last_up`, `pdp_prep`, `cdp_prep`, `cur_row`, `row_cnt`, `rows`: the live head,
  the preparation areas, row pointers, row counts and rows of the file.  Since
  the file is mapped, they are changed in place.
- `todo`, `begun`, `now`: `rra_step_cnt`, whether the first row of an archive has
  been written (CDP_primary_val) or the next is a fill-in (CDP_secondary_val),
  and the time of the update in progress.  One argument of an update is one step
  (`ArgFails`, `ArgWithinStep`, `ArgCompletesPdps`) and then one `WriteRow` per
  row; `last_up` moves with the last of them.  An argument whose time does not
  move forward, or that has the wrong number of readings, changes nothing.
- A reading is a number, U or text that cannot be converted; a number may be used
  in a COUNTER, whose difference wraps at `W32` and `W64` (16 and 64 in the runs
  for 2^32 and 2^64).
- `seconds`, `pdps`, `depth` (history): the rate of each data source in each
  second, as far as updates have told it, the primary data points computed from
  them, and how many rows back an archive must know the past after resizes.  The
  properties recompute preparation areas and rows from these.

Bounds: `MaxTime`, `MaxUpdates`, `MaxResizes`, `MaxResize` (rows added or
removed); `Inputs`, `Wishes`, `StartTimes` and `Random` are what updates may
say, what a fetch may ask for, when the file begins and what `rrd_random`
returns.

`RrdProto` and `RrdClient`:

- `conn[s]`: the connection to daemon `s`: what the client has sent (`in`), the
  read buffer (`rbuf`, of `RbufSize` units in place of RBUF_SIZE bytes), the batch
  in progress, the answers on their way (`out`), whether either end is open.  A
  command is as many units as `len` says; `read()` may cut the stream anywhere.
- What a handler does to the cache is `RrdCached`'s; here it succeeds with some
  lines, or fails, and a command that failed is in `failed` (history).
- `lock`, `sd`, `sd_path`: the mutex, whether the descriptor is set, and the address
  of the connection of `rrd_client.c`.  `rrdc_connect` sets the first when it has a
  socket (`Socket`) and the second at its end (`Connected`), both under the lock;
  `rrdc_is_connected` looks at the one (`Check`) and then compares the other
  (`Compare`) without it.  What that comparison does to a pointer that is null or was
  freed is undefined: the program ends (`Crash`, `pc` "gone") or gets either answer.
- `pc`, `call`: where each thread of the program is between the points at which it
  takes or releases the lock, looks at the connection or waits for the daemon;
  `error`: its error context.
- `line`: the words of a request, the text `buffer_add_string` makes of them,
  character by character, and the fields `buffer_get_field` finds in it.

`RrdStart`: `config` is what `read_options` has set so far (`default_socket`'s
permissions, the sockets, the status it will return); `path`, `inode`, `fd` are
the PID file by name, by content and as a process holds it open, because a
process may unlink a name that another has opened; `socket` and `port` say which
process answers.  The id of a process that has ended may go to another program
(`pc` "reused") or to the next daemon, as it does when a container is started again:
`check_pidfile` then finds its own id (`Stale`).  A process that cannot be signalled counts
as dead there; a daemon of another user is met earlier, because its PID file (mode
0644) cannot be opened for writing, which refuses the start before anything is read.

`RrdAccess`: `file` is what is on disk, `proc[p].head` the copy a process works
on where the build has one: `mmap` (none), `legacy` (a file of version 2, whose
`last_up` rrd_open copies), `copy` (without mmap, written back by
`write_changes_to_disk`).  A row holds the number of the step it is for.
`trace` (history) remembers whether a process was killed between two changes of
the header (`broken`), from which step on the rows are right again after that or
after a refused argument (`since`), whether a header read before the lock was used after another
process changed the file (`tainted`), and how many rows were written without a header
(`lost`).  A refused argument matters where the file is mapped: `update_pdp_prep` has by
then replaced the last readings of some data sources (`Refused`), and what the next
argument computes from them is for another interval (`Spoiled`).  A header that
changes while `rrd_open` reads it in pieces counts as not fresh, like one that
changes afterwards.  A lock of F_SETLK ends with its process.

`RrdAberrant`: `rrd` is the file (rows, row pointers, scratch areas), `ref` the
same series computed without archives: level, slope, season and deviation as
functions of time.  Values are exact fractions with alpha, beta and gamma 1/2.

`RrdTool`: `disk` and `xml` are the files, `opts` the static variables of
`rrd_restore.c` and `rrd_create.c`.  `twin[f]` (history) is what a restored file
should be like: the dumped file with its numbers as they were printed, to which
the same updates and options are applied.  Equality is that of `Meaning`: rows
newest first, definitions, preparation areas, but not the rotation of the rows.
The rotation matters to seasons, which are counted (`init_seasonal`) and smoothed when
the row pointer passes a given row: a restored file begins with row 0 and does both at
other times than the dumped one.  From the first such step on the two are different
series, and the comparison ends (`PartWays`).
Numbers keep `Digits` digits, in place of the ten of the dump.

## Runs

| Run | Instance | Shows |
|---|---|---|
| `cache_queue` | 4 items | the list is sound and implements `WriteQueue` |
| `daemon_safety` | 1 file, 3 stamps, 2 connections, 1 update thread, clock, 1 signal | nothing is lost, nothing waits too long, waiting FLUSHes are covered, cleanup is alone |
| `daemon_progress` | 1 file, 2 stamps, 1 connection, 1 update thread, failing writes, 1 signal | FLUSH is answered, the queue drains, a signal ends the daemon |
| `journal_crash` | 1 file, 2 journalled requests, 2 update threads, rotation, 1 crash and restart | every accepted value is recoverable or excused |
| `journal_shutdown` | 2 files (one missing), a failing journal file, 1 signal, restart | the same across shutdowns |
| `flush_written` | violation | FLUSH answers before the values are written |
| `protocol` | 2 daemons that may go away, and 2 threads with 3 calls of 3 kinds, with and without an address; scripts of up to 4 commands through a buffer of 3 units; 1 or 2 words of up to 2 characters | answers meet their requests, in order; a BATCH reports its failures; words survive; scripts are answered, and calls return unless the test of the connection ends the program |
| `startup` | command lines of up to 4 options; 3 processes that may be killed, whose ids are reused | permissions follow the order of the options; the PID file leads to the running daemon; a refusal has a reason |
| `update_rows` | 3 data sources (GAUGE, COUNTER, DERIVE), 5 archives of 1 to 3 PDPs per row, step 2, 3 updates within 9 seconds, 1 resize | preparation areas, rows and fetched values are what the history of rates gives; the archives implement `RoundRobin` |
| `shared_file` | 3 builds, 2 updaters with up to 2 arguments, 2 archives of 2 rows, a kill or a reader | archives agree with `last_up` but for what a kill, a refused argument or a stale header excuses; what a reader without a lock may see |
| `aberrant` | 5 archives in the orders the code gets right, 4 updates of 1 to 3 steps, tuning between them, smoothing | order is irrelevant; the coefficients of the next step are ready; the failure window |
| `tool` | 7 command lines over 2 files and 2 documents; lines of 6 characters; programs of 4 operators | a restored file goes on like the dumped one until a season is counted or smoothed; references resolve; lines fit; programs are trees |

The daemon's instances are small in the number of files because `cache_lock`
protects all of them alike and no operation but `flush_old_values` (whose order is
part of `CacheQueue`'s and `WriteQueue`'s generality) relates two files; they are
rich in threads, steps and faults, where the hazards are; the theorems hold for any
number of files.  Two values suffice for a
value in flight and one that arrives meanwhile; three allow a second round.
Write and flush intervals of two and one seconds make items old before, at and
after a round of the flush thread.  Runs in which a second writer exists do not
check `NothingLost`: two update threads can write a file out of order (see
Findings).  Deadlock is not checked: a daemon that has exited and may not be
restarted stops; so do the other models at their bounds.

In `update_rows` the file begins in the middle of a step and of the rows of the
longer archives (time 3, step 2), so that the first PDP and the first rows are
partly unknown; updates span zero to four steps, some longer than a heartbeat;
the archives have two or three rows, so that every one of them wraps; a resize
may come before, between and after the updates; one reading is refused after an
earlier data source of the same argument has been dealt with.  Three updates
suffice for a row that is begun, continued and completed by different updates.

In `protocol` four commands suffice for a BATCH with two commands in it and its
dot, or for one before and one after it; a buffer of three units holds one command and
a piece of the next, and one command is longer than the buffer.  Three calls of two threads suffice for one
that connects, one that tests and one that turns the connection to the other daemon or
finds it gone in between.  `rrd_update` is left out of the calls, because each of its
branches is one of a reader that flushes first or of `rrd_flushcached`; the theorems have
it.  In `startup` four
options allow two `-P` and two `-l` in any order.  `Overlap` is FALSE: daemons that
start at the same time can both miss each other, because the PID file is opened,
read and rewritten in separate steps.  In `shared_file` times go to three steps
over archives of two rows, so that rows wrap and one update can overwrite what
another has written.  In `aberrant` the season has two rows, so that the third
step meets the first row again; orders in which FAILURES lies between SEASONAL
and DEVSEASONAL are left out, because `update_failures` compares its index with
the wrong archive there, and the run does not go on after an update of exactly two
steps, which leave the wrong coefficient ready (see Findings).  In `tool` seven lines allow creation, update, dump, restore,
tuning and an update of both files.  Its lines leave out what the code is known not
to carry through: `--smoothing-window` on a file of version 3 (dump drops it),
PREV(ds) in a program (printed as nothing), a data source renamed to the name of
an operator, and `-h`, `-i` and `-a` on a COMPUTE data source (they overwrite its
program).

Fairness.  `FairSpec` of `RrdCached`: every thread is scheduled, and one that asks
for a mutex that is free again and again gets it (strong fairness of each thread's
next step); the commands in a connection's buffer are finitely many, so that the
thread returns to `poll` again and again (strong fairness of `ConnAgain`); the
clock advances.  Clients need not send anything.  `FlushAnswered` and
`QueueDrains` speak of a running daemon, `SignalEndsDaemon` excludes the states
in `Stuck`, which are defects.  `RrdClient`: the daemon's threads go on with
what has arrived and the program's threads with a call they have begun, connecting
and testing the connection included (weak fairness of each); a daemon may go away at any time, but need not; nobody need
begin a call.  Waiting for `lock` is part of a call's first step, so that a thread
is only assumed to go on when the lock is free; every call has a bound on the
number of steps, and the number of calls is bounded, so that weak fairness is
enough.

## Findings

Shown by a run:

- FLUSH answers while an update thread still has the values in hand
  (`flush_written`).

Met while modelling and excluded by name in the property or the instance that
would fail:

- With two update threads the newer batch of a file can reach it first; the older
  one is refused (`rrd_daemon.c:937`).  An entry is not journalled while the
  journal is being rotated (`:1975`), an update accepted after everything was
  queued is lost by a flushing shutdown (`:884`): the first kinds of `excused` in
  `Recoverable`.  An UPDATE that meets the end of the flush thread leaks
  `cache_lock` (`:1402`): `Stuck` in `SignalEndsDaemon`.
- A PDP is known although more than half its step is unknown, if the unknown time
  is at its end (`rrd_update.c:1347`): `PdpIsMean` speaks of known ones.
- `rrdc_is_connected` compares `sd_path` without the lock, while another thread has set
  `sd` and not yet `sd_path`, or frees it: the program can end (`rrd_client.c:359`):
  `Crash`, and "gone" in `CallsReturn`.
- `-P` without a command that exists leaves the default socket without permissions,
  which later counts as "none given"; `-j` or another `-P` overwrites its error status,
  and the sockets take every command (`rrd_daemon.c:3096`): hypothesis of
  `SocketsRestricted`.
- After an update of exactly two steps the seasonal coefficient kept for the next
  step is that of the one after it (`rrd_update.c:1871`): `ref.lost` in
  `OrderIrrelevant`.
- `restore --range-check` compares the rows of a COMPUTE data source with its
  program read as numbers (`rrd_restore.c:332`): hypothesis of `TwinsAgree`.
- A dump to a file that cannot be opened answers OK in remote mode
  (`rrd_dump.c:483`): `DumpFile` of `RrdTool`.
- A restored archive always begins at row 0, where a random row was meant
  (`rrd_restore.c:849`): `RestoredCur` of `RrdXml`.

Worth knowing, without a text that says otherwise: the static options of create
and restore stay in force for later lines of remote mode; a PID file left empty by
a crash, or one whose process id another program has got, keeps every later daemon from
starting (`RefusedForReason`); a refused argument leaves readings behind that the next
one takes for those of `last_up` (`ArchivesRight`); `rrd_lock`
comes after `rrd_open` has read the header, and create and tune take no lock
(`TimeForward` excludes what follows from the first in the builds with a copied
header); a season of 0 rows is divided by in `create_hw_contingent_rras`, which ends
the process (`DividesByZero`).

## Proofs

All theorems hold for every value of the constants that satisfies the named
assumptions: any set of files, connections and update threads, any intervals and
bounds.  (`NullAssumption`: the null pointer is no item.  `TypesAssumption`,
`CacheAssumption`, `JournalAssumption`, `DaemonAssumption`: files are numbered,
finitely many and at least one; stamps and intervals are positive; there is a
journal or the daemon flushes at shutdown, as `read_options` enforces; update
threads are finitely many; no connection is named like another holder of the
lock.  `StartAssumption`: process ids are positive.  `AccessAssumption`: a file has
at least one archive, and an archive at least one row, as `rrd_create` makes them.
`FileAssumption`: steps, row counts and PDPs per row are positive, and the share of
unknown PDPs a row tolerates is below 1, as `rrd_create` checks.  `FetchAssumption`:
no wish ends before it starts, as `rrd_fetch` checks.
`ClientAssumption`: the read buffer has room for a unit, there is a daemon, no thread or
daemon is called "none", a command has at least its end of line, and a word, being a C
string, holds no 0.)

**The queue** (`CacheQueueProofs`, with `QueueLemmas` on what appending,
prepending and removing do to a duplicate-free sequence).  `ListIsSound` proves
that the pointers, the flags and the counter of the linked list describe one
duplicate-free sequence.  "Following `next` from the head ends at the tail" is
not inductive as it stands, so the invariant is stated over the history variable
`order`: neighbours in `order` are linked to one another, its ends are head and
tail, exactly its members are flagged, and the counter is its length.
`ListImplementsQueue` proves the refinement: with `order` for the abstract queue,
every step of the list is a step of `WriteQueue`.

**The cache** (`RrdCachedProofs`, first part).  Every operation of the cache (lookup, append,
take, purge, forget, enqueue, age) keeps `CacheInv`, the conjunction of the
types, `QueueSound` and `ItemsSound`; `CacheStaysSound` collects them, so that
the daemon's proof has one line per action for the cache part.  `WaitsSound`
relates `waited[f]` to the age of the item and is treated in the same way.

**The daemon** (`RrdCachedProofs`, second part), in three layers.

1. `IInv` is `TypeOK`, `QueueSound`, `ItemsSound`, `ControlSound` and
   `LookupSound`.  The last two are what makes it inductive.  An UPDATE looks the
   item up in one step and appends in another, so its item must still be there:
   `LookupSound` says so of the thread that holds `cache_lock` in between.  That
   no one else touches the cache meanwhile is the lock discipline in
   `ControlSound`, together with what the threads may do in each state of the
   daemon: the flush thread has ended once `state` is SHUTDOWN, no request is
   handled during `cleanup`, and no other thread runs while the journal is
   replayed.  From it follow `DaemonTyped`,
   `DaemonQueueSound`, `DaemonItemsSound`, `DaemonLockSound` and
   `DaemonCleanupAlone`.
2. `WaitInv` adds `WaitsSound` and `TimerSound`.  `StalenessBounded` alone is not
   inductive because a clock tick increases `waited`; what a tick preserves is
   `waited[f]` plus the time left until the flush thread's next round, and for
   items that are not old enough yet, the difference between `waited[f]` and
   `age[f]`.  From it follows `DaemonStalenessBounded`.
3. `WaiterInv` is `WaitedItemStays` and `WaiterCovered`.  Every step that removes
   an item broadcasts its `flushed`, so that nobody goes on waiting for it; every
   step that takes a file off the queue is an update thread that keeps it in
   hand until its own broadcast, or removes the item.  From it follow `DaemonWaiterCovered` and
   `DaemonWaitedItemStays`.

**The file** (`RrdFileProofs`), for any number of data sources and archives, any
consolidation, any readings at any times, and any sequence of updates and resizes.
The inductive invariant `FileInv` has three parts.

1. `RingInv`: the row pointer lies in its archive, and the archive has all its rows.
   Read from the current row backwards (`NewestFirst`), an archive is a list; writing
   the next row pushes a row in front of it (`WriteIsPush`), GROW appends unknown rows
   (`GrowIsGrown`) and SHRINK cuts the end off, also when the rows to remove wrap
   around (`ShrinkIsShrunk`).  `FileKeepsNewestRows` follows: the archives implement
   `RoundRobin`.
2. `PrepInv`: the values are fractions in lowest terms, and each preparation area
   accounts for the seconds since the last full step.  Hence `PrepIsSound` and, from
   one step of an update, `PdpsAreMeans`.
3. `RowsInv` is what makes the contents of the rows inductive.  `RowsSound` speaks of the
   moments between updates; within one, `write_to_rras` writes the rows of an archive
   one by one, out of the scratch area that `update_cdp_prep` filled before.  So
   `ArchiveSound` says of each archive how many rows are still to be written, that the
   scratch area provides them (`Provides`: the first from what was already prepared,
   the others from the PDP of this update), that it prepares the row after
   them (`Prepares`), and that the list holds the rows before them as far back as the
   archive reaches (`Holds`).  `RowsAreSound` is the case with none left to write.

`FetchesAreSound` follows from `RowsAreSound` by the arithmetic of the window: start and end
are rounded to rows of the chosen archive, rows before its first and after its last are
unknown, and the others are read from a pointer that starts behind the current row and
wraps around.

Both the sums over sets of seconds and the fractions rest on recursion (`Total`, `Gcd`).
What they compute is proved by induction over sets of numbers: `NatSet` says that a set
with 0 and all successors of its members is `Nat`, which follows from the
well-foundedness of `<` and needs no operator as a parameter.  With it, first that the recursive
functions exist, then that a sum does not depend on the order of its terms and splits along a
partition, that consolidating one PDP after another is consolidating them
all, and that equal fractions in lowest terms are equal pairs.

**What is kept** (`RrdRecoveryProofs`).  `DaemonRecoverable` is the strongest
statement about the journal: through any interleaving of connections, update
threads, flush thread and signals, through crashes, restarts and replays, an
accepted value that is not in the file can be replayed from the journal unless
`excused` names the gap, and while the daemon is up it is also cached or being
written.  It is proved from `RecoveryInv`, which adds to `IInv`:

- `SafeKept`, the claim itself in the form that steps preserve: a value is
  replayable from the files that survive if the process ends now, from the rest
  of a replay in progress or the cache, and at a flushing shutdown it is queued
  or in a batch;
- `ReplaySound`: the updates a journal holds for a file come in the order of their
  stamps, and a replayed entry is newer than what the replay has already put in
  the cache; otherwise `handle_request_update` would refuse it in a replay
  although it had accepted it before;
- `ClientSound`: what a request carries is newer than everything the system holds
  for its file.  This is where the hypothesis `~StaleClients` enters (clients send
  the stamps of a file in order, as they must for `rrd_update` to take them at
  all); the runs assume it, too;
- `KnownFiles` (only files that exist are cached and journalled) and `EndSound`
  (what is left of a process that has ended).

`DaemonNothingLost` says the same of the cache alone, without excuses: a value is in
the cache or in a batch until it is in the file.  It has the hypotheses that the
run `daemon_safety` has: clients in order, no failing write, no restart (a replay may bring
back values that are in the file already, and `rrd_update_r` stops at them), and a
single update thread (two can write a file out of order, see Findings).
`WritesNew` makes it inductive: cached values are newer than those in the batch, and
those are newer than the file, so that `rrd_update_r` has nothing to refuse.

**Start-up** (`RrdStartProofs`).  `StartRefusedForReason` needs no hypothesis:
daemons may overlap.  It says what the code's own test means: the process that could be
signalled is another daemon or a program that has got the id of one, and never this
process itself.  Its proof needs that a process which asks has read an id from the file it
has open (`OpenSound`).  `StartDaemonFound` is proved for
daemons that do not start or stop at the same time (`~Overlap`; the run makes the
same assumption, because the claim is false otherwise): at most one process is
starting or stopping, no other runs once a start has got past `check_pidfile`, and
the PID file that process has open is the one under the name (`OneAtATime`,
`StartsSound`).
`StartSocketsRestricted` is proved by relating each accepted socket, the default one
included, to the place of its option in the command line and to the last `-P` before it,
for command lines whose `-P` all name a command that exists; without that hypothesis
the claim is false (see Findings).

**The shared connection** (`RrdClientProofs`).  `ClientAnswerIsMine` is about the
threads of a program that uses the library: `rrdc_connect` has released the lock before
the request takes it, and `rrdc_is_connected` reads `sd` and then `sd_path` without it, so
that another thread may have closed the connection or turned it to another daemon in
between.  The lock is held while a thread connects or waits for its answer
(`Holding`); a comparison that ends the program leaves all its threads where nothing is
claimed of them.  `LibraryInv` is inductive because it says what is on the wire:

- `Locked`: a connection that nobody waits on is silent in both directions (a request
  leaves nothing behind for the next thread to read), and while a thread holds the
  lock there is either its one request on the way, or its complete answer with as
  many lines as the status line says, or a daemon that has gone;
- `CallClean`, for "success means not refused": a request that is not sent yet has not
  been refused and is not in the buffers of any daemon, which could still refuse it, and
  the same holds of one that has succeeded;
- `Numbered`: no two calls share a request, so that sending one leaves the others clean.

`Handled` lists the answers of `handle_request` to what the library sends.

**Words and scripts** (`RrdClientProofs`).  Three theorems are about sequences of any
length: the words of a request, the commands of a script, the answers to them.
The library's induction rules cannot be used, but induction over a set of numbers can
(`NatSet`, from the least element of a set), and from it follow that a function
computed step by step exists (`Recursion`, `BackwardRecursion`), what the recursive
functions of the model compute, and where the pieces of a flattened text are
(`JoinedStarts`, `JoinedPiece`).  What is on a socket is always described in the same way: as
the part of a text made of pieces that lies behind the first k of them.

- `ClientWordsKept`: the line is the escaped words, and behind the k-th of them
  (`Taken`) `buffer_get_field` finds exactly the next one: the scan for the end stops
  at the first character that is neither escaped nor the second of a pair (`SkipIs`), and what
  it keeps is the word (`KeptIs`).
- `ClientAnswersInOrder` and `ClientBatchReported` share `ScriptInv`: the daemon has
  handled k commands; read buffer and socket together hold the stream behind the k-th
  command (`Incoming`), however `read()` has cut it; what was written to the socket is a
  sequence of complete answers, of which the script has read the first ones (`Answers`);
  these are the answers that the first k commands can expect (`Counted`), and those to
  the ends of batches list what failed (`Reported`); and an open connection is in a batch
  exactly if the script is, with the count of its commands right and its failures so far
  in the write buffer (`Going`).  A command is one lemma for each thing it can be: outside a
  batch (`GoodOutside`), in one (`GoodNoted`) and the dot (`GoodDot`).

**Shared files** (`RrdAccessProofs`), in four layers, each inductive given those
before it, for any number of processes, archives and rows, and for all three builds.

1. `AccessInv`: only the holder of the lock is at work (`Exclusive`); a header read
   by `rrd_open` is the one in the file as long as it counts as fresh
   (`OpenedSound`); how far the argument in work has got (`WorkSound`) and how the
   holder's header differs from the file's (`HeadSound`: ahead by exactly the rows it has
   written).  From it follows `AccessTimeForward`.
2. `RowsInv` says which rows are right at every moment of an update, from two points
   of view: that of the holder (`ViewSound`: everything up to the rows written so
   far) and, without mmap, that of the header still in the file (`FileSound`:
   everything but the oldest rows, which are being overwritten).  The file's view is
   what remains if the process is killed.  Both are instances of `Shown`, about which there is
   one lemma for each thing that happens to a ring of rows: the pointer moves
   (`ShownAdvance`), a row is written in front of it (`ShownWrite`) or over an old one
   (`ShownOver`).  Rows computed from readings that a refused argument or a killed process
   left behind are spoiled up to `since`, and what is right are the rows of later steps.
   `AccessArchivesRight` is the file's view when nobody holds the lock.
3. `PlaceInv`: as long as no kill has spoiled anything, a row holds a step that is
   congruent to its index, and so does the row pointer, seen from the file or from the
   holder.
4. `ReadInv`: what a reader has seen so far, and that nothing it depends on has changed
   while it is `quiet`.  `AccessFetchShift` follows from 3 and 4 by arithmetic on
   remainders (`ModAdd`, `ModEqual`).

Only model-checked:

- liveness (`FlushAnswered`, `QueueDrains`, `SignalEndsDaemon`, `CallsReturn`,
  `ScriptAnswered`): it needs fairness and ENABLED, which the prover does not handle;
- what the tool makes of a whole line or program (`LineFits`, `CalcIsTree`: RECURSIVE
  operators over the input, which the prover does not handle), and the archives and files
  that are compared with a reference built by folds (`OrderIrrelevant`,
  `FailureWindow`, `TwinsAgree`, `Linked`): they need induction over data
  with an operator as a parameter.

## Not modelled

- Time specification parser (`rrd_parsetime.c`): a recursive-descent parser whose
  values come from the C library's calendar.
- Graphing, xport, CGI and language bindings: layout, drawing, text substitution
  and glue, without state that outlives a call; floating point and pure output.
- Vendored and platform code.
- Of the daemon: spurious wakeups of condition variables (POSIX allows them; FLUSH
  without a predicate would be answered even earlier), failing memory allocation,
  the permission checks on journal files, a second signal (`Stuck`), fork and
  syslog.  `state` and `journal_fh` are read without a lock by several threads; the
  model reads the current value at each such point.
- Of the client library: parsing of STATS lines, host and port; several addresses of one
  host; failing memory allocation.
- Of the update engine: fractions of a second and templates; doubles are exact
  fractions, so that rounding is left out; an empty reading and the sign of zero
  are not distinguished.  What a refused argument leaves behind in `last_ds` is
  modelled (`ArgFails`), but no property of `RrdFile` relates rates to counter readings;
  `RrdAccess` says which rows it makes wrong.
- Of the tool: resize together with dump, restore and tune; the syntax of options
  and of XML; files shared with other processes (`RrdAccess` has these, with
  simpler data).

## Plan

1. Done: update queue, cache, journal and daemon with crash and shutdown, theorems
   about them; create, update, resize and fetch of a file, with the refinement of
   the archives proved; protocol and client library; start-up; shared files;
   Holt-Winters archives; header, programs, dump and restore under the tool.
2. Done: theorems on what the daemon keeps (`Recoverable`, `NothingLost`), on start-up,
   on shared files (`TimeForward`, `ArchivesRight`, `FetchShift`) and on the client library
   and protocol (`AnswerIsMine`, `AnswersInOrder`, `BatchReported`, `WordsKept`), on what the rows of a file contain and what a fetch returns
   (`PdpPrepSound`, `PdpIsMean`, `RowsSound`, `FetchSound`).
3. `rrd_parsetime`'s range checks and `reduce_data`, if a property beyond their
   definitions is found.
