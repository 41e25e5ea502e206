----------------------------- MODULE RrdAccess ------------------------------
(***************************************************************************)
(* Several processes on one RRD file: rrd_open, rrd_lock and rrd_close     *)
(* (rrd_open.c), the order in which _rrd_update changes the file, and the  *)
(* readers rrd_fetch_fn, rrd_first, rrd_last and rrd_lastupdate, which do  *)
(* not lock it.                                                            *)
(*                                                                         *)
(* The header is used where the build and the version of the file leave    *)
(* it: "mmap", in the file; "legacy" (mmap, version < 3), in the file but  *)
(* for last_up, which rrd_open copies; "copy" (no mmap), in a copy made by *)
(* rrd_open and written back at the end of an update.                      *)
(*                                                                         *)
(* Data: a time counts in half steps, every archive has one row per step.  *)
(* A row holds the number of the step its value is for, 0 if there is none *)
(* or if the value was computed from readings that do not fit together.    *)
(***************************************************************************)
EXTENDS Integers, FiniteSets

CONSTANTS Builds,    \* a subset of {"mmap", "legacy", "copy"}
          Procs,     \* processes that update the file
          Archives,  \* 1 .. number of archives
          RowCnt,    \* rows of an archive
          MaxTime,   \* times are 1 .. MaxTime
          MaxJump,   \* an argument is at most this much later than last_up
          MaxArgs,   \* arguments of an update
          Scenarios  \* sets of what may happen besides updates: "kill", "read"

\* rrd_create makes at least one archive, with at least one row.
ASSUME AccessAssumption ==
    /\ Builds \subseteq {"mmap", "legacy", "copy"}
    /\ "none" \notin Procs
    /\ RowCnt \in Nat \ {0} /\ MaxTime \in Nat /\ MaxJump \in Nat /\ MaxArgs \in Nat
    /\ Cardinality(Archives) \in Nat \ {0} /\ Archives = 1 .. Cardinality(Archives)

VARIABLES build,     \* how the header is reached
          file,      \* [last_up, prep, cur, rows]
          lock,      \* the process that holds the lock, or "none"
          proc,      \* updaters
          reader,    \* one reader
          events,    \* what of the scenario is still to come
          trace      \* what the properties need to know of the past
vars == <<build, file, lock, proc, reader, events, trace>>

Slot(t) == t \div 2
NoneWritten == [a \in Archives |-> 0]
NoHead == [last_up |-> 0, prep |-> [time |-> 0, sound |-> TRUE], cur |-> NoneWritten]
Idle == [pc |-> "idle", head |-> NoHead, fresh |-> TRUE, n |-> 0, t |-> 0,
         arch |-> 1, left |-> 0, steps |-> 0, sound |-> TRUE, wrote |-> NoneWritten]

Init ==
    /\ build \in Builds
    /\ file = [last_up |-> 0, prep |-> [time |-> 0, sound |-> TRUE],
               cur |-> [a \in Archives |-> 0],
               rows |-> [a \in Archives |-> [i \in 0 .. RowCnt - 1 |-> 0]]]
    /\ lock = "none" /\ events \in Scenarios
    /\ proc = [p \in Procs |-> Idle]
    /\ reader = [pc |-> "idle"]
    /\ trace = [broken |-> FALSE, tainted |-> FALSE, since |-> 0,
                lost |-> [a \in Archives |-> 0], newest |-> [a \in Archives |-> 0]]

-----------------------------------------------------------------------------
(* The header as a process sees and changes it                             *)

HeadOf(p) ==
    [last_up |-> IF build = "mmap" THEN file.last_up ELSE proc[p].head.last_up,
     prep    |-> IF build = "copy" THEN proc[p].head.prep ELSE file.prep,
     cur     |-> IF build = "copy" THEN proc[p].head.cur ELSE file.cur]

\* Process p goes on as q; the file becomes f, which the others have not read.
Step(p, q, f) ==
    /\ UNCHANGED build
    /\ file' = f
    /\ proc' = [r \in Procs |-> IF r = p THEN q
                                ELSE [proc[r] EXCEPT !.fresh = @ /\ (proc[r].pc = "opened" => f = file)]]
    /\ reader' = IF f = file \/ reader.pc = "idle" THEN reader
                 ELSE [reader EXCEPT !.quiet = FALSE]

\* A field of the header changes: in the copy of p or in the file.
SetHead(p, q, field, v) ==
    IF build = "copy"
    THEN Step(p, [q EXCEPT !.head[field] = v], file)
    ELSE Step(p, q, [file EXCEPT ![field] = v])

Unlock(p) == lock' = IF lock = p THEN "none" ELSE lock

-----------------------------------------------------------------------------
(* An update                                                               *)

\* rrd_open reads the header before the lock is asked for, without mmap by
\* several reads: one that another process changed in between, or later, does
\* not count as fresh.
Open(p) ==
    /\ proc[p].pc = "idle" /\ file.last_up < MaxTime
    /\ Step(p, [Idle EXCEPT !.pc = "opened",
                   !.head = IF build = "mmap" THEN NoHead
                            ELSE [last_up |-> file.last_up, prep |-> file.prep, cur |-> file.cur]], file)
    /\ UNCHANGED <<lock, events, trace>>

\* A slip to guard against: the result of the lock is ignored.
NeverBusy == FALSE

Busy == lock # "none"

\* rrd_lock: F_SETLK does not wait; "could not lock RRD".
Lock(p) ==
    /\ proc[p].pc = "opened"
    /\ IF Busy
       THEN /\ Step(p, [Idle EXCEPT !.pc = "close"], file) /\ UNCHANGED <<lock, trace>>
       ELSE /\ Step(p, [proc[p] EXCEPT !.pc = "ready", !.fresh = TRUE], file) /\ lock' = p
            /\ trace' = [trace EXCEPT !.tainted = @ \/ (build # "mmap" /\ ~proc[p].fresh)]
    /\ UNCHANGED events

\* get_time_from_reading
Accepts(p, t) == t > HeadOf(p).last_up

\* Steps that readings which do not fit last_up have spoiled: those up to t.
Spoiled(since, fits, t) == IF fits \/ since > Slot(t) THEN since ELSE Slot(t) + 1

\* process_arg up to the rows: the readings enter pdp_prep and cdp_prep. What
\* is computed is right if the last readings are those of last_up.
Arg(p, t) ==
    LET h == HeadOf(p)
        e == Slot(t) - Slot(h.last_up)
        fits == h.prep.time = h.last_up
    IN  /\ proc[p].pc = "ready" /\ proc[p].n < MaxArgs
        /\ t <= file.last_up + MaxJump /\ Accepts(p, t)
        /\ SetHead(p, [proc[p] EXCEPT !.pc = IF e = 0 THEN "stamp" ELSE "row",
                           !.n = @ + 1, !.t = t, !.arch = 1, !.left = e, !.steps = e,
                           !.sound = fits /\ h.prep.sound],
                   "prep", [time |-> t, sound |-> fits /\ (e = 0 => h.prep.sound)])
        /\ trace' = [trace EXCEPT !.since = Spoiled(@, fits, t)]
        /\ UNCHANGED <<lock, events>>

\* The last readings when an argument is refused: update_pdp_prep may have
\* replaced some (last_ds), in the file if it is mapped, before a later reading
\* or a COMPUTE program is refused.
Refused(p) ==
    {file.prep} \cup
    {[file.prep EXCEPT !.time = t] : t \in
        {u \in 1 .. MaxTime : build # "copy" /\ Accepts(p, u) /\ u <= file.last_up + MaxJump}}

\* An argument that cannot be used ends the update; without mmap the header
\* stays as it was.
BadArg(p) ==
    /\ proc[p].pc = "ready" /\ proc[p].n < MaxArgs
    /\ \E prep \in Refused(p) :
          Step(p, [Idle EXCEPT !.pc = "close"], [file EXCEPT !.prep = prep])
    /\ trace' = [trace EXCEPT !.lost = [a \in Archives |->
                    IF build = "copy" /\ proc[p].wrote[a] > @[a] THEN proc[p].wrote[a] ELSE @[a]]]
    /\ UNCHANGED <<lock, events>>

\* write_to_rras: the row pointer moves before the row is written.
Advance(p) ==
    LET a == proc[p].arch
    IN  /\ proc[p].pc = "row"
        /\ SetHead(p, [proc[p] EXCEPT !.pc = "write"], "cur",
                   [HeadOf(p).cur EXCEPT ![a] = (@ + 1) % RowCnt])
        /\ trace' = [trace EXCEPT !.newest[a] = IF build = "copy" THEN @ ELSE @ + 1]
        /\ UNCHANGED <<lock, events>>

\* The first row comes from the readings before this one, too; the others
\* are right if the interval fits the readings (sound in prep).
WriteRow(p) ==
    LET a == proc[p].arch
        k == proc[p].steps - proc[p].left + 1
        h == HeadOf(p)
        right == IF k = 1 THEN proc[p].sound ELSE h.prep.sound
        last == proc[p].left = 1
    IN  /\ proc[p].pc = "write"
        /\ Step(p, [proc[p] EXCEPT !.left = IF last THEN proc[p].steps ELSE @ - 1,
                                   !.arch = IF last THEN a + 1 ELSE a,
                                   !.wrote[a] = IF build = "copy" THEN @ + 1 ELSE @,
                                   !.pc = IF last /\ a = Cardinality(Archives)
                                          THEN "stamp" ELSE "row"],
                   [file EXCEPT !.rows[a][h.cur[a]] =
                                   IF right THEN Slot(h.last_up) + k ELSE 0])
        /\ UNCHANGED <<lock, events, trace>>

\* An update is over, in the file: what a killed one spoiled is left behind.
Settled(tr, f, rows) ==
    [tr EXCEPT !.broken = FALSE,
               !.since = IF tr.broken THEN Slot(f.last_up) + 1 ELSE @,
               !.lost = [a \in Archives |-> IF @[a] > rows[a] THEN @[a] - rows[a] ELSE 0]]

\* A slip to guard against: last_up is set before the rows are written.
StampEarly(p) == proc[p].pc \in {"row", "stamp"}

Stampable(p) == proc[p].pc = "stamp"

\* last_up, and for an old file its copy in the header.
Stamp(p) ==
    LET q == [proc[p] EXCEPT !.pc = "ready", !.t = 0, !.steps = 0, !.left = 0, !.arch = 1,
                                 !.head.last_up = IF build = "mmap" THEN @ ELSE proc[p].t]
    IN  /\ Stampable(p)
        /\ IF build = "copy"
           THEN Step(p, q, file) /\ UNCHANGED trace
           ELSE LET f == [file EXCEPT !.last_up = proc[p].t]
                IN  Step(p, q, f) /\ trace' = Settled(trace, f, [a \in Archives |-> 0])
        /\ UNCHANGED <<lock, events>>

\* The end of the arguments; write_changes_to_disk without mmap.
End(p) ==
    /\ proc[p].pc = "ready" /\ proc[p].n > 0
    /\ Step(p, IF build = "copy" THEN [proc[p] EXCEPT !.pc = "last_up"]
               ELSE [Idle EXCEPT !.pc = "close"], file)
    /\ UNCHANGED <<lock, events, trace>>

\* write_changes_to_disk: one write after the other.
WriteHeader(p) ==
    LET field == proc[p].pc
        f == [file EXCEPT ![field] = proc[p].head[field]]
    IN  /\ field \in {"last_up", "prep", "cur"}
        /\ Step(p, [proc[p] EXCEPT !.pc = CASE field = "last_up" -> "prep"
                                            [] field = "prep" -> "cur"
                                            [] field = "cur" -> "close"], f)
        /\ trace' = IF field # "cur" THEN trace
                    ELSE [Settled(trace, f, proc[p].wrote) EXCEPT
                             !.newest = [a \in Archives |-> @[a] + proc[p].wrote[a]]]
        /\ UNCHANGED <<lock, events>>

\* rrd_close: closing the file drops the lock.
Close(p) ==
    /\ proc[p].pc = "close"
    /\ Step(p, Idle, file) /\ Unlock(p)
    /\ UNCHANGED <<events, trace>>

\* The process is killed. Half an argument in a mapped file, or half a header,
\* breaks it; rows without a header cost as many of the oldest rows.
Kill(p) ==
    LET half == IF build = "copy" THEN {"prep", "cur"} ELSE {"row", "write", "stamp"}
        w(a) == IF build = "copy" /\ proc[p].pc # "close" THEN proc[p].wrote[a] ELSE 0
    IN  /\ "kill" \in events /\ proc[p].pc # "idle"
        /\ events' = events \ {"kill"}
        /\ Step(p, Idle, file) /\ Unlock(p)
        /\ trace' = [trace EXCEPT !.broken = @ \/ proc[p].pc \in half,
                                  !.lost = [a \in Archives |->
                                               IF w(a) > @[a] THEN w(a) ELSE @[a]]]

Updater(p) ==
    \/ Open(p) \/ Lock(p) \/ BadArg(p) \/ Advance(p) \/ WriteRow(p) \/ Stamp(p)
    \/ End(p) \/ WriteHeader(p) \/ Close(p) \/ Kill(p)
    \/ \E t \in 1 .. MaxTime : Arg(p, t)

-----------------------------------------------------------------------------
(* A reader: last_up is used before the row pointer, the rows come last    *)

\* rrd_open for reading, last_up; "first" asks for the time rrd_first answers.
ReadHead(a, s) ==
    /\ "read" \in events /\ reader.pc = "idle"
    /\ s \in Slot(file.last_up) - RowCnt + 1 .. Slot(file.last_up)
    /\ reader' = [pc |-> "head", a |-> a, want |-> s, last_up |-> file.last_up,
                  cur |-> 0, newest |-> 0, got |-> 0,
                  quiet |-> lock = "none" /\ ~trace.broken]
    /\ UNCHANGED <<build, file, lock, proc, events, trace>>

\* A slip to guard against: the offset is one row short.
OffsetShort(r) == Slot(r.last_up) - r.want + 1

\* rows from the newest back to the wanted one (start_offset from the oldest)
Offset(r) == Slot(r.last_up) - r.want

ReadCur ==
    /\ reader.pc = "head"
    /\ reader' = [reader EXCEPT !.pc = "cur", !.cur = file.cur[reader.a],
                                !.newest = trace.newest[reader.a]]
    /\ UNCHANGED <<build, file, lock, proc, events, trace>>

ReadRow ==
    /\ reader.pc = "cur"
    /\ reader' = [reader EXCEPT !.pc = "done",
                     !.got = file.rows[reader.a][(reader.cur - Offset(reader)) % RowCnt]]
    /\ UNCHANGED <<build, file, lock, proc, events, trace>>

\* rrd_lastupdate_r: last_up, then the last readings.
ReadPrep ==
    /\ reader.pc = "head"
    /\ reader' = [reader EXCEPT !.pc = "lastupdate", !.got = file.prep.time, !.quiet = FALSE]
    /\ UNCHANGED <<build, file, lock, proc, events, trace>>

ReadEnd ==
    /\ reader.pc \in {"done", "lastupdate"}
    /\ reader' = [pc |-> "idle"]
    /\ UNCHANGED <<build, file, lock, proc, events, trace>>

\* Nothing is claimed once a process uses a header that has changed since.
Next ==
    /\ ~trace.tainted
    /\ \/ \E p \in Procs : Updater(p)
       \/ \E a \in Archives, s \in 1 .. Slot(MaxTime) : ReadHead(a, s)
       \/ ReadCur \/ ReadRow \/ ReadPrep \/ ReadEnd

Spec == Init /\ [][Next]_vars

-----------------------------------------------------------------------------
(* Properties                                                              *)

Reliable(a) ==
    LET first == Slot(file.last_up) - RowCnt + 1 + trace.lost[a]
    IN  (IF first > trace.since THEN first ELSE trace.since + 1) .. Slot(file.last_up)

\* When no update is under way every archive holds the row of every step it
\* covers at the place from which a fetch reads it. After a process was killed
\* between two changes of the header (process_arg, write_changes_to_disk), or an
\* update was refused after it had put readings into a mapped file (last_ds in
\* update_pdp_prep), the steps that the next update ends or begins may be wrong,
\* and none after them; rows written by an update that failed, or was killed,
\* before it wrote its header cost only as many of the oldest rows.
ArchivesRight ==
    lock = "none" /\ ~trace.broken /\ ~trace.tainted =>
        \A a \in Archives : \A s \in Reliable(a) :
            file.rows[a][(file.cur[a] - (Slot(file.last_up) - s)) % RowCnt] = s

\* last_up never goes back, and a killed update does not stop the next one, as
\* long as no process uses a header it read before another one changed the file
\* (rrd_lock after rrd_open): with mmap and version 3 that cannot happen.
TimeForward ==
    [][/\ ~trace'.tainted => file'.last_up >= file.last_up
       /\ build = "mmap" => ~trace'.tainted]_vars

\* What rrd_fetch_fn returns for a step: its own row if no update ran while it
\* read; otherwise the row of a step as much later as the row pointer was ahead
\* of last_up when they were read, or one whole rounds before or after it.
\* rrd_lastupdate never shows readings older than last_up in a mapped file.
FetchShift ==
    /\ reader.pc = "done" /\ ~trace.tainted /\ ~trace.broken /\ trace.since = 0
       /\ trace.lost[reader.a] = 0 /\ reader.got # 0 =>
         LET s == reader.want + reader.newest - Slot(reader.last_up)
         IN  /\ (reader.got - s) % RowCnt = 0
             /\ reader.quiet => reader.got = reader.want
    /\ reader.pc = "lastupdate" /\ build # "copy" /\ ~trace.tainted =>
         reader.got >= reader.last_up
=============================================================================
