------------------------------ MODULE RrdTool -------------------------------
(***************************************************************************)
(* rrdtool in remote mode ("rrdtool -"): one process that reads command    *)
(* lines and answers each.  HandleInputLine calls the function of the      *)
(* library that belongs to the command; what an earlier line left behind   *)
(* in static variables is still there for the next.  The files are mapped  *)
(* into memory, and no other process is at work on them.                   *)
(***************************************************************************)
EXTENDS RrdXml
LOCAL INSTANCE SequencesExt
LOCAL INSTANCE RrdSmooth

CONSTANTS Names,        \* names of RRD files
          Documents,    \* names of XML files
          Writable,     \* the documents that can be opened for writing
          Lines,        \* command lines
          Samples,      \* what an update brings: [last, rate, violation]
          MinStart,     \* "the first entry to the RRD should be after 1980"
          MaxTime,      \* bound on last_up
          MaxLines      \* bound on the number of lines

VARIABLES disk,         \* the RRD files
          xml,          \* the documents, with the file each was made from
          opts,         \* opt_range_check, opt_force_overwrite, opt_no_overwrite
          answer,       \* to the last line: OK or an error, and what was printed before
          running,      \* has the process not ended?
          twin,         \* history: the file a restored one should be like, and
                        \* whether it was restored with a check of the range
          n
vars == <<disk, xml, opts, answer, running, twin, n>>

NoFile == [ok |-> FALSE]
Empty == [doc |-> FALSE]        \* no document, or one that was cut off

Exists(file) == "ds" \in DOMAIN disk[file]
HasTwin(file) == "file" \in DOMAIN twin[file]
Readable(doc) == "src" \in DOMAIN xml[doc]

Init ==
    /\ disk = [f \in Names |-> NoFile] /\ twin = disk
    /\ xml = [d \in Documents |-> Empty]
    /\ opts = [range |-> FALSE, force |-> FALSE, keep |-> FALSE]
    /\ answer = [ok |-> TRUE, shown |-> << >>] /\ running = TRUE /\ n = 0

\* The next line is one with this command.
Reads(line, op) == running /\ n < MaxLines /\ n' = n + 1 /\ line.op = op

\* The command has set an error, which is reported and cleared, or it has not.
Says(ok) == answer' = [ok |-> ok, shown |-> << >>]

Store(file, f) == disk' = [disk EXCEPT ![file] = f]

-----------------------------------------------------------------------------
(* The commands                                                            *)

\* The file may be created: RRD_EXCL if opt_no_overwrite is set.
MayCreate(line) == ~(Exists(line.file) /\ opts'.keep)

Create(line) ==
    /\ Reads(line, "create")
    /\ opts' = [opts EXCEPT !.keep = @ \/ line.keep]
    /\ IF line.start >= MinStart /\ Crashes(line)
       THEN running' = FALSE /\ UNCHANGED <<disk, twin, answer>>
       ELSE LET ok == line.start >= MinStart /\ Valid(line) /\ MayCreate(line)
            IN  /\ Says(ok)
                /\ IF ok THEN /\ Store(line.file, NewFile(line))
                              /\ twin' = [twin EXCEPT ![line.file] = NoFile]
                   ELSE UNCHANGED <<disk, twin>>
                /\ UNCHANGED running
    /\ UNCHANGED xml

\* process_all_pdp_st: the rates one after the other, those of COMPUTE data sources
\* from the rates before them; [ok, crash, pdp].
Rates(f, u) ==
    FoldLeft(LAMBDA r, ds :
                 LET c == Calc(ds.cdef, [pdp |-> r.pdp, now |-> Num(f.up + 1)])
                 IN  IF ds.type # "COMPUTE" THEN [r EXCEPT !.pdp = Append(@, u.rate)]
                     ELSE [ok |-> r.ok /\ c.ok, crash |-> r.crash \/ (r.ok /\ c.crash),
                           pdp |-> Append(r.pdp, c.val)],
             [ok |-> TRUE, crash |-> FALSE, pdp |-> << >>], f.ds)

\* update_pdp_prep
Read(f, u) == [f EXCEPT !.ds = [d \in DOMAIN @ |->
                 IF @[d].type = "COMPUTE" THEN @[d] ELSE [@[d] EXCEPT !.last = u.last]]]

\* do_schedule_smooth for archive i; init_seasonal is that of the first data source.
Scheduled(f, i) ==
    LET rra == f.rra[i]
    IN  ScheduleSmooth(rra.cur, RowCnt(rra), rra.par.idx, rra.cdp[1].null[1], 1)

SmoothDue(f) == \E i \in DOMAIN f.rra : f.rra[i].cf \in Seasons /\ Scheduled(f, i).due

\* The smoothed rows of archive i go into the file; those of SEASONAL lose the
\* baseline, which its HWPREDICT takes over.
PutSmooth(f, i, smooth) ==
    [f EXCEPT !.rra[i].rows = [r \in DOMAIN @ |-> [d \in DOMAIN f.ds |-> smooth[d][r]]]]
PutSeason(f, i, smooth, base) ==
    LET hw == f.rra[i].par.dep
        method == IF f.rra[hw].cf = "HWPREDICT" THEN "additive" ELSE "multiplicative"
    IN  [f EXCEPT !.rra[i].rows = [r \in DOMAIN @ |-> [d \in DOMAIN f.ds |->
                                     InitSeasonality(method, smooth[d][r], base[d])]],
                  !.rra[hw].cdp = [d \in DOMAIN @ |-> [@[d] EXCEPT !.c = Plus(@, base[d])]]]
PutRows(f, i, smooth) ==
    IF f.rra[i].cf # "SEASONAL" THEN PutSmooth(f, i, smooth)
    ELSE PutSeason(f, i, smooth, [d \in DOMAIN f.ds |-> Average(smooth[d])])

\* apply_smoother for archive i
ApplySmoother(f, i) ==
    LET rra == f.rra[i]
        offset == (SmoothingWindow(f, i) * RowCnt(rra)) \div 200
    IN  IF \/ rra.cf \notin Seasons \/ offset = 0
           \/ \E r \in DOMAIN rra.rows, d \in DOMAIN f.ds : IsNan(rra.rows[r][d])
        THEN f
        ELSE PutRows(f, i, [d \in DOMAIN f.ds |->
                 MovingAverage([r \in DOMAIN rra.rows |-> rra.rows[r][d]], offset)])

\* smooth_all_rras, if one of the archives is due.
SmoothAllRras(f, due) ==
    FoldLeft(ApplySmoother, f, IF due THEN [i \in DOMAIN f.rra |-> i] ELSE << >>)

\* Archive i of f after one step.  RrdFile and RrdAberrant say what a row holds; here
\* it is the rate, and what update_aberrant_CF keeps of the coefficients before.
SampledRra(f, i, row, violation) ==
    LET rra == f.rra[i]
        next == (rra.cur + 1) % RowCnt(rra)
        ahead == rra.rows[(rra.cur + 2) % RowCnt(rra)]      \* lookup_seasonal
        kept(c, x) == [c EXCEPT !.lc = c.c, !.ls = c.s, !.lnull = c.null, !.c = x, !.primary = x]
        shifted(w) == {k \in w : k > rra.par.idx} \cup {k \in 2..rra.par.idx : k - 1 \in w}
                      \cup (IF violation THEN {1} ELSE {})
    IN  CASE (f.up + 1) % rra.pdp # 0 ->
               [rra EXCEPT !.cdp = [d \in DOMAIN @ |-> [@[d] EXCEPT !.val = row[d]]]]
          [] rra.cf \in HWs ->
               [rra EXCEPT !.cdp = [d \in DOMAIN @ |-> kept(@[d], row[d])],
                           !.cur = next, !.rows[next] = row]
          [] rra.cf \in Seasons ->
               [rra EXCEPT !.cdp = [d \in DOMAIN @ |->
                             [@[d] EXCEPT !.lc = rra.cdp[d].c, !.c = ahead[d], !.primary = row[d],
                                          !.null = IF d = 1 THEN Num(Scheduled(f, i).init) ELSE @]],
                           !.cur = next, !.rows[next] = row]
          [] rra.cf = "FAILURES" ->
               [rra EXCEPT !.viol = [d \in DOMAIN @ |-> shifted(@[d])],
                           !.cur = next, !.rows[next] = row]
          [] OTHER -> [rra EXCEPT !.cur = next, !.rows[next] = row]

\* rrd_update by one step, with the Rates of f.  If a program fails the update ends
\* after the readings have been noted.
Sampled(f, u, rates) ==
    IF ~rates.ok THEN Read(f, u)
    ELSE SmoothAllRras([Read(f, u) EXCEPT
             !.up = @ + 1,
             !.rra = [i \in DOMAIN @ |-> SampledRra(f, i, rates.pdp, u.violation)]], SmoothDue(f))

\* The rows of a season lie at other places of the file, and the next update is due to
\* smooth one of the two files: do_schedule_smooth goes by the place of the row.
PartWays(f, g) ==
    /\ \E i \in DOMAIN f.rra : f.rra[i].cf \in Seasons /\ f.rra[i].cur # g.rra[i].cur
    /\ SmoothDue(f) \/ SmoothDue(g)

Update(line) ==
    \E u \in Samples :
        LET f == disk[line.file]
            rates == Rates(f, u)
            ends == Exists(line.file) /\ rates.crash
        IN  /\ Reads(line, "update")
            /\ Exists(line.file) => f.up < MaxTime
            /\ running' = ~ends
            /\ IF ends THEN UNCHANGED answer ELSE Says(Exists(line.file) /\ rates.ok)
            /\ IF Exists(line.file)
               THEN /\ Store(line.file, Sampled(f, u, rates))
                    /\ twin' = CASE ~HasTwin(line.file) -> twin
                                 [] HasTwin(line.file) /\ PartWays(f, twin[line.file].file) ->
                                      [twin EXCEPT ![line.file] = NoFile]
                                 [] OTHER -> [twin EXCEPT ![line.file].file = Sampled(@, u, Rates(@, u))]
               ELSE UNCHANGED <<disk, twin>>
            /\ UNCHANGED <<xml, opts>>

TuneFile(line) ==
    LET tuned == Tune(disk[line.file], line.options)
    IN  /\ Reads(line, "tune")
        /\ Says(Exists(line.file) /\ tuned.ok)
        /\ IF Exists(line.file)
           THEN /\ Store(line.file, tuned.file)
                /\ twin' = IF HasTwin(line.file)
                           THEN [twin EXCEPT ![line.file].file = Tune(@, line.options).file] ELSE twin
           ELSE UNCHANGED <<disk, twin>>
        /\ UNCHANGED <<xml, opts, running>>

\* rrd_dump_opt_r opens the document first: it is cut off even if there is no file
\* to be dumped.  That it cannot be opened is no error.
DumpFile(line) ==
    LET written == line.doc \in Writable
    IN  /\ Reads(line, "dump")
        /\ Says(written => Exists(line.file))
        /\ xml' = IF ~written THEN xml
                  ELSE [xml EXCEPT ![line.doc] =
                          IF Exists(line.file)
                          THEN [doc |-> Dump(disk[line.file]), src |-> disk[line.file]]
                          ELSE Empty]
        /\ UNCHANGED <<disk, opts, running, twin>>

\* O_EXCL unless opt_force_overwrite is set.
MayRestore(line) == Exists(line.file) => opts'.force

RestoreFile(line) ==
    LET ok == Readable(line.doc) /\ Restorable(xml[line.doc].doc) /\ MayRestore(line)
    IN  /\ Reads(line, "restore")
        /\ opts' = [opts EXCEPT !.range = @ \/ line.range, !.force = @ \/ line.force]
        /\ Says(ok)
        /\ IF ok THEN /\ Store(line.file, Restore(xml[line.doc].doc, opts'.range))
                      /\ twin' = [twin EXCEPT ![line.file] =
                                    [file |-> Rounded(xml[line.doc].src, opts'.range),
                                     checked |-> opts'.range]]
           ELSE UNCHANGED <<disk, twin>>
        /\ UNCHANGED <<xml, running>>

\* first, last, lastupdate, info
Query(line) ==
    LET f == disk[line.file]
    IN  /\ Reads(line, "query")
        /\ IF Exists(line.file)
           THEN answer' = [ok |-> TRUE,
                           shown |-> << [first |-> [i \in DOMAIN f.rra |-> First(f, i)],
                                         last |-> LastUp(f), lastupdate |-> LastUpdate(f),
                                         info |-> Info(f)] >>]
           ELSE Says(FALSE)
        /\ UNCHANGED <<disk, xml, opts, running, twin>>

\* Commands that change nothing here: cd, mkdir, pwd, ls, help, an unknown one.
Other(line) ==
    /\ Reads(line, "other")
    /\ Says(line.ok)
    /\ UNCHANGED <<disk, xml, opts, running, twin>>

Quit(line) ==
    /\ Reads(line, "quit")
    /\ running' = FALSE
    /\ UNCHANGED <<disk, xml, opts, answer, twin>>

HandleInputLine ==
    \E line \in Lines :
        \/ Create(line) \/ Update(line) \/ TuneFile(line) \/ DumpFile(line)
        \/ RestoreFile(line) \/ Query(line) \/ Other(line) \/ Quit(line)

Next == HandleInputLine

Spec == Init /\ [][Next]_vars

-----------------------------------------------------------------------------
(* Properties                                                              *)

Alike(f) == Meaning(disk[f]) = Meaning(twin[f].file)

\* A file restored from a dump means what the dumped file meant, with its numbers
\* as they are written in the dump, and it goes on doing so: the same updates and
\* the same tuning make the same of both (rrd_dump_cb_r, parse_tag_rra, write_file),
\* until an update counts or smooths a season of one of them, if the rows of the
\* season lie at other places, as they do after a restore, which begins with row 0
\* (PartWays).  Left out, because the code goes wrong there: a file with a COMPUTE
\* data source restored with -r, since value_check_range takes its program for limits.
TwinsAgree ==
    \A f \in Names :
        /\ HasTwin(f)
        /\ twin[f].checked => \A d \in DOMAIN disk[f].ds : disk[f].ds[d].type # "COMPUTE"
        => Alike(f)

\* Archives of the aberrant behaviour detection find each other: the index of each
\* leads to an archive of the kind the update looks for, with rows for the same
\* season (create_hw_contingent_rras).
ArchivesLinked ==
    \A f \in Names : Exists(f) =>
        LET rras == disk[f].rra
            leads(i, cfs) == rras[i].par.dep \in DOMAIN rras /\ rras[rras[i].par.dep].cf \in cfs
        IN  \A i \in DOMAIN rras :
              /\ rras[i].cf \in HWs => leads(i, {"SEASONAL"})
              /\ rras[i].cf \in Seasons =>
                    /\ leads(i, HWs)
                    /\ RowCnt(rras[i]) = RowCnt(rras[rras[rras[i].par.dep].par.dep])
              /\ rras[i].cf \in {"DEVPREDICT", "FAILURES"} => leads(i, {"DEVSEASONAL"})

\* "each CDEF DS can only reference other DS with a lower index number"
\* (process_pdp_st), and so finds its rate calculated.
ProgramsLinked ==
    \A f \in Names : Exists(f) =>
        \A d \in DOMAIN disk[f].ds : \A k \in DOMAIN disk[f].ds[d].cdef :
            disk[f].ds[d].cdef[k].op = "VARIABLE" => disk[f].ds[d].cdef[k].arg < d

\* What the header says by index is found where the update looks for it, through
\* creation, tuning, dump and restore.
Linked == ArchivesLinked /\ ProgramsLinked
=============================================================================
