------------------------------- MODULE RrdXml -------------------------------
(***************************************************************************)
(* rrd_dump and rrd_restore: an RRD file as XML and back, and what rrd_info, *)
(* rrd_first, rrd_last and rrd_lastupdate tell about a file.               *)
(*                                                                         *)
(* A document is the tree of its elements, [v, up, ds, rra].  An element   *)
(* that is not written is not in the domain of the function it belongs to. *)
(* Numbers are written with "%0.10e": Format keeps Digits of them.         *)
(***************************************************************************)
EXTENDS RrdHeader
LOCAL INSTANCE SequencesExt
LOCAL INSTANCE Functions

CONSTANTS Digits,           \* a number is written in units of 1/Digits
          ProgramLimits(_)  \* what the bytes of a program say as two doubles

Format(x) ==
    IF x[2] = 0 THEN x
    ELSE Fraction((2 * Digits * x[1] + x[2]) \div (2 * x[2]), Digits)

-----------------------------------------------------------------------------
(* rrd_dump_cb_r                                                           *)

\* The elements of <params>.
Params(cf, v) ==
    CASE cf \in HWs -> {"a", "b", "dep"}
      [] cf \in Seasons -> {"a", "idx", "dep"} \cup (IF v >= 4 THEN {"b"} ELSE {})
      [] cf = "FAILURES" -> {"a", "b", "idx", "thr", "dep"}
      [] cf = "DEVPREDICT" -> {"dep"}
      [] OTHER -> {"xff"}

\* The elements of <ds> in <cdp_prep>.
CdpElements(cf) ==
    {"primary", "secondary"} \cup
    CASE cf \in HWs -> {"c", "lc", "s", "ls", "null", "lnull"}
      [] cf \in Seasons -> {"c", "lc", "null"}
      [] cf \in {"DEVPREDICT", "FAILURES"} -> {}
      [] OTHER -> {"val", "unkn"}

\* A slip to guard against: from the current row on.
RowsFromCurrent(rra) == [k \in 1..RowCnt(rra) |-> rra.rows[(rra.cur + k - 1) % RowCnt(rra)]]

\* <database>: from the row after the current one, around to the current one.
OldestFirst(rra) == [k \in 1..RowCnt(rra) |-> rra.rows[(rra.cur + k) % RowCnt(rra)]]

\* The time that is noted beside row k.
RowTime(f, i, k) ==
    LET step == f.rra[i].pdp
    IN  (f.up - (f.up % step)) + (k - RowCnt(f.rra[i])) * step

Formats(values) == [k \in DOMAIN values |-> Format(values[k])]

Dump(f) ==
    [v  |-> IF f.v <= 3 THEN 3 ELSE 4,
     up |-> f.up,
     ds |-> [d \in DOMAIN f.ds |-> [f.ds[d] EXCEPT !.min = Format(@), !.max = Format(@),
                                                   !.val = Format(@),
                                                   !.cdef = CompactToStr(@, NamesOf(f.ds))]],
     rra |-> [i \in DOMAIN f.rra |->
        LET rra == f.rra[i]
        IN  [cf |-> rra.cf, pdp |-> rra.pdp,
             params |-> Restrict(rra.par, Params(rra.cf, f.v)),
             cdp_prep |-> [d \in DOMAIN rra.cdp |->
                             Formats(Restrict(rra.cdp[d], CdpElements(rra.cf)))],
             history |-> [d \in DOMAIN rra.viol |->
                            IF rra.cf = "FAILURES" THEN rra.viol[d] \cap 1..rra.par.idx ELSE {}],
             database |-> [k \in 1..RowCnt(rra) |-> Formats(OldestFirst(rra)[k])],
             times |-> [k \in 1..RowCnt(rra) |-> RowTime(f, i, k)]]]]

-----------------------------------------------------------------------------
(* rrd_restore                                                             *)

\* parse_tag_ds: the data source is counted before its <cdef> is parsed.
RestoredCdef(ds, d) == ParseCdef(ds[d].cdef, NamesOf(SubSeq(ds, 1, d)))

\* What par[DS_min_val] and par[DS_max_val] say.  Of a COMPUTE data source they are
\* nodes of its program or the zeros behind it.
Limits(ds) == IF ds.type = "COMPUTE" THEN ProgramLimits(ds.cdef)
              ELSE [min |-> ds.min, max |-> ds.max]

\* value_check_range, with -r.
CheckRange(x, ds) == IF Less(x, Limits(ds).min) \/ Less(Limits(ds).max, x) THEN DNAN ELSE x

CheckedRow(row, ds, range) ==
    [d \in DOMAIN row |-> IF range THEN CheckRange(row[d], ds[d]) ELSE row[d]]

\* write_file puts the newest cur + 1 rows first.
RotatedRows(seq, cur) ==
    LET n == Len(seq)
    IN  [r \in 0..(n - 1) |-> IF r <= cur THEN seq[n - cur + r] ELSE seq[r - cur]]

\* parse_tag_rra returns at </rra>, before it would choose a row at random.
RestoredCur == 0

\* The value of an element; what has no element is as calloc left it.
Element(elements, name, zero) == IF name \in DOMAIN elements THEN elements[name] ELSE zero

ParseParams(params) == [s \in ParSlots |-> Element(params, s, 0)]
ParseCdpPrep(ds) == [s \in CdpSlots |-> Element(ds, s, Num(0))]

ParseRra(x, ds, range) ==
    [cf |-> x.cf, pdp |-> x.pdp,
     par |-> ParseParams(x.params),
     cdp |-> [d \in DOMAIN x.cdp_prep |-> ParseCdpPrep(x.cdp_prep[d])],
     viol |-> x.history,
     cur |-> RestoredCur,
     rows |-> RotatedRows([k \in DOMAIN x.database |-> CheckedRow(x.database[k], ds, range)],
                          RestoredCur)]

\* parse_tag_rrd and write_file, "we output 3 or higher".
Restore(doc, range) ==
    LET ds == [d \in DOMAIN doc.ds |->
                 IF doc.ds[d].type = "COMPUTE"
                 THEN [doc.ds[d] EXCEPT !.cdef = RestoredCdef(doc.ds, d).cdef] ELSE doc.ds[d]]
    IN  [v |-> IF doc.v < 3 THEN 3 ELSE doc.v, up |-> doc.up, ds |-> ds,
         rra |-> [i \in DOMAIN doc.rra |-> ParseRra(doc.rra[i], ds, range)]]

\* parse_tag_ds_cdef: a program that is not understood ends the restore.
Restorable(doc) ==
    \A d \in DOMAIN doc.ds : doc.ds[d].type = "COMPUTE" => RestoredCdef(doc.ds, d).ok

-----------------------------------------------------------------------------
(* rrd_first_r, rrd_last_r, rrd_lastupdate_r, rrd_info_r                   *)

First(f, i) ==
    LET step == f.rra[i].pdp
    IN  (f.up - (f.up % step)) - (RowCnt(f.rra[i]) - 1) * step

LastUp(f) == f.up

LastUpdate(f) == [up |-> f.up, last |-> [d \in DOMAIN f.ds |-> f.ds[d].last]]

\* What rrd_info shows of the scratch area.
InfoElements(cf) ==
    CASE cf \in HWs -> {"c", "s", "null"}
      [] cf \in Seasons -> {"c"}
      [] cf \in {"DEVPREDICT", "FAILURES"} -> {}
      [] OTHER -> {"val", "unkn"}

Info(f) ==
    [v |-> f.v, up |-> f.up,
     ds |-> [d \in DOMAIN f.ds |-> [f.ds[d] EXCEPT !.cdef = CompactToStr(@, NamesOf(f.ds))]],
     rra |-> [i \in DOMAIN f.rra |->
        LET rra == f.rra[i]
        IN  [cf |-> rra.cf, rows |-> RowCnt(rra), cur |-> rra.cur, pdp |-> rra.pdp,
             par |-> Restrict(rra.par, Params(rra.cf, f.v) \
                                       (IF rra.cf = "FAILURES" THEN {"dep"} ELSE {"dep", "idx"})),
             cdp |-> [d \in DOMAIN rra.cdp |-> Restrict(rra.cdp[d], InfoElements(rra.cf))],
             viol |-> [d \in DOMAIN rra.viol |->
                         IF rra.cf = "FAILURES" THEN rra.viol[d] \cap 1..rra.par.idx ELSE {}]]]]

-----------------------------------------------------------------------------
(* What a file means: all that later updates and readers make use of, but  *)
(* for the place of the current row.                                       *)

\* apply_smoother takes 5 percent before version 4.
SmoothingWindow(f, i) == IF f.v >= 4 THEN f.rra[i].par.b ELSE 5

\* The parameters of an archive that are used, and the scratch area that lasts
\* from one update to the next.
UsedPars(f, i) ==
    LET rra == f.rra[i]
    IN  CASE rra.cf \in HWs -> <<rra.par.a, rra.par.b, rra.par.dep>>
          [] rra.cf \in Seasons -> <<rra.par.a, SmoothingWindow(f, i), rra.par.dep, rra.par.idx>>
          [] rra.cf = "FAILURES" -> <<rra.par.a, rra.par.b, rra.par.dep, rra.par.idx, rra.par.thr>>
          [] rra.cf = "DEVPREDICT" -> <<rra.par.dep>>
          [] OTHER -> <<rra.par.xff>>

UsedCdp(cf, cdp) ==
    CASE cf \in HWs -> <<cdp.c, cdp.lc, cdp.s, cdp.ls, cdp.null, cdp.lnull>>
      [] cf \in Seasons -> <<cdp.c, cdp.lc, cdp.null>>
      [] cf \in {"DEVPREDICT", "FAILURES"} -> << >>
      [] OTHER -> <<cdp.val, cdp.unkn>>

NewestFirst(rra) == [k \in 1..RowCnt(rra) |-> rra.rows[(rra.cur - k + 1) % RowCnt(rra)]]

Meaning(f) ==
    [v |-> f.v, up |-> f.up, ds |-> f.ds,
     rra |-> [i \in DOMAIN f.rra |->
        LET rra == f.rra[i]
        IN  [cf |-> rra.cf, pdp |-> rra.pdp, pars |-> UsedPars(f, i),
             cdp |-> [d \in DOMAIN rra.cdp |-> UsedCdp(rra.cf, rra.cdp[d])],
             window |-> [d \in DOMAIN rra.viol |->
                           IF rra.cf = "FAILURES" THEN rra.viol[d] \cap 1..rra.par.idx ELSE {}],
             rows |-> NewestFirst(rra)]]]

\* The file with its numbers as they are written in a document and, with -r, without
\* the values beyond "the limits defined for the various data sources" (rrdrestore.pod),
\* of which a COMPUTE data source has none.
Rounded(f, range) ==
    LET ds == [d \in DOMAIN f.ds |-> [f.ds[d] EXCEPT !.min = Format(@), !.max = Format(@),
                                                     !.val = Format(@)]]
        kept(x, d) == IF range /\ ds[d].type # "COMPUTE" THEN CheckRange(x, ds[d]) ELSE x
    IN  [f EXCEPT !.ds = ds,
                  !.rra = [i \in DOMAIN @ |->
                     [@[i] EXCEPT !.cdp = [d \in DOMAIN @ |-> Formats(@[d])],
                                  !.rows = [r \in DOMAIN @ |-> [d \in DOMAIN @[r] |->
                                               kept(Format(@[r][d]), d)]]]]]
=============================================================================
