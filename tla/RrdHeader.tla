----------------------------- MODULE RrdHeader ------------------------------
(***************************************************************************)
(* What is in an RRD file, how rrd_create_r makes it from its arguments    *)
(* and what rrd_tune may change.                                           *)
(*                                                                         *)
(* A file is [v, up, ds, rra]: version, last_up, data sources (ds_def and  *)
(* pdp_prep) and archives (rra_def, cdp_prep, rra_ptr and rows).  The      *)
(* parameters of an archive are an array of unions in the code; a slot has *)
(* one name here whatever the consolidation function makes of it:          *)
(*   a    alpha, gamma or delta_pos       idx  smooth_idx or window_len    *)
(*   b    beta, smoothing_window or delta_neg   thr  failure_threshold     *)
(*   dep  dependent_rra_idx (from 1; 0 where the code has -1)   xff        *)
(* and in the scratch area of a data source in an archive                  *)
(*   c, lc    intercept, seasonal or deviation, and the one before         *)
(*   s, ls    slope, and the one before                                    *)
(*   null     null_count or init_seasonal           lnull  the one before. *)
(* A COMPUTE data source keeps its program (cdef) where the others keep    *)
(* heartbeat, minimum and maximum.                                         *)
(* Fractions of one are percentages; pdp_step is 1.                        *)
(***************************************************************************)
EXTENDS RrdRpn
LOCAL INSTANCE FiniteSetsExt
LOCAL INSTANCE SequencesExt
LOCAL INSTANCE TLC
LOCAL INSTANCE FiniteSets
LOCAL INSTANCE Functions

CONSTANTS Hash,         \* FnvHash of the file name
          Random        \* what rrd_random returns

MAX_FAILURES_WINDOW_LEN == 28

HWs == {"HWPREDICT", "MHWPREDICT"}
Seasons == {"SEASONAL", "DEVSEASONAL"}
CFs == HWs \cup Seasons \cup
       {"DEVPREDICT", "FAILURES", "AVERAGE", "MINIMUM", "MAXIMUM", "LAST"}
Types == {"COUNTER", "ABSOLUTE", "GAUGE", "DERIVE"}

ParSlots == {"a", "b", "dep", "idx", "thr", "xff"}
CdpSlots == {"val", "unkn", "c", "lc", "s", "ls", "null", "lnull", "primary", "secondary"}

Fail == [ok |-> FALSE]
Ok(f) == [ok |-> TRUE, file |-> f]

-----------------------------------------------------------------------------
(* rrd_create_r: the arguments.  A data source is [name, type, mrhb, min,  *)
(* max, text], an archive [cf, args] with the numbers after the name.      *)

NamesOf(ds) == [k \in DOMAIN ds |-> ds[k].name]

\* A slip to guard against: a data source may refer to any other, or itself.
CdefOfAny(args, k) == ParseCdef(args[k].text, NamesOf(args))

\* parseCDEF_DS is called before the data source is counted.
CdefOf(args, k) == ParseCdef(args[k].text, NamesOf(SubSeq(args, 1, k - 1)))

ValidDs(args, k) ==
    LET d == args[k]
    IN  /\ \A j \in 1..(k - 1) : args[j].name # d.name
        /\ \/ d.type = "COMPUTE" /\ CdefOf(args, k).ok
           \/ d.type \in Types /\ (IsNan(d.min) \/ IsNan(d.max) \/ Less(d.min, d.max))

\* What the numbers of an archive stand for.  After an optional smoothing window,
\* and after the index of FAILURES, one more number is taken for an index.
Tokens(cf) ==
    CASE cf \in HWs -> <<"rows", "a", "b", "period", "dep">>
      [] cf \in Seasons -> <<"rows", "a", "dep", "b", "dep">>
      [] cf = "DEVPREDICT" -> <<"rows", "dep">>
      [] cf = "FAILURES" -> <<"rows", "thr", "idx", "dep", "dep">>
      [] OTHER -> <<"xff", "pdp", "rows">>

\* token_min, without the name.
TokenMin(cf) ==
    CASE cf \in HWs \cup {"FAILURES"} -> 4
      [] cf \in {"DEVSEASONAL", "DEVPREDICT"} -> 2
      [] OTHER -> 3

\* The last number given for a slot.
Given(r, slot, default) ==
    LET at == {k \in DOMAIN r.args : Tokens(r.cf)[k] = slot}
    IN  IF at = {} THEN default ELSE r.args[Max(at)]

InRange(r, k) ==
    LET n == r.args[k]
    IN  CASE Tokens(r.cf)[k] \in {"rows", "pdp"} -> n >= 1
          [] Tokens(r.cf)[k] = "xff" -> n \in 0..99
          [] Tokens(r.cf)[k] = "a" -> n \in 1..99
          [] Tokens(r.cf)[k] = "b" -> n \in 0..100
          [] Tokens(r.cf)[k] = "thr" -> n \in 1..MAX_FAILURES_WINDOW_LEN
          [] Tokens(r.cf)[k] = "idx" -> n \in Given(r, "thr", 0)..MAX_FAILURES_WINDOW_LEN
          [] Tokens(r.cf)[k] = "period" -> n <= Given(r, "rows", 0)
          [] Tokens(r.cf)[k] = "dep" -> TRUE

ValidRra(r) ==
    /\ r.cf \in CFs
    /\ Len(r.args) \in TokenMin(r.cf)..Len(Tokens(r.cf))
    /\ \A k \in DOMAIN r.args : InRange(r, k)

\* rra_def of archive number i.
RraDef(r, i) ==
    [cf |-> r.cf, pdp |-> Given(r, "pdp", 1), row_cnt |-> Given(r, "rows", 0),
     par |-> [a |-> Given(r, "a", IF r.cf = "FAILURES" THEN 200 ELSE 0),
              b |-> Given(r, "b", CASE r.cf \in Seasons -> 5 [] r.cf = "FAILURES" -> 200
                                    [] OTHER -> 0),
              dep |-> Given(r, "dep", IF r.cf \in HWs THEN i ELSE 0),
              idx |-> IF r.cf \in Seasons THEN Hash % Given(r, "rows", 1) ELSE Given(r, "idx", 0),
              thr |-> Given(r, "thr", 0), xff |-> Given(r, "xff", 0)]]

\* create_hw_contingent_rras: the archives that follow HWPREDICT number i.
Contingent(hw, i, period) ==
    LET zero == [s \in ParSlots |-> 0]
        rra(cf, rows, par) == [cf |-> cf, pdp |-> 1, row_cnt |-> rows, par |-> par]
        season == [zero EXCEPT !.a = hw.par.a, !.dep = i, !.idx = Hash % period]
    IN  << rra("SEASONAL", period, season),
           rra("DEVSEASONAL", period, season),
           rra("DEVPREDICT", hw.row_cnt, [zero EXCEPT !.dep = i + 2]),
           rra("FAILURES", period, [zero EXCEPT !.a = 200, !.b = 200, !.thr = 7,
                                                !.idx = 9, !.dep = i + 2]) >>

IsContingent(r, i) == r.cf \in HWs /\ Given(r, "dep", i) = i

\* One archive after the other, each with those it brings along.
AddRra(defs, r) ==
    LET i == Len(defs) + 1
        def == RraDef(r, i)
    IN  IF IsContingent(r, i)
        THEN Append(defs, [def EXCEPT !.par.dep = i + 1])
                \o Contingent(def, i, Given(r, "period", 0))
        ELSE Append(defs, def)

RraDefs(args) == FoldLeft(AddRra, << >>, args)

\* "MHWPREDICT causes Version 4", "smoothing-window causes Version 4"
Version(args) ==
    IF \E k \in DOMAIN args : \/ args[k].cf = "MHWPREDICT"
                              \/ args[k].cf \in Seasons /\ Len(args[k].args) > 3
    THEN 4 ELSE 3

\* rpn_parse of an empty text, once the data sources before it and its name are
\* accepted.
EmptyProgram(request) ==
    \E k \in DOMAIN request.ds :
        /\ request.ds[k].type = "COMPUTE" /\ request.ds[k].text = << >>
        /\ \A j \in 1..(k - 1) : ValidDs(request.ds, j) /\ request.ds[j].name # request.ds[k].name

\* hashed_name % period, with a period of 0, once everything before it is accepted.
DividesByZero(request) ==
    LET args == request.rra
    IN  /\ \A k \in DOMAIN request.ds : ValidDs(request.ds, k)
        /\ \E k \in DOMAIN args :
              /\ \A j \in 1..k : ValidRra(args[j])
              /\ IsContingent(args[k], Len(RraDefs(SubSeq(args, 1, k - 1))) + 1)
              /\ Given(args[k], "period", 0) = 0

\* The data sources come first in a request.
Crashes(request) == EmptyProgram(request) \/ DividesByZero(request)

Valid(request) ==
    /\ request.ds # << >> /\ request.rra # << >>
    /\ \A k \in DOMAIN request.ds : ValidDs(request.ds, k)
    /\ \A k \in DOMAIN request.rra : ValidRra(request.rra[k])

-----------------------------------------------------------------------------
(* rrd_create_fn: the rest of a new file                                   *)

\* One scratch area serves for all archives: what an archive does not set is left
\* from the archives before it.
InitCdp(prev, def, up) ==
    LET nan(slots) == [s \in CdpSlots |-> IF s \in slots THEN DNAN ELSE prev[s]]
    IN  CASE def.cf \in HWs -> [nan({"c", "lc", "s", "ls"}) EXCEPT !.null = Num(1), !.lnull = Num(1)]
          [] def.cf \in Seasons -> [nan({"c", "lc"}) EXCEPT !.null = Num(1)]
          [] def.cf = "FAILURES" -> [s \in CdpSlots |-> Num(0)]
          [] OTHER -> [nan({"val"}) EXCEPT !.unkn = Num(up % def.pdp)]

InitCdps(defs, up) ==
    FoldLeft(LAMBDA cdps, def : Append(cdps, InitCdp(Last(cdps), def, up)),
             << [s \in CdpSlots |-> Num(0)] >>, defs)

NewFile(request) ==
    LET DS == DOMAIN request.ds
        defs == RraDefs(request.rra)
        cdps == InitCdps(defs, request.start)
    IN  [v |-> Version(request.rra), up |-> request.start,
         ds |-> [k \in DS |-> Restrict(request.ds[k], {"name", "type", "mrhb", "min", "max"}) @@
                   [cdef |-> IF request.ds[k].type = "COMPUTE" THEN CdefOf(request.ds, k).cdef
                             ELSE << >>,
                    last |-> "U", val |-> Num(0), unkn |-> 0]],
         rra |-> [i \in DOMAIN defs |->
                    [cf |-> defs[i].cf, pdp |-> defs[i].pdp, par |-> defs[i].par,
                     cdp |-> [d \in DS |-> cdps[i + 1]], viol |-> [d \in DS |-> {}],
                     cur |-> Random % defs[i].row_cnt,
                     rows |-> [r \in 0..(defs[i].row_cnt - 1) |-> [d \in DS |-> DNAN]]]]]

RowCnt(rra) == Cardinality(DOMAIN rra.rows)

-----------------------------------------------------------------------------
(* rrd_tune: an option is [opt, arg], with the name of a data source in ds *)
(* where it needs one.                                                     *)

\* The first archive with this consolidation function, or 0.
FirstRra(f, cf) ==
    LET with == {i \in DOMAIN f.rra : f.rra[i].cf = cf}
    IN  IF with = {} THEN 0 ELSE Min(with)

\* ds_match
DsMatch(f, name) ==
    LET with == {d \in DOMAIN f.ds : f.ds[d].name = name}
    IN  IF with = {} THEN 0 ELSE Min(with)

\* set_hwarg, set_hwsmootharg, set_deltaarg: a parameter of the first such archive.
SetPar(f, cf, slot, value, range) ==
    LET i == FirstRra(f, cf)
    IN  IF value \in range /\ i # 0 THEN Ok([f EXCEPT !.rra[i].par[slot] = value]) ELSE Fail

EraseViolations(rra, d) == [rra EXCEPT !.viol[d] = @ \ 1..rra.par.idx]

\* set_windowarg: the violations are erased, over the new length.
SetWindowArg(f, slot, value) ==
    LET set == SetPar(f, "FAILURES", slot, value, 1..MAX_FAILURES_WINDOW_LEN)
        i == FirstRra(f, "FAILURES")
        DS == DOMAIN f.ds
    IN  IF ~set.ok THEN Fail
        ELSE Ok([set.file EXCEPT !.rra[i] = FoldLeft(EraseViolations, @, SetToSeq(DS))])

\* set_hwarg for HWPREDICT or, if that fails, MHWPREDICT.
SetPredict(f, slot, value) ==
    LET set == SetPar(f, "HWPREDICT", slot, value, 1..99)
    IN  IF set.ok THEN set ELSE SetPar(f, "MHWPREDICT", slot, value, 1..99)

\* reset_aberrant_coefficients for data source d.
ResetAberrant(f, d) ==
    [f EXCEPT !.rra = [i \in DOMAIN @ |->
        LET rra == @[i]
            init(slots) == [s \in CdpSlots |-> IF s \in slots THEN DNAN ELSE rra.cdp[d][s]]
        IN  CASE rra.cf \in HWs ->
                   [rra EXCEPT !.cdp[d] = [init({"c", "lc", "s", "ls"})
                                            EXCEPT !.null = Num(1), !.lnull = Num(1)]]
              [] rra.cf \in Seasons ->
                   [rra EXCEPT !.cdp[d] = init({"c", "lc"}),
                               !.rows = [r \in DOMAIN @ |-> [@[r] EXCEPT ![d] = DNAN]]]
              [] rra.cf = "FAILURES" -> EraseViolations(rra, d)
              [] OTHER -> rra]]

\* What is left of a program when a number is written over it.
Garbled == << [op |-> "garbled", arg |-> 0] >>

\* -d: last_ds is reset "only when something is changed".
SetType(f, d, type) ==
    IF type \notin Types \cup {"COMPUTE"} THEN Fail
    ELSE IF f.ds[d].type = type THEN Ok(f)
    ELSE Ok([f EXCEPT !.ds[d].type = type, !.ds[d].last = "UNKN",
                      !.ds[d].cdef = IF type = "COMPUTE" THEN Garbled ELSE << >>])

\* -h, -i, -a: the type of the data source is not looked at.
SetLimit(f, d, field, value) ==
    IF f.ds[d].type = "COMPUTE" THEN Ok([f EXCEPT !.ds[d].cdef = Garbled])
    ELSE Ok([f EXCEPT !.ds[d][field] = value])

DsOptions == {"h", "i", "a", "d", "r", "b"}

\* What one option does to the header, and whether it is accepted.  The version
\* is set before the smoothing window is looked at.
TuneDs(f, o, d) ==
    CASE d = 0 -> Fail
      [] o.opt = "h" -> SetLimit(f, d, "mrhb", o.arg)
      [] o.opt = "i" -> SetLimit(f, d, "min", o.arg)
      [] o.opt = "a" -> SetLimit(f, d, "max", o.arg)
      [] o.opt = "d" -> SetType(f, d, o.arg)
      [] o.opt = "r" -> Ok([f EXCEPT !.ds[d].name = o.arg])
      [] o.opt = "b" -> Ok(ResetAberrant(f, d))

TuneRra(f, o) ==
    CASE o.opt = "p" -> SetPar(f, "FAILURES", "a", o.arg, 10..o.arg)
      [] o.opt = "n" -> SetPar(f, "FAILURES", "b", o.arg, 10..o.arg)
      [] o.opt = "f" -> SetWindowArg(f, "thr", o.arg)
      [] o.opt = "w" -> SetWindowArg(f, "idx", o.arg)
      [] o.opt = "x" -> SetPredict(f, "a", o.arg)
      [] o.opt = "y" -> SetPredict(f, "b", o.arg)
      [] o.opt = "z" -> SetPar(f, "SEASONAL", "a", o.arg, 1..99)
      [] o.opt = "v" -> SetPar(f, "DEVSEASONAL", "a", o.arg, 1..99)
      [] o.opt = "s" -> SetPar([f EXCEPT !.v = 4], "SEASONAL", "b", o.arg, 0..100)
      [] o.opt = "S" -> SetPar([f EXCEPT !.v = 4], "DEVSEASONAL", "b", o.arg, 0..100)
      [] OTHER -> Fail

\* The options from left to right, up to the first that is refused.  The file is
\* mapped into memory: what has been changed before an error stays changed.
TuneOption(r, o) ==
    LET next == IF o.opt \in DsOptions THEN TuneDs(r.file, o, DsMatch(r.file, o.ds))
                ELSE TuneRra(r.file, o)
    IN  CASE ~r.ok -> r
          [] next.ok -> next
          [] ~next.ok -> [ok |-> FALSE,
                          file |-> IF o.opt \in {"s", "S"} THEN [r.file EXCEPT !.v = 4] ELSE r.file]

Tune(f, options) == FoldLeft(TuneOption, Ok(f), options)
=============================================================================
