---------------------------- MODULE RrdAberrant -----------------------------
(***************************************************************************)
(* Aberrant behaviour detection: rrd_hw.c, rrd_hw_math.c, rrd_hw_update.c, *)
(* the parts of rrd_update.c that call them, and what rrd_tune changes.    *)
(*                                                                         *)
(* One data source and the five archives HWPREDICT (or MHWPREDICT),        *)
(* SEASONAL, DEVSEASONAL, DEVPREDICT and FAILURES, in any order: an update *)
(* walks through them in this order, and each takes from the others the    *)
(* coefficients of before the update, saved (last_...) or not yet changed. *)
(* alpha, beta and gamma are 1/2, the deltas 1; values are exact fractions. *)
(***************************************************************************)
EXTENDS Integers, Sequences, RrdSmooth
LOCAL INSTANCE SequencesExt
LOCAL INSTANCE FiniteSetsExt
LOCAL INSTANCE TLC

CONSTANTS Files,       \* files to begin with: [order, method, offset, smooth_idx,
                       \* init, window, known]; known if it has been in use
          RowCnt,      \* rows of SEASONAL and DEVSEASONAL
          Observed,    \* primary data points
          Elapsed,     \* steps between two updates
          Lengths,     \* window lengths and thresholds that rrd_tune sets
          Thresholds,
          MaxUpdates

VARIABLES rrd,       \* the file
          out,       \* the rows the last update wrote, for each archive
          ref,       \* the reference: the model of the series, without archives
          n
vars == <<rrd, out, ref, n>>

HW == "HWPREDICT"
SEA == "SEASONAL"
DEV == "DEVSEASONAL"
DEVP == "DEVPREDICT"
FAIL == "FAILURES"
CFs == {HW, SEA, DEV, DEVP, FAIL}

Half == <<1, 2>>
Minus(x, y) == Plus(x, Times(Num(-1), y))
Mean(x, y) == Times(Half, Plus(x, y))
Distance(x, y) == IF Less(x, y) THEN Minus(y, x) ELSE Minus(x, y)
Positive(x) == Less(Num(0), x)

-----------------------------------------------------------------------------
(* rrd_hw_math.c: m is the method, c a seasonal coefficient                *)

Predict(m, intercept, slope, nulls, c) ==
    LET base == Plus(intercept, Times(slope, Num(nulls)))
    IN  IF m = "additive" THEN Plus(base, c) ELSE Times(base, c)

Intercept(m, x, c, h) ==
    LET old == Plus(h.intercept, Times(h.slope, Num(h.null_count)))
    IN  CASE m = "additive" -> Mean(Minus(x, c), old)
          [] m # "additive" /\ Positive(c) -> Mean(Over(x, c), old)
          [] OTHER -> DNAN

Slope(h, intercept) == Mean(Minus(intercept, h.intercept), h.slope)

Seasonality(m, x, intercept, c) == Mean(InitSeasonality(m, x, intercept), c)

Identity(m) == IF m = "additive" THEN Num(0) ELSE Num(1)

IsViolation(x, prediction, deviation) ==
    Less(Plus(prediction, deviation), x) \/ Less(x, Minus(prediction, deviation))

-----------------------------------------------------------------------------
(* rrd_hw_update.c                                                         *)

InitHwpredict == [intercept |-> DNAN, slope |-> DNAN, null_count |-> 1]
InitSeasonal == [now |-> DNAN, last |-> DNAN]

\* cf comes before the archive that asks: it has been updated already.
Before(r, cf, asking) == \E i, j \in DOMAIN r.order : r.order[i] = cf /\ r.order[j] = asking /\ i < j

\* A slip to guard against: the saved coefficient is never used.
SeenNow(r, cf, asking) == r.sea[cf].now

\* The coefficients of before the update.
HwSeen(r, asking) == IF Before(r, HW, asking) THEN r.hw_last ELSE r.hw
Seen(r, cf, asking) == IF Before(r, cf, asking) THEN r.sea[cf].last ELSE r.sea[cf].now

NoPrediction(h, c) == IsNan(h.intercept) \/ IsNan(h.slope) \/ IsNan(c)

Learn(m, h, c, x) ==
    CASE IsNan(h.intercept) /\ ~IsNan(x) -> [intercept |-> x, slope |-> Num(0), null_count |-> 1]
      [] NoPrediction(h, c) /\ (~IsNan(h.intercept) \/ IsNan(x)) -> h
      [] ~NoPrediction(h, c) /\ IsNan(x) -> [h EXCEPT !.null_count = @ + 1]
      [] OTHER -> LET a == Intercept(m, x, c, h)
                  IN  [intercept |-> a, slope |-> Slope(h, a), null_count |-> 1]

PredictOrNan(m, h, c) ==
    IF NoPrediction(h, c) THEN DNAN ELSE Predict(m, h.intercept, h.slope, h.null_count, c)

\* init_slope_intercept also sets the saved coefficients.
UpdateHwpredict(r, x) ==
    LET c == Seen(r, SEA, HW)
        new == Learn(r.method, r.hw, c, x)
    IN  [r EXCEPT !.hw = new,
                  !.hw_last = IF IsNan(r.hw.intercept) /\ ~IsNan(x) THEN new ELSE r.hw,
                  !.val[HW] = PredictOrNan(r.method, r.hw, c)]

Shift(r, cf, coef) == [r EXCEPT !.sea[cf] = [now |-> coef, last |-> r.sea[cf].now]]

UpdateSeasonal(r, x, coef) ==
    LET m == r.method
        c == r.sea[SEA].now
        h == r.hw
        l == r.hw_last
        v == IF Before(r, HW, SEA)
             THEN CASE IsNan(x) -> c
                    [] ~IsNan(x) /\ (IsNan(l.intercept) \/ IsNan(l.slope)) -> DNAN
                    [] ~IsNan(x) /\ ~IsNan(l.intercept) /\ IsNan(c) ->
                           InitSeasonality(m, x, l.intercept)
                    [] OTHER -> Seasonality(m, x, h.intercept, c)
             ELSE CASE IsNan(x) -> c
                    [] ~IsNan(x) /\ (IsNan(h.intercept) \/ IsNan(h.slope)) -> Identity(m)
                    [] ~IsNan(x) /\ ~IsNan(h.intercept) /\ IsNan(c) ->
                           InitSeasonality(m, x, h.intercept)
                    [] OTHER -> Seasonality(m, x, Intercept(m, x, c, h), c)
    IN  [Shift(r, SEA, coef) EXCEPT !.val[SEA] = v]

UpdateDevpredict(r) == [r EXCEPT !.val[DEVP] = Seen(r, DEV, DEVP)]

Deviation(p, x, d) ==
    CASE IsNan(p) -> DNAN
      [] ~IsNan(p) /\ IsNan(x) -> d
      [] ~IsNan(p) /\ ~IsNan(x) /\ IsNan(d) -> Distance(p, x)
      [] OTHER -> Mean(Distance(p, x), d)

UpdateDevseasonal(r, x, coef) ==
    LET p == PredictOrNan(r.method, HwSeen(r, DEV), Seen(r, SEA, DEV))
    IN  [Shift(r, DEV, coef) EXCEPT !.val[DEV] = Deviation(p, x, r.sea[DEV].now)]

\* Whether DEVSEASONAL has been updated is read off the place of SEASONAL.
UpdateFailures(r, x) ==
    LET d == IF Before(r, FAIL, SEA) THEN r.sea[DEV].now ELSE r.sea[DEV].last
        h == HwSeen(r, FAIL)
        p == Predict(r.method, h.intercept, h.slope, h.null_count, Seen(r, SEA, FAIL))
        v == IF ~IsNan(d) /\ (IsNan(x) \/ IsViolation(x, p, d)) THEN 1 ELSE 0
        w == <<v>> \o SubSeq(r.violations, 1, r.window[1] - 1)
    IN  [r EXCEPT !.violations = w \o SubSeq(r.violations, r.window[1] + 1, Len(r.violations)),
                  !.val[FAIL] = Num(IF FoldLeft(+, 0, w) < r.window[2] THEN 0 ELSE 1)]

\* A slip to guard against: the window keeps the violation that leaves it.
EraseNothing(v, len) == v

\* erase_violations clears the window, not what is beyond it.
Erase(v, len) == [i \in DOMAIN v |-> IF i <= len THEN 0 ELSE v[i]]

-----------------------------------------------------------------------------
(* rrd_update.c                                                            *)

LookupSeasonal(r, cf, offset) == r.rows[cf][(r.cur[cf] + offset) % RowCnt]

UpdateAberrantCF(r, cf, x, coef) ==
    CASE cf = HW -> UpdateHwpredict(r, x)
      [] cf = SEA -> UpdateSeasonal(r, x, coef)
      [] cf = DEV -> UpdateDevseasonal(r, x, coef)
      [] cf = DEVP -> UpdateDevpredict(r)
      [] cf = FAIL -> UpdateFailures(r, x)

\* One turn of the loop of update_aberrant_cdps.
Turn(r, x, offset) ==
    FoldLeft(LAMBDA s, cf : UpdateAberrantCF(s, cf, x,
                 IF cf \in {SEA, DEV} THEN LookupSeasonal(s, cf, offset) ELSE DNAN), r, r.order)

\* The row for the value after e steps, counted from the row before them.
NextRow(e) == e + 1

\* reset_cdp, for more than two steps.
ResetCdp(r, e) ==
    [r EXCEPT !.sea = [cf \in {SEA, DEV} |-> [now |-> LookupSeasonal(r, cf, NextRow(e)),
                                              last |-> LookupSeasonal(r, cf, e)]],
              !.hw.null_count = @ + e,
              !.hw_last.null_count = @ + e - 1,
              !.violations = Erase(@, r.window[1])]

DoScheduleSmooth(r, cf, e) == ScheduleSmooth(r.cur[cf], RowCnt, r.smooth_idx, r.init[cf], e)

\* The coefficients of SEASONAL go around the baseline, which HWPREDICT takes over.
ApplySmoother(r, cf) ==
    LET v == MovingAverage(r.rows[cf], r.offset)
        base == Average(v)
    IN  IF r.offset = 0 \/ \E i \in DOMAIN r.rows[cf] : IsNan(r.rows[cf][i]) THEN r
        ELSE IF cf = DEV THEN [r EXCEPT !.rows[DEV] = v]
        ELSE [r EXCEPT !.rows[SEA] = [i \in DOMAIN v |-> InitSeasonality(r.method, v[i], base)],
                       !.hw.intercept = Plus(@, base)]

SmoothAllRras(r) ==
    FoldLeft(LAMBDA s, cf : IF cf \in {SEA, DEV} THEN ApplySmoother(s, cf) ELSE s, r, r.order)

\* write_to_rras: skip_update for SEASONAL and DEVSEASONAL after more than one step.
WriteSeasonal(r, e) ==
    [r EXCEPT !.cur = [cf \in {SEA, DEV} |-> (r.cur[cf] + e) % RowCnt],
              !.rows = [cf \in {SEA, DEV} |->
                  IF e > 1 THEN r.rows[cf]
                  ELSE [r.rows[cf] EXCEPT ![(r.cur[cf] + e) % RowCnt] = r.val[cf]]]]

Advanced(r, x, e) ==
    LET due == [cf \in {SEA, DEV} |-> DoScheduleSmooth(r, cf, e)]
        s == [r EXCEPT !.init = [cf \in {SEA, DEV} |-> due[cf].init]]
        one == Turn(s, x, NextRow(e))
        two == Turn(one, x, NextRow(e) + 1)
        new == CASE e = 1 -> one [] e = 2 -> two [] OTHER -> ResetCdp(s, e)
        done == WriteSeasonal(new, e)
        rows(cf) == CASE e = 1 -> <<one.val[cf]>>
                      [] e = 2 -> <<one.val[cf], two.val[cf]>>
                      [] OTHER -> [i \in 1 .. e |-> IF cf = FAIL THEN Num(0) ELSE DNAN]
    IN  [rrd |-> IF due[SEA].due \/ due[DEV].due THEN SmoothAllRras(done) ELSE done,
         out |-> [cf \in CFs \ {SEA, DEV} |-> rows(cf)]]

-----------------------------------------------------------------------------
(* The reference: the model of a series that everything is defined by, one *)
(* value after the other, without archives that see each other change.     *)

RefValue(s, x) ==
    LET m == s.method
        c == s.next[SEA]
        d == s.next[DEV]
        p == PredictOrNan(m, s.hw, c)
        h == Learn(m, s.hw, c, x)
        c2 == CASE IsNan(x) -> c
                [] ~IsNan(x) /\ IsNan(s.hw.intercept) -> Identity(m)
                [] ~IsNan(x) /\ ~IsNan(s.hw.intercept) /\ IsNan(c) ->
                       InitSeasonality(m, x, s.hw.intercept)
                [] OTHER -> Seasonality(m, x, h.intercept, c)
        at == [cf \in {SEA, DEV} |-> (s.cur[cf] + 1) % RowCnt]
        rows == [cf \in {SEA, DEV} |-> [s.rows[cf] EXCEPT
                    ![at[cf]] = IF cf = SEA THEN c2 ELSE Deviation(p, x, d)]]
        bad == ~IsNan(d) /\ (IsNan(x) \/ IsViolation(x, p, d))
    IN  [s EXCEPT !.hw = h, !.rows = rows, !.cur = at,
                  !.next = [cf \in {SEA, DEV} |-> rows[cf][(at[cf] + 1) % RowCnt]],
                  !.log = <<IF bad THEN 1 ELSE 0>> \o @,
                  !.out = [HWPREDICT |-> <<p>>, DEVPREDICT |-> <<d>>]]

RefBulk(s, e) ==
    LET at == [cf \in {SEA, DEV} |-> (s.cur[cf] + e) % RowCnt]
        none == [i \in 1 .. e |-> DNAN]
    IN  [s EXCEPT !.hw.null_count = @ + e, !.cur = at, !.log = <<>>,
                  !.next = [cf \in {SEA, DEV} |-> s.rows[cf][(at[cf] + 1) % RowCnt]],
                  !.out = [HWPREDICT |-> none, DEVPREDICT |-> none]]

\* A row passes the end of the season, or after the burn-in the smoothing row.
RefDue(s, cf, e) ==
    \E k \in 1 .. e : (s.cur[cf] + k) % RowCnt =
                          IF s.init[cf] > BURNIN_CYCLES THEN s.smooth_idx ELSE 0

\* After an update of exactly two steps the reference makes no claim any more.
RefNext(s, x, e) ==
    LET due == [cf \in {SEA, DEV} |-> RefDue(s, cf, e)]
        t == [IF e = 1 THEN RefValue(s, x) ELSE RefBulk(s, e) EXCEPT
                 !.lost = e = 2,
                 !.init = [cf \in {SEA, DEV} |->
                     IF due[cf] /\ @[cf] <= BURNIN_CYCLES THEN @[cf] + 1 ELSE @[cf]]]
    IN  IF due[SEA] \/ due[DEV] THEN ApplySmoother(ApplySmoother(t, SEA), DEV) ELSE t

-----------------------------------------------------------------------------
Unknown == [i \in 0 .. RowCnt - 1 |-> DNAN]
Both(v) == [cf \in {SEA, DEV} |-> v]

Init ==
    /\ n = 0
    /\ out = [cf \in CFs \ {SEA, DEV} |-> <<>>]
    /\ \E f \in Files :
          LET start == [hw |-> IF f.known THEN [intercept |-> Num(1), slope |-> Num(0),
                                                null_count |-> 1]
                               ELSE InitHwpredict,
                        next |-> IF f.known THEN (SEA :> Identity(f.method) @@ DEV :> Num(1))
                                 ELSE Both(DNAN)]
              common == [method |-> f.method, offset |-> f.offset, smooth_idx |-> f.smooth_idx,
                         rows |-> [cf \in {SEA, DEV} |-> [i \in DOMAIN Unknown |-> start.next[cf]]],
                         cur |-> (SEA :> 0 @@ DEV :> RowCnt - 1),
                         init |-> Both(f.init), hw |-> start.hw]
          IN  /\ rrd = common @@ [order |-> f.order, hw_last |-> start.hw, window |-> f.window,
                                  sea |-> [cf \in {SEA, DEV} |-> [now |-> start.next[cf],
                                                                  last |-> start.next[cf]]],
                                  val |-> [cf \in CFs |-> DNAN],
                                  violations |-> [j \in 1 .. Max(Lengths) |-> 0]]
              /\ ref = common @@ [next |-> start.next, log |-> <<>>, lost |-> FALSE,
                                  out |-> [HWPREDICT |-> <<>>, DEVPREDICT |-> <<>>]]

Update(x, e) ==
    /\ n < MaxUpdates /\ n' = n + 1 /\ ~ref.lost
    /\ LET a == Advanced(rrd, x, e) IN rrd' = a.rrd /\ out' = a.out
    /\ ref' = RefNext(ref, x, e)

\* rrd_tune, set_windowarg: the violations seen so far are dropped.
TuneWindow(w) ==
    /\ n < MaxUpdates /\ n' = n + 1 /\ ~ref.lost /\ w # rrd.window
    /\ rrd' = [rrd EXCEPT !.window = w, !.violations = Erase(@, w[1])]
    /\ ref' = [ref EXCEPT !.log = <<>>]
    /\ UNCHANGED out

\* rrd_tune, reset_aberrant_coefficients: the burn-in goes on.
AberrantReset ==
    /\ n < MaxUpdates /\ n' = n + 1 /\ ~ref.lost
    /\ rrd' = [rrd EXCEPT !.hw = InitHwpredict, !.hw_last = InitHwpredict,
                          !.sea = Both(InitSeasonal), !.rows = Both(Unknown),
                          !.violations = Erase(@, rrd.window[1])]
    /\ ref' = [ref EXCEPT !.hw = InitHwpredict, !.rows = Both(Unknown), !.next = Both(DNAN),
                          !.log = <<>>]
    /\ UNCHANGED out

Next ==
    \/ \E x \in Observed, e \in Elapsed : Update(x, e)
    \/ \E l \in Lengths : TuneWindow(<<l, rrd.window[2]>>)
    \/ \E t \in Thresholds : TuneWindow(<<rrd.window[1], t>>)
    \/ AberrantReset

Spec == Init /\ [][Next]_vars

-----------------------------------------------------------------------------
(* Properties                                                              *)

\* The order of the archives in the file makes no difference, and updates of
\* many steps, resets and smoothing keep them in step: every archive holds what
\* the reference gives, and the seasonal coefficients "are correct for the next
\* observed value" (update_all_cdp_prep).  Left out, because the code goes wrong
\* there: FAILURES between SEASONAL and DEVSEASONAL (update_failures), and an
\* update of exactly two steps, after which update_aberrant_cdps has looked the
\* coefficients up one row too far.
OrderIrrelevant ==
    ~ref.lost =>
        /\ rrd.rows = ref.rows /\ rrd.cur = ref.cur /\ rrd.hw = ref.hw
        /\ \A cf \in {SEA, DEV} : rrd.sea[cf].now = ref.next[cf]
        /\ out[HW] = ref.out[HW] /\ out[DEVP] = ref.out[DEVP]

\* FAILURES is 1 if and only if as many of the last observations as the threshold
\* says were violations; a bulk update, a change of the window or a reset forgets
\* the older ones, so a longer window never counts violations it had dropped.
FailureWindow ==
    LET counted == SubSeq(ref.log, 1, IF Len(ref.log) < rrd.window[1] THEN Len(ref.log)
                                      ELSE rrd.window[1])
    IN  counted # <<>> =>
            (out[FAIL] = <<Num(1)>> <=> FoldLeft(+, 0, counted) >= rrd.window[2])
=============================================================================
