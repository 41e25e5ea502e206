------------------------------- MODULE RrdFile -------------------------------
(***************************************************************************)
(* An RRD file and what changes it: rrd_create, rrd_update and rrd_resize. *)
(* The file is mapped into memory (HAVE_MMAP), so that a change to the     *)
(* header is a change of the file.  Times are whole seconds (files of a    *)
(* version before 3 have no others).  Data sources are GAUGE, COUNTER,     *)
(* DERIVE or ABSOLUTE, archives AVERAGE, MINIMUM, MAXIMUM or LAST.         *)
(***************************************************************************)
EXTENDS RraRing, ExtRationals, FiniteSets, Folds, Sequences

CONSTANTS
    DataSources,    \* ds_def: a sequence of [type, mrhb, min, max]
    Archives,       \* rra_def: a sequence of [cf, pdp_cnt, row_cnt, xff]
    PdpStep,        \* pdp_step
    Inputs,         \* what an update may say: a reading for each data source
    StartTimes,     \* last_up of a new file
    Random,         \* what rrd_random may return
    MaxTime,        \* bound on the time of an update
    MaxUpdates,     \* bound on the number of updates
    MaxResizes,     \* bound on the number of resizes
    MaxResize,      \* bound on the rows added or removed at once
    W32, W64        \* 2^32 and 2^64, where counters wrap

DS == DOMAIN DataSources
RRAs == DOMAIN Archives

\* A reading is a number, U, or text without digits.
Reading == [kind : {"U", "num", "bad"}, num : Int]
U == [kind |-> "U", num |-> 0]

ASSUME FileAssumption ==
    /\ PdpStep \in Nat \ {0} /\ MaxTime \in Nat /\ MaxResize \in Nat
    /\ W32 \in Nat /\ W64 \in Nat
    /\ DataSources \in Seq([type : {"GAUGE", "COUNTER", "DERIVE", "ABSOLUTE"},
                            mrhb : Nat, min : Int \X Nat, max : Int \X Nat])
    /\ Archives \in Seq([cf : {"AVERAGE", "MINIMUM", "MAXIMUM", "LAST"},
                         pdp_cnt : Nat \ {0}, row_cnt : Nat \ {0},
                         xff : Nat \X (Nat \ {0})])
    /\ \A i \in RRAs : Archives[i].xff[1] < Archives[i].xff[2]
    /\ Inputs \subseteq [DS -> Reading]
    /\ StartTimes \subseteq Nat /\ Random \subseteq Nat

VARIABLES
    last_up,    \* live_head->last_up
    pdp_prep,   \* for each data source: last_ds, PDP_unkn_sec_cnt, PDP_val
    cdp_prep,   \* for each archive and data source: the CDP scratch area
    cur_row,    \* rra_ptr[].cur_row
    row_cnt,    \* rra_def[].row_cnt
    rows,       \* the rows of each archive
    todo,       \* rra_step_cnt: rows an update in progress has yet to write
    begun,      \* archives that have got their first row in this update
    now,        \* current_time of the update in progress
    seconds,    \* history: the rate of each data source during each second
    pdps,       \* history: the primary data points
    depth,      \* history: for how many rows each archive reaches back
    updates, resizes

headVars == <<pdp_prep, cdp_prep>>
ringVars == <<cur_row, row_cnt, rows>>
loopVars == <<todo, begun, now>>
histVars == <<seconds, pdps, depth>>
vars == <<last_up, headVars, ringVars, loopVars, histVars, updates, resizes>>

Idle == \A i \in RRAs : todo[i] = 0

UnknownRow == [d \in DS |-> DNAN]

-----------------------------------------------------------------------------
(* rrd_create_fn                                                           *)

\* PDPs of the running consolidation that lie before the file was created.
MissingPdps(i, t) ==
    ((t - (t % PdpStep)) % (PdpStep * Archives[i].pdp_cnt)) \div PdpStep

Init ==
    /\ last_up \in StartTimes
    /\ pdp_prep = [d \in DS |-> [last_ds |-> U, unkn |-> last_up % PdpStep, val |-> Num(0)]]
    /\ cdp_prep = [i \in RRAs |-> [d \in DS |->
                     [val |-> DNAN, unkn |-> MissingPdps(i, last_up),
                      primary |-> Num(0), secondary |-> Num(0)]]]
    /\ row_cnt = [i \in RRAs |-> Archives[i].row_cnt]
    /\ \E random \in [RRAs -> Random] :    \* rrd_select_initial_row
          cur_row = [i \in RRAs |-> random[i] % row_cnt[i]]
    /\ rows = [i \in RRAs |-> [r \in 0..(row_cnt[i] - 1) |-> UnknownRow]]
    /\ todo = [i \in RRAs |-> 0] /\ begun = {} /\ now = last_up
    /\ seconds = [d \in DS |-> [s \in 1..MaxTime |-> DNAN]]
    /\ pdps = [d \in DS |-> [p \in 1..(MaxTime \div PdpStep) |-> DNAN]]
    /\ depth = row_cnt
    /\ updates = 0 /\ resizes = 0

-----------------------------------------------------------------------------
(* update_pdp_prep                                                         *)

\* Is the interval within the heartbeat of data source d?
Alive(d, interval) == DataSources[d].mrhb >= interval

\* The "simple overflow catcher" for counters of 32 and 64 bits.
CounterDiff(diff) ==
    LET wrapped == IF diff < 0 THEN diff + W32 ELSE diff
    IN  IF wrapped < 0 THEN wrapped + (W64 - W32) ELSE wrapped

\* rrd_diff works on digits and "can not handle numbers with different signs".
Comparable(reading, last) == last.kind = "num" /\ (reading.num < 0 <=> last.num < 0)

\* rate * time of a reading, before the limits are looked at.
Amount(d, reading, interval) ==
    LET last == pdp_prep[d].last_ds
        diff == reading.num - last.num
        type == DataSources[d].type
    IN  CASE type = "GAUGE" -> Num(reading.num * interval)
          [] type = "ABSOLUTE" -> Num(reading.num)
          [] type \in {"COUNTER", "DERIVE"} ->
                IF ~Comparable(reading, last) THEN DNAN
                ELSE Num(IF type = "COUNTER" THEN CounterDiff(diff) ELSE diff)

\* pdp_new: rate * time since the last update, or unknown.
PdpNew(d, reading, interval) ==
    LET amount == Amount(d, reading, interval)
        rate == Over(amount, Num(interval))
    IN  IF \/ reading.kind = "U" \/ ~Alive(d, interval)
           \/ Less(DataSources[d].max, rate) \/ Less(rate, DataSources[d].min)
        THEN DNAN ELSE amount

\* The conversion of the reading fails; it is tried only if it is needed.  A
\* counter has no sign.
Rejected(d, reading, interval) ==
    /\ Alive(d, interval)
    /\ \/ reading.kind = "bad"
       \/ DataSources[d].type = "COUNTER" /\ reading.num < 0

-----------------------------------------------------------------------------
(* calculate_elapsed_steps                                                 *)

PdpStart(t) == t - (t % PdpStep)
Elapsed(t) == (PdpStart(t) - PdpStart(last_up)) \div PdpStep

-----------------------------------------------------------------------------
(* simple_update and process_pdp_st                                        *)

\* A slip to guard against: unknown seconds within a step are not counted.
SimpleUpdateKnown(d, new, interval) ==
    IF IsNan(new) THEN pdp_prep[d]
    ELSE [pdp_prep[d] EXCEPT !.val = IF IsNan(@) THEN new ELSE Plus(@, new)]

\* No PDP is complete: the reading is added to what is prepared.
SimpleUpdate(d, new, interval) ==
    LET prep == pdp_prep[d]
    IN  IF IsNan(new) THEN [prep EXCEPT !.unkn = @ + interval]
        ELSE [prep EXCEPT !.val = IF IsNan(@) THEN new ELSE Plus(@, new)]

\* The part of new that falls into a part of the interval.
Share(new, interval, part) == Over(Times(new, Num(part)), Num(interval))

\* A slip to guard against: the tail of unknown seconds counts as known.
PdpTempWithoutTail(d, new, interval, t) ==
    LET prep == pdp_prep[d]
        val  == IF IsNan(new) THEN prep.val
                ELSE Plus(IfNan(prep.val, Num(0)),
                          Share(new, interval, PdpStart(t) - last_up))
    IN  IF interval > DataSources[d].mrhb \/ PdpStep < 2 * prep.unkn THEN DNAN
        ELSE Over(val, Num(Elapsed(t) * PdpStep - prep.unkn))

\* pdp_temp: the rate of the PDPs that end between last_up and t.
PdpTemp(d, new, interval, t) ==
    LET prep == pdp_prep[d]
        pre  == PdpStart(t) - last_up
        val  == IF IsNan(new) THEN prep.val
                ELSE Plus(IfNan(prep.val, Num(0)), Share(new, interval, pre))
        preUnknown == IF IsNan(new) THEN pre ELSE 0
    IN  IF interval > DataSources[d].mrhb \/ PdpStep < 2 * prep.unkn THEN DNAN
        ELSE Over(val, Num(Elapsed(t) * PdpStep - prep.unkn - preUnknown))

\* pdp_prep is made ready for the next run.
PdpCarried(d, new, interval, t) ==
    LET post == t % PdpStep
    IN  [pdp_prep[d] EXCEPT
            !.unkn = IF IsNan(new) THEN post ELSE 0,
            !.val  = IF IsNan(new) THEN DNAN ELSE Share(new, interval, post)]

-----------------------------------------------------------------------------
(* update_all_cdp_prep                                                     *)

\* PDPs that are missing to complete the first row.
StartPdpOffset(i) ==
    LET cnt == Archives[i].pdp_cnt
    IN  cnt - ((PdpStart(last_up) \div PdpStep) % cnt)

\* rra_step_cnt: rows to be written.
RraStepCnt(i, elapsed) ==
    LET offset == StartPdpOffset(i)
    IN  IF offset <= elapsed THEN (elapsed - offset) \div Archives[i].pdp_cnt + 1 ELSE 0

\* initialize_cdp_val: the first row, from what is prepared and the new rate.
InitializeCdpVal(i, c, unkn, temp) ==
    LET pick(better(_, _), worst) ==
            LET cum == IfNan(c.val, worst)
                cur == IfNan(temp, worst)
            IN  IF better(cur, cum) THEN cur ELSE cum
    IN  CASE Archives[i].cf = "AVERAGE" ->
                Over(Plus(IfNan(c.val, Num(0)),
                          Times(IfNan(temp, Num(0)), Num(StartPdpOffset(i)))),
                     Num(Archives[i].pdp_cnt - unkn))
          [] Archives[i].cf = "MAXIMUM" -> pick(LAMBDA x, y : Less(y, x), NegDINF)
          [] Archives[i].cf = "MINIMUM" -> pick(Less, DINF)
          [] Archives[i].cf = "LAST" -> temp

\* PDPs after the last row to be written.
CarriedPdps(i, elapsed) == (elapsed - StartPdpOffset(i)) % Archives[i].pdp_cnt

\* initialize_carry_over: what the next row starts with.
InitializeCarryOver(i, temp, elapsed) ==
    LET carried == CarriedPdps(i, elapsed)
        cf == Archives[i].cf
    IN  IF carried = 0 \/ IsNan(temp)
        THEN CASE cf = "MAXIMUM" -> NegDINF [] cf = "MINIMUM" -> DINF
               [] cf = "AVERAGE" -> Num(0)  [] cf = "LAST" -> DNAN
        ELSE IF cf = "AVERAGE" THEN Times(temp, Num(carried)) ELSE temp

\* calculate_cdp_val: the new rate is added to what is prepared.
CalculateCdpVal(i, val, temp, elapsed) ==
    LET cf == Archives[i].cf
        total == Times(temp, Num(elapsed))
    IN  CASE cf = "AVERAGE" -> IF IsNan(val) THEN total ELSE Plus(val, total)
          [] cf = "MINIMUM" -> IF IsNan(val) \/ Less(temp, val) THEN temp ELSE val
          [] cf = "MAXIMUM" -> IF IsNan(val) \/ Less(val, temp) THEN temp ELSE val
          [] cf = "LAST" -> temp

\* A slip to guard against: unknown PDPs carry over from row to row.
CdpWithRowNoReset(i, c, temp, elapsed) ==
    LET unkn == IF IsNan(temp) THEN c.unkn + StartPdpOffset(i) ELSE c.unkn
    IN  [val |-> InitializeCarryOver(i, temp, elapsed), unkn |-> unkn,
         primary |-> IF Less(Times(Num(Archives[i].pdp_cnt), Archives[i].xff), Num(unkn))
                     THEN DNAN ELSE InitializeCdpVal(i, c, unkn, temp),
         secondary |-> temp]

\* update_cdp, when at least one row will be written.
CdpWithRow(i, c, temp, elapsed) ==
    LET unkn == IF IsNan(temp) THEN c.unkn + StartPdpOffset(i) ELSE c.unkn
    IN  [val |-> InitializeCarryOver(i, temp, elapsed),
         unkn |-> IF IsNan(temp) THEN CarriedPdps(i, elapsed) ELSE 0,
         primary |-> IF Less(Times(Num(Archives[i].pdp_cnt), Archives[i].xff), Num(unkn))
                     THEN DNAN ELSE InitializeCdpVal(i, c, unkn, temp),
         secondary |-> temp]

\* update_cdp, when no row is complete.
CdpWithoutRow(i, c, temp, elapsed) ==
    IF IsNan(temp) THEN [c EXCEPT !.unkn = @ + elapsed]
    ELSE [c EXCEPT !.val = CalculateCdpVal(i, @, temp, elapsed)]

\* An archive of single PDPs: reset_cdp for more than two rows, otherwise
\* update_aberrant_CF.
CdpSingle(c, temp, elapsed) ==
    [c EXCEPT !.primary = temp, !.secondary = IF elapsed > 1 THEN temp ELSE @]

UpdateCdp(i, c, temp, elapsed) ==
    IF Archives[i].pdp_cnt = 1 THEN CdpSingle(c, temp, elapsed)
    ELSE IF RraStepCnt(i, elapsed) > 0 THEN CdpWithRow(i, c, temp, elapsed)
    ELSE CdpWithoutRow(i, c, temp, elapsed)

-----------------------------------------------------------------------------
(* process_arg                                                             *)

\* History: the rate of the seconds between two updates, and the new PDPs.
Remember(new, interval, t, temp) ==
    /\ seconds' = [d \in DS |-> [s \in 1..MaxTime |->
                      IF s \in (last_up + 1)..t THEN Over(new[d], Num(interval))
                      ELSE seconds[d][s]]]
    /\ pdps' = [d \in DS |-> [p \in 1..(MaxTime \div PdpStep) |->
                   IF p * PdpStep \in (PdpStart(last_up) + 1)..t THEN temp[d]
                   ELSE pdps[d][p]]]

\* A reading cannot be converted.  What was done for the data sources before it
\* stays.
ArgFails ==
    \E t \in (last_up + 1)..MaxTime, u \in Inputs :
        LET interval == t - last_up
            bad == {d \in DS : Rejected(d, u[d], interval)}
        IN
        /\ Idle /\ updates < MaxUpdates /\ updates' = updates + 1
        /\ bad # {}
        /\ pdp_prep' = [d \in DS |-> IF \E b \in bad : b <= d THEN pdp_prep[d]
                                     ELSE [pdp_prep[d] EXCEPT !.last_ds = u[d]]]
        /\ UNCHANGED <<last_up, cdp_prep, ringVars, loopVars, histVars, resizes>>

\* No PDP has been completed since the last update.
ArgWithinStep ==
    \E t \in (last_up + 1)..MaxTime, u \in Inputs :
        LET interval == t - last_up
            new == [d \in DS |-> PdpNew(d, u[d], interval)]
        IN
        /\ Idle /\ updates < MaxUpdates /\ updates' = updates + 1
        /\ \A d \in DS : ~Rejected(d, u[d], interval)
        /\ Elapsed(t) = 0
        /\ pdp_prep' = [d \in DS |-> [SimpleUpdate(d, new[d], interval)
                                      EXCEPT !.last_ds = u[d]]]
        /\ last_up' = t
        /\ now' = t
        /\ Remember(new, interval, t, new)
        /\ UNCHANGED <<cdp_prep, ringVars, todo, begun, depth, resizes>>

\* PDPs are complete.  The rows are written next; if there are none, the update
\* is done.
ArgCompletesPdps ==
    \E t \in (last_up + 1)..MaxTime, u \in Inputs :
        LET interval == t - last_up
            elapsed == Elapsed(t)
            new == [d \in DS |-> PdpNew(d, u[d], interval)]
            temp == [d \in DS |-> PdpTemp(d, new[d], interval, t)]
        IN
        /\ Idle /\ updates < MaxUpdates /\ updates' = updates + 1
        /\ \A d \in DS : ~Rejected(d, u[d], interval)
        /\ elapsed > 0
        /\ pdp_prep' = [d \in DS |-> [PdpCarried(d, new[d], interval, t)
                                      EXCEPT !.last_ds = u[d]]]
        /\ cdp_prep' = [i \in RRAs |-> [d \in DS |->
                           UpdateCdp(i, cdp_prep[i][d], temp[d], elapsed)]]
        /\ todo' = [i \in RRAs |-> RraStepCnt(i, elapsed)]
        /\ begun' = {} /\ now' = t
        /\ last_up' = IF \A i \in RRAs : todo'[i] = 0 THEN t ELSE last_up
        /\ Remember(new, interval, t, temp)
        /\ UNCHANGED <<ringVars, depth, resizes>>

\* write_to_rras: archive after archive, the first row from CDP_primary_val and
\* the others from CDP_secondary_val.  last_up follows after the last row.
WriteRow ==
    \E i \in RRAs :
        LET next == NextRow(cur_row[i], row_cnt[i])
            row == [d \in DS |-> IF i \in begun THEN cdp_prep[i][d].secondary
                                 ELSE cdp_prep[i][d].primary]
        IN
        /\ todo[i] > 0 /\ \A j \in RRAs : j < i => todo[j] = 0
        /\ cur_row' = [cur_row EXCEPT ![i] = next]
        /\ rows' = [rows EXCEPT ![i] = [@ EXCEPT ![next] = row]]
        /\ todo' = [todo EXCEPT ![i] = @ - 1]
        /\ begun' = begun \cup {i}
        /\ last_up' = IF \A j \in RRAs : todo'[j] = 0 THEN now ELSE last_up
        /\ depth' = [depth EXCEPT ![i] = IF @ < row_cnt[i] THEN @ + 1 ELSE @]
        /\ UNCHANGED <<headVars, row_cnt, now, seconds, pdps, updates, resizes>>

-----------------------------------------------------------------------------
(* rrd_resize (resize.rrd then takes the place of the file)                *)

Grow ==
    \E i \in RRAs, m \in 1..MaxResize :
        /\ Idle /\ resizes < MaxResizes /\ resizes' = resizes + 1
        /\ rows' = [rows EXCEPT ![i] = GrownRows(@, cur_row[i], row_cnt[i], m, UnknownRow)]
        /\ row_cnt' = [row_cnt EXCEPT ![i] = @ + m]
        /\ UNCHANGED <<last_up, headVars, cur_row, loopVars, histVars, updates>>

Shrink ==
    \E i \in RRAs, m \in 1..MaxResize :
        /\ Idle /\ resizes < MaxResizes /\ resizes' = resizes + 1
        /\ m < row_cnt[i]
        /\ rows' = [rows EXCEPT ![i] = ShrunkRows(@, cur_row[i], row_cnt[i], m)]
        /\ cur_row' = [cur_row EXCEPT ![i] = ShrunkCur(@, row_cnt[i], m)]
        /\ row_cnt' = [row_cnt EXCEPT ![i] = @ - m]
        /\ depth' = [depth EXCEPT ![i] = IF @ < row_cnt'[i] THEN @ ELSE row_cnt'[i]]
        /\ UNCHANGED <<last_up, headVars, loopVars, seconds, pdps, updates>>

Next == ArgFails \/ ArgWithinStep \/ ArgCompletesPdps \/ WriteRow \/ Grow \/ Shrink

Spec == Init /\ [][Next]_vars

-----------------------------------------------------------------------------
(* What the file should hold, from the history                             *)

Total(f, S) ==
    MapThenFoldSet(Plus, Num(0), LAMBDA x : f[x], LAMBDA T : CHOOSE x \in T : TRUE, S)

\* The seconds in S during which the rate of d is known.
KnownSeconds(d, S) == {s \in S : s \in DOMAIN seconds[d] /\ ~IsNan(seconds[d][s])}

\* The average of the rates in f over S, unknown if S is empty.
Mean(f, S) == Over(Total(f, S), Num(Cardinality(S)))

\* The time one row of archive i stands for, and when its newest row ended.
RowStep(i) == PdpStep * Archives[i].pdp_cnt
CalEnd(i) == last_up - (last_up % RowStep(i))

\* The row of archive i that ends at time t, consolidated from its PDPs.
Consolidated(i, d, t) ==
    LET slot  == {p \in DOMAIN pdps[d] : p * PdpStep \in (t - RowStep(i) + 1)..t}
        known == {p \in slot : ~IsNan(pdps[d][p])}
        unkn  == Archives[i].pdp_cnt - Cardinality(known)
        best(better(_, _)) ==
            LET p == CHOOSE q \in known : \A r \in known : ~better(pdps[d][r], pdps[d][q])
            IN  pdps[d][p]
        cf == Archives[i].cf
    IN  IF Less(Times(Num(Archives[i].pdp_cnt), Archives[i].xff), Num(unkn)) THEN DNAN
        ELSE CASE cf = "AVERAGE" -> Mean(pdps[d], known)
               [] cf = "MAXIMUM" -> best(LAMBDA x, y : Less(y, x))
               [] cf = "MINIMUM" -> best(Less)
               [] cf = "LAST" -> pdps[d][t \div PdpStep]

\* What archive i should say about the time t.
Expected(i, t) ==
    [d \in DS |-> IF t \in (CalEnd(i) - depth[i] * RowStep(i) + 1)..CalEnd(i)
                  THEN Consolidated(i, d, t) ELSE DNAN]

-----------------------------------------------------------------------------
(* Properties                                                              *)

\* Between two updates the preparation area accounts for every second since
\* the last full step: the unknown ones are counted, the rates of the others
\* summed up (simple_update, process_pdp_st).
PdpPrepSound ==
    Idle => \A d \in DS :
        LET since == (PdpStart(last_up) + 1)..last_up
            known == KnownSeconds(d, since)
        IN  /\ pdp_prep[d].unkn = Cardinality(since) - Cardinality(known)
            /\ IfNan(pdp_prep[d].val, Num(0)) = Total(seconds[d], known)

\* The primary data points an update completes are unknown, or the average of
\* all known seconds since the last full step (process_pdp_st).
PdpIsMean ==
    [][\A d \in DS : \A p \in DOMAIN pdps[d] :
          p * PdpStep \in (PdpStart(last_up) + 1)..now' /\ now' # now =>
            \/ IsNan(pdps'[d][p])
            \/ LET f == seconds'[d]
                   region == {s \in (PdpStart(last_up) + 1)..PdpStart(now') : ~IsNan(f[s])}
               IN  pdps'[d][p] = Mean(f, region)]_vars

\* Every row, counted back from the current one, is the consolidation of the
\* PDPs of its own time slot, however many steps the updates spanned, with
\* unknown PDPs up to the xff (update_cdp, write_to_rras).
RowsSound ==
    Idle => \A i \in RRAs : \A k \in 1..row_cnt[i] :
        NewestFirst(rows[i], cur_row[i], row_cnt[i])[k] =
            Expected(i, CalEnd(i) - (k - 1) * RowStep(i))

\* The rows of each archive, newest first.
Lists == [i \in RRAs |-> NewestFirst(rows[i], cur_row[i], row_cnt[i])]

RR == INSTANCE RoundRobin WITH Unknown <- UnknownRow, archive <- Lists

\* The cyclic rows of each archive, through updates and resizes, behave like a
\* list that keeps the newest rows (write_to_rras, rrd_resize).
KeepsNewestRows == RR!Spec
=============================================================================
