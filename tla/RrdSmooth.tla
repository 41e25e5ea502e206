----------------------------- MODULE RrdSmooth ------------------------------
(***************************************************************************)
(* The smoothing of SEASONAL and DEVSEASONAL archives: when an update is   *)
(* due for it (do_schedule_smooth), and what it makes of the rows of one   *)
(* data source (apply_smoother).  Both go by the place of a row in the     *)
(* file, not by its age.                                                   *)
(***************************************************************************)
EXTENDS ExtRationals
LOCAL INSTANCE Integers
LOCAL INSTANCE Sequences
LOCAL INSTANCE FiniteSets
LOCAL INSTANCE SequencesExt

BURNIN_CYCLES == 3

\* do_schedule_smooth for e steps: [due, init], with init_seasonal counted on when a
\* season of the burn-in ends.
ScheduleSmooth(cur_row, row_cnt, smooth_idx, init, e) ==
    LET to == cur_row + e
    IN  IF init > BURNIN_CYCLES
        THEN [init |-> init,
              due |-> IF smooth_idx > cur_row THEN to >= smooth_idx
                      ELSE to >= row_cnt + smooth_idx]
        ELSE [init |-> init + (IF to >= row_cnt THEN 1 ELSE 0), due |-> to >= row_cnt]

\* apply_smoother: the moving average is put into the array it is taken from.
MovingAverage(v, offset) ==
    LET n == Cardinality(DOMAIN v)
        width == 2 * offset + 1
        at(i) == (i - offset) % n
        less(x, y) == Plus(x, Times(Num(-1), y))
        first == [i \in 1 .. width - 1 |-> v[at(i - 1)]]
        step(s, i) == LET sum == Plus(s.sum, s.v[i % n])
                      IN  [v |-> [s.v EXCEPT ![at(i)] = Over(sum, Num(width))],
                           sum |-> less(sum, Head(s.queue)),
                           queue |-> Append(Tail(s.queue), s.v[i % n])]
    IN  FoldLeft(step, [v |-> v, sum |-> FoldLeft(Plus, Num(0), first), queue |-> first],
                 [k \in 1 .. n |-> offset + k - 1]).v

\* baseline
Average(v) ==
    LET n == Cardinality(DOMAIN v)
    IN  Over(FoldLeft(Plus, Num(0), [i \in 1 .. n |-> v[i - 1]]), Num(n))

\* hw_additive_init_seasonality, hw_multiplicative_init_seasonality
InitSeasonality(m, x, intercept) ==
    CASE m = "additive" -> Plus(x, Times(Num(-1), intercept))
      [] m # "additive" /\ Less(Num(0), intercept) -> Over(x, intercept)
      [] OTHER -> DNAN
=============================================================================
