------------------------------ MODULE RrdFetch ------------------------------
(***************************************************************************)
(* rrd_fetch_fn: the archive that suits a wish best, and its rows between  *)
(* two points in time.                                                     *)
(***************************************************************************)
EXTENDS RrdFile

CONSTANT Wishes     \* a set of [cf, start, end, step]

ASSUME FetchAssumption ==
    /\ Wishes \subseteq [cf : {"AVERAGE", "MINIMUM", "MAXIMUM", "LAST"},
                         start : Nat, end : Nat, step : Nat \ {0}]
    /\ \A w \in Wishes : w.start <= w.end      \* rrd_fetch refuses any other

\* Archives with the consolidation function of the wish.
Candidates(w) == {i \in RRAs : Archives[i].cf = w.cf}

CalStart(i) == CalEnd(i) - RowStep(i) * row_cnt[i]

StepDiff(i, w) == IF w.step > RowStep(i) THEN w.step - RowStep(i) ELSE RowStep(i) - w.step

\* How much of the wished time an archive covers that starts too late.
PartMatch(i, w) == (w.end - w.start) - (CalStart(i) - w.start)

\* The first of the best archives that reach back far enough, or else the first
\* of the best of the others.
ChosenRra(w) ==
    LET full == {i \in Candidates(w) : CalStart(i) <= w.start}
        part == Candidates(w) \ full
        closer(i, j) == StepDiff(i, w) < StepDiff(j, w)
        longer(i, j) == \/ PartMatch(i, w) > PartMatch(j, w)
                        \/ PartMatch(i, w) = PartMatch(j, w) /\ closer(i, j)
        first(S, better(_, _)) ==
            CHOOSE i \in S : \A j \in S \ {i} :
                ~better(j, i) /\ (j < i => better(i, j))
    IN  IF full # {} THEN first(full, closer) ELSE first(part, longer)

\* A slip to guard against: "an error by one if we don't be careful".
StartOffsetUncareful(start, step, firstTime) == (start - firstTime) \div step

\* The first row to return, counted from the oldest row of the archive.
StartOffset(start, step, firstTime) == (start + step - firstTime) \div step

\* The wished start and end become multiples of the step.
RealStart(w, step) == w.start - (w.start % step)
RealEnd(w, step) == w.end + (step - (w.end % step))

\* rra_start_time: the time of the oldest row.
FirstTime(i) == CalEnd(i) - RowStep(i) * (row_cnt[i] - 1)

\* How many rows of the archive come before the row numbered first.
Skipped(first) == IF first <= 0 THEN 0 ELSE first

\* rra_pointer at the start; it stays 0 if the wish lies outside the archive.
RraPointer(i, start, end, first) ==
    IF start <= CalEnd(i) /\ end >= FirstTime(i) - RowStep(i)
    THEN (cur_row[i] + 1 + Skipped(first)) % row_cnt[i] ELSE 0

\* The rows of archive i from the one numbered first on, n of them.  The pointer
\* moves only inside the archive.
Window(i, first, n, pointer) ==
    [k \in 1..n |->
        LET at == first + k - 1
        IN  IF at \notin 0..(row_cnt[i] - 1) THEN UnknownRow
            ELSE rows[i][(pointer + at - Skipped(first)) % row_cnt[i]]]

\* The real values of the wish, how many rows there is room for, and the rows.
Fetched(w, i) ==
    LET step  == RowStep(i)
        start == RealStart(w, step)
        end   == RealEnd(w, step)
        first == StartOffset(start, step, FirstTime(i))
        last  == row_cnt[i] - (CalEnd(i) - end) \div step
    IN  [start |-> start, end |-> end, step |-> step,
         room |-> (end - start) \div step + 1,
         data |-> Window(i, first, last - first, RraPointer(i, start, end, first))]

\* For every wish an archive can answer, the rows returned cover the wished
\* time, fit into the memory allocated for them, and each is the consolidation
\* of the PDPs of the time it is returned for, or unknown outside the archive
\* (rrd_fetch_fn).
FetchSound ==
    Idle => \A w \in {x \in Wishes : Candidates(x) # {}} : \A i \in {ChosenRra(w)} :
        LET f == Fetched(w, i)
        IN  /\ f.start <= w.start /\ w.end < f.end
            /\ Len(f.data) * f.step = f.end - f.start
            /\ Len(f.data) <= f.room
            /\ \A k \in 1..Len(f.data) : f.data[k] = Expected(i, f.start + k * f.step)
=============================================================================
