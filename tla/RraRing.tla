------------------------------- MODULE RraRing -------------------------------
(***************************************************************************)
(* The rows of one archive in the file: rows[0], ..., rows[n - 1], written *)
(* cyclically.  cur is rra_ptr[].cur_row, the row written last.            *)
(***************************************************************************)
EXTENDS Integers

\* ++cur_row, with wrap-around.
NextRow(cur, n) == IF cur + 1 >= n THEN 0 ELSE cur + 1

\* x % n, where x is less than 2n.
Wrap(x, n) == IF x >= n THEN x - n ELSE x

\* A slip to guard against: rows are inserted at the end of the archive.
GrownRowsAtEnd(rows, cur, n, m, unknown) ==
    [r \in 0..(n + m - 1) |-> IF r < n THEN rows[r] ELSE unknown]

\* GROW inserts m unknown rows just after the current row.
GrownRows(rows, cur, n, m, unknown) ==
    [r \in 0..(n + m - 1) |-> IF r <= cur THEN rows[r]
                              ELSE IF r <= cur + m THEN unknown
                              ELSE rows[r - m]]

\* SHRINK removes the m rows after the current row.  So many of them are at
\* the beginning of the file's rows, after a wrap.
RemovedInFront(cur, n, m) ==
    LET removeEnd == Wrap(cur + m, n)
    IN  IF removeEnd <= cur THEN removeEnd + 1 ELSE 0

ShrunkCur(cur, n, m) == cur - RemovedInFront(cur, n, m)

ShrunkRows(rows, cur, n, m) ==
    [r \in 0..(n - m - 1) |-> IF r <= ShrunkCur(cur, n, m)
                              THEN rows[r + RemovedInFront(cur, n, m)]
                              ELSE rows[r + m]]

\* The rows in the order in which they were written, newest first.
NewestFirst(rows, cur, n) ==
    [k \in 1..n |-> IF k - 1 <= cur THEN rows[cur - (k - 1)]
                    ELSE rows[cur - (k - 1) + n]]
=============================================================================
