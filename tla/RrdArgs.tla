------------------------------ MODULE RrdArgs -------------------------------
(***************************************************************************)
(* How rrdtool in remote mode makes arguments of a line: CountArgs gives   *)
(* the size of the array, CreateArgs fills it.  A line is a sequence of    *)
(* characters, of which only blanks and quotes are told apart.             *)
(***************************************************************************)
LOCAL INSTANCE Integers
LOCAL INSTANCE Sequences
LOCAL INSTANCE FiniteSets
LOCAL INSTANCE FiniteSetsExt
LOCAL INSTANCE SequencesExt

Blanks == {"space", "newline"}      \* characters up to the blank
Quotes == {"quote", "apostrophe"}

\* A slip to guard against: a word is counted where it ends.
CountEnds(line) == Cardinality({k \in DOMAIN line : line[k] = "space" /\ k > 1 /\ line[k - 1] # "space"})

CountArgs(line) ==
    Cardinality({k \in DOMAIN line : line[k] # "space" /\ (k = 1 \/ line[k - 1] = "space")})

Stripped(line) ==
    LET in == {k \in DOMAIN line : line[k] \notin Blanks}
    IN  IF in = {} THEN << >> ELSE SubSeq(line, Min(in), Max(in))

\* One character; st is [args, in, quote].
SplitStep(st, ch) ==
    LET new == IF st.in THEN st.args ELSE Append(st.args, << >>)
        put(args) == [args EXCEPT ![Len(args)] = Append(@, ch)]
        within == st.quote # "none"
    IN  CASE ch = "space" /\ ~within -> [st EXCEPT !.in = FALSE]
          [] ch \in Quotes /\ ~within -> [args |-> new, in |-> TRUE, quote |-> ch]
          [] ch \in Quotes /\ ch = st.quote -> [st EXCEPT !.quote = "none"]
          [] OTHER -> [st EXCEPT !.args = put(new), !.in = TRUE]

\* An error if a quotation is not closed.
CreateArgs(line) ==
    FoldLeft(SplitStep, [args |-> << >>, in |-> FALSE, quote |-> "none"], Stripped(line))
=============================================================================
