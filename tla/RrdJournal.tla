----------------------------- MODULE RrdJournal -----------------------------
(***************************************************************************)
(* The journal of rrdcached.  journal_cur and journal_old are the two      *)
(* generations of files the daemon keeps; a rotation removes the files     *)
(* that were old before it.  The files of a set are represented by the     *)
(* sequence of their entries, in the order in which a replay reads them.   *)
(* Entries go through the buffer of stdio: after a crash a suffix of what  *)
(* was written to the open file may be missing.                            *)
(***************************************************************************)
EXTENDS RrdTypes, Sequences

CONSTANTS
    JournalDir,         \* whether -j is given
    JournalMax,         \* JOURNAL_MAX, as a number of entries
    MaxJournalFailures  \* how often creating a journal file may fail

ASSUME JournalAssumption ==
    /\ JournalDir \in BOOLEAN
    /\ JournalMax \in Nat /\ MaxJournalFailures \in Nat

VARIABLES
    jopen,      \* journal_fh # NULL
    jdead,      \* files of an old set that are yet to be unlinked
    jold,       \* journal_old
    jcur,       \* journal_cur
    jsafe,      \* how many entries of jcur are in closed files
    jfails      \* how often journal_new_file failed

journalVars == <<jopen, jdead, jold, jcur, jsafe, jfails>>

Entries == [op : {"update", "wrote", "forget"}, file : Files, vals : Seq(Stamps)]

UpdateEntry(f, vals) == [op |-> "update", file |-> f, vals |-> vals]
WroteEntry(f)        == [op |-> "wrote", file |-> f, vals |-> <<>>]
ForgetEntry(f)       == [op |-> "forget", file |-> f, vals |-> <<>>]

JournalTypeOK ==
    /\ jopen \in BOOLEAN
    /\ jdead \in Seq(Entries) /\ jold \in Seq(Entries) /\ jcur \in Seq(Entries)
    /\ jsafe \in 0 .. Len(jcur)
    /\ jfails \in 0 .. MaxJournalFailures

JournalInit ==
    /\ jopen = FALSE
    /\ jdead = <<>> /\ jold = <<>> /\ jcur = <<>>
    /\ jsafe = 0 /\ jfails = 0

-----------------------------------------------------------------------------

\* journal_new_file: what is in the open file is written out by fclose.  When
\* the new file cannot be created, journalling is off and failed is TRUE: the
\* daemon then sets config_flush_at_shutdown.
NewFile(entries, failed) ==
    /\ jcur' = entries
    /\ jsafe' = Len(entries)
    /\ jopen' = ~failed
    /\ failed => jfails < MaxJournalFailures
    /\ jfails' = IF failed THEN jfails + 1 ELSE jfails
    /\ UNCHANGED <<jdead, jold>>

\* journal_write(e) once journal_lock is held: the open file is replaced when
\* it has grown beyond JOURNAL_MAX.
Write(e, failed) ==
    IF Len(jcur) + 1 - jsafe > JournalMax
    THEN NewFile(Append(jcur, e), failed)
    ELSE /\ ~failed
         /\ jcur' = Append(jcur, e)
         /\ UNCHANGED <<jopen, jdead, jold, jsafe, jfails>>

\* A slip to guard against: the set that is still needed is removed.
RotateDropsCurrent ==
    /\ jopen' = FALSE
    /\ jdead' = jdead \o jcur
    /\ jold' = jold
    /\ jcur' = <<>> /\ jsafe' = 0
    /\ UNCHANGED jfails

\* journal_rotate up to the call of journal_new_file.
Rotate ==
    /\ jopen' = FALSE
    /\ jdead' = jold
    /\ jold' = jcur
    /\ jcur' = <<>> /\ jsafe' = 0
    /\ UNCHANGED jfails

\* journal_set_remove(old_js), after journal_lock has been released.
RemoveDead ==
    /\ jdead' = <<>>
    /\ UNCHANGED <<jopen, jold, jcur, jsafe, jfails>>

\* A slip to guard against: the files are removed in any case.
DoneRemoves(flushed) ==
    /\ jopen' = FALSE /\ jsafe' = 0 /\ jold' = <<>> /\ jcur' = <<>>
    /\ UNCHANGED <<jdead, jfails>>

\* journal_done: the files are removed if everything has been flushed.
Done(flushed) ==
    /\ jopen' = FALSE
    /\ jsafe' = IF flushed THEN 0 ELSE Len(jcur)
    /\ jold' = IF flushed THEN <<>> ELSE jold
    /\ jcur' = IF flushed THEN <<>> ELSE jcur
    /\ UNCHANGED <<jdead, jfails>>

\* The process dies: kept entries of the current set have reached the disk.
Lose(kept) ==
    /\ kept \in jsafe .. Len(jcur)
    /\ jopen' = FALSE
    /\ jcur' = SubSeq(jcur, 1, kept)
    /\ jsafe' = kept
    /\ UNCHANGED <<jdead, jold, jfails>>

\* journal_init reads every file it finds into journal_cur.
Found == jdead \o jold \o jcur

Reopen ==
    /\ jdead' = <<>> /\ jold' = <<>>
    /\ jcur' = Found /\ jsafe' = Len(Found)
    /\ UNCHANGED <<jopen, jfails>>
=============================================================================
