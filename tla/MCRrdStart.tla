----------------------------- MODULE MCRrdStart -----------------------------
(* Command lines of up to four options, and three processes.               *)
EXTENDS RrdStart, TLC

Opt(o, ok) == [opt |-> o, ok |-> ok, cmds |-> <<>>]
Perm(s) == [opt |-> "P", ok |-> TRUE, cmds |-> s]
MCOptions == {Opt("l", TRUE), Opt("f", FALSE), Opt("t", FALSE), Opt("t", TRUE), Opt("j", TRUE),
              Opt("j", FALSE), Opt("F", TRUE), Opt("b", TRUE), Opt("B", TRUE), Opt("h", TRUE),
              Opt("?", TRUE), Opt("g", TRUE), Opt("s", FALSE),
              Perm(<<"FLUSH">>), Perm(<<"UPDATE", "BATCH">>), Perm(<<"FETCH">>),
              Perm(<<"FETCH", "FLUSH">>), Perm(<<>>)}
=============================================================================
