---------------------------- MODULE MCRrdClient -----------------------------
(* Small instances of RrdClient: two daemons and two threads; a script of  *)
(* four commands on one of the daemons; words over three characters.       *)
EXTENDS RrdClient, TLC

Cmd(n, l) == [name |-> n, len |-> l]
MCScript == {Cmd("UPDATE", 2), Cmd("BATCH", 1), Cmd(".", 1), Cmd("PENDING", 1),
             Cmd("QUIT", 1), Cmd("NOSUCH", 1), Cmd("UPDATE", 4)}
MCPermissions == {"UPDATE", "FLUSH", "PENDING", "BATCH"}
MCWords == SeqOf({"a", "space", "backslash"}, 2)
=============================================================================
