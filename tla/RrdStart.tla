------------------------------ MODULE RrdStart ------------------------------
(***************************************************************************)
(* The start and the end of rrdcached (rrd_daemon.c): the command line is  *)
(* read option by option, the PID file decides whether another daemon      *)
(* runs, the sockets are opened and the PID file is written; on the way    *)
(* out the sockets and the PID file are removed.  Several processes with   *)
(* the same options are started, one after the other or at the same time,  *)
(* and may be killed at any point; the id of a process that has ended goes *)
(* to another program or to the next daemon.                               *)
(***************************************************************************)
EXTENDS Integers, Sequences, FiniteSets, SequencesExt

CONSTANTS
    Modes,          \* "options": one command line; "daemons": the processes
    Options,        \* the options of a command line
    MaxOptions,     \* bound: options on a command line
    Procs,          \* the processes, by their process id
    Overlap,        \* whether a daemon is started while another starts or stops
    Kills           \* whether processes are killed

ASSUME StartAssumption ==
    /\ Modes \subseteq {"options", "daemons"} /\ MaxOptions \in Nat
    /\ Procs \subseteq Nat \ {0} /\ Overlap \in BOOLEAN /\ Kills \in BOOLEAN

VARIABLES
    mode,
    given,          \* the options read so far
    config,         \* what read_options has made of them
    path, inode,    \* the PID file: what its name refers to, and what is in it
    fd, seen,       \* the file a process has open, and the pid it read from it
    socket, port,   \* the process behind the name of the UNIX socket and the one
                    \* that listens on the network address, 0 if none
    pc              \* of a process; "reused": its id belongs to another program

optionVars == <<given, config>>
daemonVars == <<path, inode, fd, seen, socket, port, pc>>
vars == <<mode, optionVars, daemonVars>>

All == {"UPDATE", "FLUSH", "BATCH"}     \* commands that can be permitted

Init ==
    /\ mode \in Modes
    /\ given = <<>>
    /\ config = [perm |-> {}, sockets |-> <<>>, flush |-> FALSE, journal |-> FALSE,
                 base |-> FALSE, baseOnly |-> FALSE, threads |-> 4, status |-> 0,
                 ended |-> FALSE]
    /\ path = 0 /\ inode = [p \in Procs |-> 0]
    /\ fd = [p \in Procs |-> 0] /\ seen = [p \in Procs |-> 0]
    /\ socket = 0 /\ port = 0 /\ pc = [p \in Procs |-> "new"]

-----------------------------------------------------------------------------
(* read_options                                                            *)

\* Options whose value is a number, a name or a directory come with the
\* verdict on it.  fatal: read_options returns at once.
Fatal(o) == ~o.ok /\ o.opt \in {"t", "b", "j", "s", "m"}
Code(o) == CASE o.opt = "t" -> 1 [] o.opt = "j" -> 6 [] o.opt = "b" -> 4 [] OTHER -> 5

\* The commands of a -P that exist, and the status it leaves: that of its last
\* command, or the one of before if it lists none ("-P ,").
Known(o) == {n \in ToSet(o.cmds) : n \in All}
PermissionStatus(status, o) ==
    IF o.cmds = <<>> THEN status ELSE IF Last(o.cmds) \in All THEN 0 ELSE 4

\* A slip to guard against: -P adds to what an earlier -P allowed.
AddPermissions(c, o) ==
    [c EXCEPT !.perm = @ \cup Known(o), !.status = PermissionStatus(@, o)]

\* -P: the permissions are cleared and added one by one.
SetPermissions(c, o) == [c EXCEPT !.perm = Known(o), !.status = PermissionStatus(@, o)]

\* -l: the permissions of the default socket, or all of them if there are none.
SocketPermissions(c) == IF c.perm # {} THEN c.perm ELSE All

\* -j: status is what rrd_mkdir_p returned, so that an earlier error is lost.
JournalOption(c) == [c EXCEPT !.journal = TRUE, !.status = 0]

\* -h and unknown options print the usage.
UsageStatus(o) == IF o.opt = "h" THEN -1 ELSE 1

ReadOption(c, o) ==
    IF Fatal(o) THEN [c EXCEPT !.status = Code(o), !.ended = TRUE]
    ELSE CASE o.opt = "l" -> [c EXCEPT !.sockets = Append(@, SocketPermissions(c))]
      [] o.opt = "P" -> SetPermissions(c, o)
      [] o.opt \in {"f", "w", "z"} -> IF o.ok THEN c ELSE [c EXCEPT !.status = IF o.opt = "f" THEN 3 ELSE 2]
      [] o.opt = "t" -> [c EXCEPT !.threads = 1]
      [] o.opt = "B" -> [c EXCEPT !.baseOnly = TRUE]
      [] o.opt = "b" -> [c EXCEPT !.base = TRUE]
      [] o.opt = "F" -> [c EXCEPT !.flush = TRUE]
      [] o.opt = "j" -> JournalOption(c)
      [] o.opt \in {"h", "?"} -> [c EXCEPT !.status = UsageStatus(o)]
      [] OTHER -> c         \* -g, -p, -s, -m

Option(o) ==
    /\ ~config.ended /\ Len(given) < MaxOptions
    /\ given' = Append(given, o) /\ config' = ReadOption(config, o)

\* The end of the command line: without a journal everything is flushed at
\* shutdown, and without -l the default address is used (daemonize).
OptionsEnd ==
    /\ ~config.ended
    /\ config' = [config EXCEPT !.ended = TRUE, !.flush = @ \/ ~config.journal,
                     !.sockets = IF @ = <<>> THEN <<SocketPermissions(config)>> ELSE @]
    /\ UNCHANGED given

-----------------------------------------------------------------------------
(* The PID file and the sockets                                            *)

Ended == {"refused", "failed", "killed", "gone"}
Alive(p) == pc[p] \notin Ended \cup {"new", "reused"}

\* Who starts and stops daemons waits for one to be done before the next.
Quiet == Overlap \/ \A p \in Procs : Alive(p) => pc[p] = "running"

PathIs(i) == path' = i
Goes(p, to) == pc' = [pc EXCEPT ![p] = to]

\* The process ends: what it has open is closed, what it knows is lost.
Ends(p, to) ==
    /\ Goes(p, to)
    /\ fd' = [fd EXCEPT ![p] = 0] /\ seen' = [seen EXCEPT ![p] = 0]

\* open_pidfile with O_EXCL: a new file gets an inode that no process has open.
Create(p) ==
    /\ pc[p] = "new" /\ Quiet
    /\ IF path = 0
       THEN \E i \in Procs :
              /\ \A q \in Procs : Alive(q) => fd[q] # i
              /\ PathIs(i) /\ inode' = [inode EXCEPT ![i] = 0]
              /\ fd' = [fd EXCEPT ![p] = i] /\ Goes(p, "listen")
       ELSE /\ Goes(p, "read") /\ UNCHANGED <<path, inode, fd>>
    /\ UNCHANGED <<seen, socket, port>>

\* check_pidfile: the file may have gone; an empty file is an error.
CheckRead(p) ==
    /\ pc[p] = "read"
    /\ IF path = 0 \/ inode[path] = 0
       THEN Ends(p, "refused")
       ELSE /\ fd' = [fd EXCEPT ![p] = path] /\ seen' = [seen EXCEPT ![p] = inode[path]]
            /\ Goes(p, "kill")
    /\ UNCHANGED <<path, inode, socket, port>>

\* A slip to guard against: the daemon of the PID file is taken for dead.
TakenForDead(p) == TRUE

\* A slip to guard against: a file with a process id in it is always believed.
NeverStale(p) == FALSE

\* kill(pid, 0) succeeds for every process that may be signalled, daemon or not.
CanSignal(q) == Alive(q) \/ pc[q] = "reused"

\* The process of the PID file is this one, whose id an earlier daemon had, or
\* it cannot be signalled.
Stale(p) == seen[p] = p \/ ~CanSignal(seen[p])

CheckKill(p) ==
    /\ pc[p] = "kill"
    /\ IF Stale(p) THEN Goes(p, "truncate") /\ UNCHANGED <<fd, seen>> ELSE Ends(p, "refused")
    /\ UNCHANGED <<path, inode, socket, port>>

Truncate(p) ==
    /\ pc[p] = "truncate"
    /\ inode' = [inode EXCEPT ![fd[p]] = 0] /\ Goes(p, "listen")
    /\ UNCHANGED <<path, fd, seen, socket, port>>

\* open_listen_socket_unix: the name of the socket is removed and bound again.
Listen(p) ==
    /\ pc[p] = "listen"
    /\ socket' = p /\ Goes(p, "network")
    /\ UNCHANGED <<path, inode, fd, seen, port>>

\* open_listen_socket_network: bind fails, and the address is skipped, if a
\* process that is alive listens on it.
ListenNetwork(p) ==
    /\ pc[p] = "network"
    /\ port' = IF port # 0 /\ Alive(port) THEN port ELSE p
    /\ Goes(p, "write")
    /\ UNCHANGED <<path, inode, fd, seen, socket>>

\* daemonize gives up: no socket, fork or chdir failed; remove_pidfile.
GiveUp(p) ==
    /\ pc[p] \in {"listen", "network", "write"}
    /\ PathIs(0) /\ Ends(p, "failed")
    /\ UNCHANGED <<inode, socket, port>>

WritePid(p) ==
    /\ pc[p] = "write"
    /\ inode' = [inode EXCEPT ![fd[p]] = p] /\ fd' = [fd EXCEPT ![p] = 0]
    /\ Goes(p, "running")
    /\ UNCHANGED <<path, seen, socket, port>>

\* listen_thread_main ends: close_listen_sockets removes the name.
CloseSockets(p) ==
    /\ pc[p] = "running" /\ Quiet
    /\ socket' = 0 /\ port' = (IF port = p THEN 0 ELSE port) /\ Goes(p, "cleanup")
    /\ UNCHANGED <<path, inode, fd, seen>>

Exit(p) ==
    /\ pc[p] = "cleanup"
    /\ PathIs(0) /\ Ends(p, "gone")
    /\ UNCHANGED <<inode, socket, port>>

Killed(p) ==
    /\ Kills /\ Alive(p)
    /\ Ends(p, "killed")
    /\ UNCHANGED <<path, inode, socket, port>>

\* The id of a process that has ended goes to another program, which ends again,
\* or to a daemon that is started later.
Reuse(p) ==
    /\ \/ pc[p] \in Ended /\ (Goes(p, "reused") \/ Goes(p, "new"))
       \/ pc[p] = "reused" /\ Goes(p, "gone")
    /\ UNCHANGED <<path, inode, fd, seen, socket, port>>

DaemonStep(p) ==
    \/ Create(p) \/ CheckRead(p) \/ CheckKill(p) \/ Truncate(p) \/ Listen(p)
    \/ ListenNetwork(p) \/ GiveUp(p) \/ WritePid(p) \/ CloseSockets(p) \/ Exit(p) \/ Killed(p)
    \/ Reuse(p)

-----------------------------------------------------------------------------
Next ==
    \/ /\ mode = "options"
       /\ (\E o \in Options : Option(o)) \/ OptionsEnd
       /\ UNCHANGED <<mode, daemonVars>>
    \/ /\ mode = "daemons"
       /\ \E p \in Procs : DaemonStep(p)
       /\ UNCHANGED <<mode, optionVars>>

Spec == Init /\ [][Next]_vars

-----------------------------------------------------------------------------
(* Properties                                                              *)

\* The commands that were asked for a socket given by the i-th option: those of
\* the last -P before it, and all of them if there is none.
PsBefore(g, i) == {j \in 1 .. i - 1 : g[j].opt = "P"}
LsUpTo(g, i) == {j \in 1 .. i : g[j].opt = "l"}
LastOf(S) == CHOOSE j \in S : \A k \in S : k <= j
Asked(g, i) == IF PsBefore(g, i) = {} THEN All ELSE Known(g[LastOf(PsBefore(g, i))])

\* If the daemon starts, every socket accepts the commands of the last -P before
\* its -l, and all of them if no -P came before it; without -l this holds of the
\* default socket and the last -P (rrdcached.pod, -P).  Left out, because the code
\* goes wrong there: a socket whose -P named no command that exists gets them all,
\* too, and -j or another -P after it hides the error (JournalOption).
SocketsRestricted ==
    /\ config.ended /\ config.status = 0
    /\ \A i \in DOMAIN given : given[i].opt = "P" => Known(given[i]) # {}
    => /\ \A i \in DOMAIN given : given[i].opt = "l" =>
             config.sockets[Cardinality(LsUpTo(given, i))] = Asked(given, i)
       /\ LsUpTo(given, Len(given)) = {} => config.sockets = <<Asked(given, Len(given) + 1)>>

\* A daemon that runs can be found, whichever processes were killed before: the
\* PID file names it and its addresses lead to it, as long as no daemon is started
\* while another one starts or stops.
DaemonFound ==
    \A p \in Procs : pc[p] = "running" =>
        path # 0 /\ inode[path] = p /\ socket = p /\ port = p

\* A daemon is refused only if another one is alive, or the PID file has gone or
\* was left empty by one that was killed between creating and writing it, or the
\* id it read from the file now belongs to another program: check_pidfile asks whether a
\* process "that we can signal COULD be a competing rrdcached".
RefusedForReason ==
    [][\A p \in Procs : pc[p] # "refused" /\ pc'[p] = "refused" =>
          \/ \E q \in Procs \ {p} : Alive(q) \/ (q = seen[p] /\ pc[q] = "reused")
          \/ path = 0 \/ inode[path] = 0]_vars
=============================================================================
