------------------------------ MODULE RrdProto ------------------------------
(***************************************************************************)
(* One connection to rrdcached (rrd_daemon.c): the read buffer that is cut *)
(* into commands, the command table with its contexts and permissions,     *)
(* BATCH, and the write buffer behind a status line.                       *)
(*                                                                         *)
(* The stream of a connection is a sequence of units; a command of length  *)
(* n is n - 1 fillers and a last unit that carries the end of line.  What  *)
(* a handler does to the cache is in RrdCached; here a handler is the      *)
(* answers it can give.                                                    *)
(***************************************************************************)
EXTENDS Integers, Sequences, FiniteSets, SequencesExt

CONSTANTS
    Servers,        \* the addresses of the daemons
    RbufSize,       \* RBUF_SIZE, in units
    Permissions,    \* the commands the socket accepts (-P)
    MaxInfo         \* bound: the lines of a PENDING or QUEUE answer

VARIABLES
    conn,           \* the connection of each daemon
    failed          \* history: the commands that were answered with an error

-----------------------------------------------------------------------------
(* The command table                                                       *)

Known == {"UPDATE", "WROTE", "FLUSH", "FLUSHALL", "PENDING", "FORGET",
          "QUEUE", "STATS", "HELP", "BATCH", ".", "QUIT"}

Contexts(name) ==
    CASE name \in {"UPDATE", "FORGET"} -> {"client", "batch", "journal"}
      [] name = "WROTE"                -> {"journal"}
      [] name \in {"FLUSH", "QUIT"}    -> {"client", "batch"}
      [] name = "."                    -> {"batch"}
      [] OTHER                         -> {"client"}

HasSyntax == Known \ {"WROTE", "."}

StatsKeys == {"QueueLength", "UpdatesReceived", "FlushesReceived", "UpdatesWritten",
              "DataSetsWritten", "TreeNodesNumber", "TreeDepth", "JournalBytes",
              "JournalRotate"}

\* A slip to guard against: the dot needs a permission of its own.
DotPermission(name) == name \in {"QUIT", "HELP"} \cup Permissions

PermissionCheck(name) ==
    \/ name \in {"QUIT", "HELP"}
    \/ (IF name = "." THEN "BATCH" ELSE name) \in Permissions

-----------------------------------------------------------------------------
(* The socket                                                              *)

Fresh == [open |-> TRUE, peer |-> TRUE, in |-> <<>>, rbuf |-> <<>>,
          batch |-> FALSE, cmds |-> 0, wbuf |-> <<>>, out |-> <<>>]

\* close_connection: what was written before can still be read by the peer.
Closed(c) == [c EXCEPT !.open = FALSE, !.in = <<>>, !.rbuf = <<>>, !.wbuf = <<>>]

\* A line of an answer: num is the number a status line or an error line of a
\* batch starts with.
Line(kind, id, num) == [kind |-> kind, id |-> id, num |-> num]

\* send_response: nothing for a success in a batch, an error of a batch goes
\* to the write buffer, and every other answer is a status line that counts
\* the lines of the write buffer, followed by them.
SendResponse(c, id, rc) ==
    IF c.batch
    THEN IF rc = 0 THEN c ELSE [c EXCEPT !.wbuf = Append(@, Line("error", id, c.cmds))]
    ELSE [c EXCEPT !.wbuf = <<>>,
             !.out = @ \o <<Line("status", id, IF rc = 0 THEN Len(c.wbuf) ELSE -1)>>
                       \o IF rc = 0 THEN c.wbuf ELSE <<>>]

AddResponseInfo(c, id, n) ==
    IF c.batch THEN c
    ELSE [c EXCEPT !.wbuf = @ \o [i \in 1 .. n |-> Line("info", id, i)]]

\* The answers of the handlers: the code and the number of lines of text.
\* UPDATE may also end the connection, when the daemon is shutting down.
Outcomes(name) ==
    CASE name \in {"UPDATE", "FLUSH", "FORGET"} -> {<<0, 0>>, <<-1, 0>>}
      [] name = "FLUSHALL" -> {<<0, 0>>}
      [] name = "PENDING"  -> {<<0, n>> : n \in 0 .. MaxInfo} \cup {<<-1, 0>>}
      [] name = "QUEUE"    -> {<<0, n>> : n \in 0 .. MaxInfo}
      [] name = "STATS"    -> {<<0, Cardinality(StatsKeys)>>}
      [] name = "HELP"     -> {<<0, 2>>, <<0, Cardinality(HasSyntax)>>}

Result(c, rc) == [conn |-> c, rc |-> rc]

\* A slip to guard against: only BATCH itself sets batch_cmd.
CountNothing(c) == c

CountCommand(c) == IF c.batch THEN [c EXCEPT !.cmds = @ + 1] ELSE c

\* handle_request: every result it can have.
HandleRequest(c, id, name) ==
    LET d      == CountCommand(c)
        refuse == {Result(SendResponse(d, id, -1), -1)}
    IN  IF \/ name \notin Known
           \/ ~PermissionCheck(name)
           \/ (IF d.batch THEN "batch" ELSE "client") \notin Contexts(name)
        THEN refuse
        ELSE CASE name = "BATCH" ->     \* batch_start
                    {Result([SendResponse(d, id, 0) EXCEPT !.batch = TRUE, !.cmds = 0], 0)}
               [] name = "." ->         \* batch_done
                    {Result(SendResponse([d EXCEPT !.batch = FALSE, !.cmds = 0], id, 0), 0)}
               [] name = "QUIT" -> {Result(Closed(d), 0)}
               [] OTHER ->
                    {Result(SendResponse(AddResponseInfo(d, id, o[2]), id, o[1]), o[1]) :
                        o \in Outcomes(name)}
                    \cup IF name = "UPDATE" THEN {Result(Closed(d), 0)} ELSE {}

-----------------------------------------------------------------------------
(* connection_thread_main                                                  *)

Unit(id, name, eol) == [id |-> id, name |-> name, eol |-> eol]

CommandUnits(id, name, len) ==
    [i \in 1 .. len |-> Unit(id, name, i = len)]

\* next_cmd: the place of the first end of line in the buffer, 0 if none.
NextCmd(c) == IF \E i \in DOMAIN c.rbuf : c.rbuf[i].eol
              THEN CHOOSE i \in DOMAIN c.rbuf :
                      c.rbuf[i].eol /\ \A j \in 1 .. i - 1 : ~c.rbuf[j].eol
              ELSE 0

\* A slip to guard against: a buffer that is full is emptied.
EmptyWhenFull(c) == [c EXCEPT !.rbuf = <<>>]

\* read() into a full buffer asks for no bytes and returns 0, as at the end of
\* the stream: the connection is closed.
ReadFull(c) == Closed(c)

\* read(): any prefix of what has arrived that fits.
Reads(c) ==
    IF Len(c.rbuf) = RbufSize THEN {ReadFull(c)}
    ELSE IF c.in = <<>> THEN IF c.peer THEN {} ELSE {Closed(c)}
    ELSE {[c EXCEPT !.rbuf = @ \o SubSeq(c.in, 1, n),
                    !.in = SubSeq(@, n + 1, Len(@))] :
             n \in {k \in 1 .. Len(c.in) : k + Len(c.rbuf) <= RbufSize}}

\* One round of the loop: a command that is complete comes before poll and
\* read.  A write to a peer that has gone fails and ends the connection.
ServeCommand(s) ==
    LET c == conn[s]
        p == NextCmd(c)
    IN  /\ c.open /\ p # 0
        /\ \E r \in HandleRequest([c EXCEPT !.rbuf = SubSeq(@, p + 1, Len(@))],
                                  c.rbuf[p].id, c.rbuf[p].name) :
              /\ conn' = [conn EXCEPT ![s] =
                            IF ~c.peer /\ Len(r.conn.out) > Len(c.out) THEN Closed(r.conn)
                            ELSE r.conn]
              /\ failed' = IF r.rc = 0 THEN failed ELSE failed \cup {c.rbuf[p].id}

ServeRead(s) ==
    /\ conn[s].open /\ NextCmd(conn[s]) = 0
    /\ \E c \in Reads(conn[s]) : conn' = [conn EXCEPT ![s] = c]
    /\ UNCHANGED failed

\* state is no longer RUNNING, or poll reports something unexpected.
ServeStop(s) ==
    /\ conn[s].open /\ NextCmd(conn[s]) = 0
    /\ conn' = [conn EXCEPT ![s] = Closed(@)]
    /\ UNCHANGED failed

Serve(s) == ServeCommand(s) \/ ServeRead(s) \/ ServeStop(s)

-----------------------------------------------------------------------------
(* Words on the wire                                                       *)

\* A slip to guard against: the backslash itself is not escaped.
EscapeSpaceOnly(ch) == IF ch = "space" THEN <<"backslash", ch>> ELSE <<ch>>

\* buffer_add_string of the client: the word with spaces and backslashes
\* escaped, and a space after it.
Escape(ch) == IF ch \in {"space", "backslash"} THEN <<"backslash", ch>> ELSE <<ch>>

BufferAddString(word) == FlattenSeq([i \in DOMAIN word |-> Escape(word[i])]) \o <<"space">>

\* buffer_get_field of the daemon: the field at the start of a line and the
\* rest, or status -1 when the line ends in a backslash.
BufferGetField(line) ==
    LET Skip[i \in 1 .. Len(line) + 1] ==   \* the place of the first separator
            IF i > Len(line) \/ line[i] \in {"space", "nul"} THEN i
            ELSE IF line[i] = "backslash" THEN IF i >= Len(line) THEN Len(line) + 1 ELSE Skip[i + 2]
            ELSE Skip[i + 1]
        end  == Skip[1]
        Kept[i \in 1 .. end + 1] ==         \* the characters from i on
            IF i >= end THEN <<>>
            ELSE IF line[i] = "backslash" THEN <<line[i + 1]>> \o Kept[i + 2]
            ELSE <<line[i]>> \o Kept[i + 1]
    IN  IF end > Len(line) THEN [status |-> -1, field |-> <<>>, rest |-> <<>>]
        ELSE [status |-> 0, field |-> Kept[1], rest |-> SubSeq(line, end + 1, Len(line))]
=============================================================================
