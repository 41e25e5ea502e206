----------------------------- MODULE RrdClient ------------------------------
(***************************************************************************)
(* Clients of rrdcached.  A program that uses librrd shares one connection *)
(* between its threads (rrd_client.c): lock, sd, sh and sd_path are static *)
(* variables, and connecting to another daemon closes the connection.  A   *)
(* script that speaks the protocol itself sends commands without waiting   *)
(* for the answers.  mode says which of them runs, or that the words of a  *)
(* request are put on a line and taken apart again.                        *)
(***************************************************************************)
EXTENDS RrdProto

CONSTANTS
    Modes,          \* what runs: "library", "script", "words"
    Threads,        \* the threads of the program
    Calls,          \* the library calls they make
    Addresses,      \* the --daemon options they give; "none" is no option
    EnvAddress,     \* RRDCACHED_ADDRESS, or "none"
    MaxCalls,       \* bound: requests of the program
    Script,         \* the commands of a script, with their length
    ScriptLen,      \* bound: commands in a script
    Words           \* the words of a request

ASSUME ClientAssumption ==
    /\ Modes \subseteq {"library", "script", "words"}
    /\ Calls \subseteq {"update", "flush_if", "flushcached", "stats"}
    /\ EnvAddress \in Servers \cup {"none"} /\ Addresses \subseteq Servers \cup {"none"}
    /\ RbufSize \in Nat \ {0} /\ MaxInfo \in Nat
    /\ MaxCalls \in Nat /\ ScriptLen \in Nat /\ Permissions \subseteq Known
    /\ "none" \notin Servers /\ "none" \notin Threads /\ Servers # {}
    /\ \A c \in Script : c.len \in Nat \ {0}                     \* the end of line
    /\ \A w \in Words : w \in Seq(STRING) /\ \A i \in DOMAIN w : w[i] # "nul"

VARIABLES
    mode,
    lock,           \* who holds lock
    sd,             \* sd is a descriptor
    sd_path,        \* the address of the cached connection, of sh and sd_path; "none" is NULL
    pc, call,       \* the library call of each thread
    error,          \* rrd_error in the context of each thread
    ids,            \* counter: requests
    script, replies,\* the commands of the script, and the answers it has read
    line            \* the words of a request and the line they are sent on

libVars == <<lock, sd, sd_path, pc, call, error, ids>>
scriptVars == <<script, replies>>
vars == <<conn, failed, mode, libVars, scriptVars, line>>

ScriptServer == CHOOSE s \in Servers : TRUE

NoCall == [op |-> "none", addr |-> "none", id |-> 0, want |-> 0, left |-> 0, status |-> 0]

Init ==
    /\ mode \in Modes
    /\ lock = "none" /\ sd = FALSE /\ sd_path = "none" /\ ids = 0
    /\ pc = [t \in Threads |-> "idle"] /\ call = [t \in Threads |-> NoCall]
    /\ error = [t \in Threads |-> FALSE]
    /\ script \in IF mode = "script" THEN SeqOf(Script, ScriptLen) ELSE {<<>>}
    /\ replies = <<>> /\ failed = {}
    /\ line \in [words : IF mode = "words" THEN SeqOf(Words, 2) \ {<<>>} ELSE {<<>>},
                 text : {<<>>}, fields : {<<>>}]
    /\ conn = [s \in Servers |->
                  IF s # ScriptServer THEN Fresh
                  ELSE [Fresh EXCEPT !.in = FlattenSeq([i \in DOMAIN script |->
                           CommandUnits(i, script[i].name, script[i].len)])]]

-----------------------------------------------------------------------------
(* The library                                                             *)

Goes(t, to) == pc' = [pc EXCEPT ![t] = to]
SetError(t, e) == error' = [error EXCEPT ![t] = e]
CallIs(t, c) == call' = [call EXCEPT ![t] = c]

Address(a) == IF a = "none" THEN EnvAddress ELSE a

\* close_connection, always with the lock held: sd, sh and sd_path are cleared,
\* and the daemon finds that its peer has gone.
HangUp(cn) == [s \in Servers |-> IF s = sd_path THEN [cn[s] EXCEPT !.peer = FALSE] ELSE cn[s]]
DropConnection == sd' = FALSE /\ sd_path' = "none" /\ conn' = HangUp(conn)

\* A thread calls rrd_update, rrd_flushcached, a reader that flushes first
\* (rrdc_flush_if_daemon), or rrdc_stats_get, with a clean context.
Start(t) ==
    /\ pc[t] = "idle" /\ ids < MaxCalls
    /\ \E op \in Calls, a \in Addresses, more \in 0 .. 1 :
          /\ more = 1 => op = "flushcached" /\ ids + 1 < MaxCalls
          /\ CallIs(t, [NoCall EXCEPT !.op = op, !.addr = a, !.id = ids + 1, !.left = more])
          /\ ids' = ids + 1 + more
    /\ Goes(t, "connect") /\ SetError(t, FALSE)
    /\ UNCHANGED <<conn, failed, lock, sd, sd_path>>

\* A call that ends: rrdc_flush_if_daemon makes sure that a failure has a
\* message, rrd_flushcached and rrd_update add one of their own.
Ends(t, status, err) ==
    /\ pc' = [pc EXCEPT ![t] = "idle"]
    /\ CallIs(t, [NoCall EXCEPT !.id = call[t].id, !.status = status])
    /\ SetError(t, \/ err
                   \/ status # 0 /\ call[t].op \in {"flush_if", "flushcached"}
                   \/ status > 0 /\ call[t].op = "update")

\* rrdc_connect: without an address it returns at once, and the cached
\* connection is used if it goes to the same address.  Otherwise it is closed,
\* and lock is held until the new one is there.
Connect(t) ==
    LET a == Address(call[t].addr) IN
    /\ pc[t] = "connect"
    /\ \/ /\ a # "none" => lock = "none" /\ sd /\ sd_path = a
          /\ Goes(t, "check") /\ UNCHANGED <<conn, lock, sd, sd_path, error>>
       \/ /\ a # "none" /\ lock = "none" /\ ~(sd /\ sd_path = a)
          /\ DropConnection /\ lock' = t /\ Goes(t, "connecting") /\ SetError(t, FALSE)
    /\ UNCHANGED <<failed, call, ids>>

\* rrdc_connect_unix and rrdc_connect_network: sd is set before connect, ...
Socket(t) ==
    /\ pc[t] = "connecting" /\ ~sd
    /\ sd' = TRUE
    /\ UNCHANGED <<conn, failed, lock, sd_path, pc, call, error, ids>>

\* ... and sd_path when all is done.  The address may be malformed or unknown,
\* and socket, connect and fdopen may fail.  Only rrdc_flush_if_daemon and a
\* program that asks for the statistics go on after a failure.
Connected(t) ==
    LET a == Address(call[t].addr) IN
    /\ pc[t] = "connecting"
    /\ \/ /\ sd
          /\ sd_path' = a /\ conn' = [conn EXCEPT ![a] = Fresh]
          /\ Goes(t, "check") /\ UNCHANGED <<sd, call, error>>
       \/ /\ sd' = FALSE /\ sd_path' = "none" /\ UNCHANGED conn
          /\ IF call[t].op \in {"flush_if", "stats"}
             THEN Goes(t, "check") /\ SetError(t, TRUE) /\ UNCHANGED call
             ELSE Ends(t, 1, TRUE)
    /\ lock' = "none"
    /\ UNCHANGED <<failed, ids>>

\* Without a daemon rrd_update writes the file itself and a reader reads it as
\* it is; rrd_flushcached has nothing to talk to.
Proceed(t, connected) ==
    LET op == call[t].op IN
    IF connected
    THEN /\ Goes(t, "request")
         /\ SetError(t, error[t] /\ op # "flush_if")
         /\ UNCHANGED call
    ELSE IF op = "flushcached" THEN Ends(t, -1, TRUE) ELSE Ends(t, 0, error[t])

\* rrdc_is_connected, without the lock: it reads sd, ...
Check(t) ==
    LET op   == call[t].op
        addr == call[t].addr
    IN  /\ pc[t] = "check"
        /\ IF op # "stats" /\ sd /\ addr # "none"
           THEN Goes(t, "compare") /\ UNCHANGED <<call, error>>
           ELSE Proceed(t, op = "stats" \/ (sd /\ EnvAddress # "none"))
        /\ UNCHANGED <<conn, failed, lock, sd, sd_path, ids>>

\* The program ends with all its threads, and its connection is closed.
Crash ==
    /\ pc' = [t \in Threads |-> "gone"] /\ call' = [t \in Threads |-> NoCall]
    /\ error' = [t \in Threads |-> FALSE] /\ lock' = "none" /\ DropConnection
    /\ UNCHANGED <<failed, ids>>

\* ... and compares sd_path, which another thread may have set to NULL or not
\* set yet: strcmp faults, or reads what has just been freed.
Compare(t) ==
    /\ pc[t] = "compare"
    /\ \/ sd_path = "none" /\ Crash
       \/ /\ \E same \in BOOLEAN :
                /\ sd_path # "none" => same = (sd_path = call[t].addr)
                /\ Proceed(t, same)
          /\ UNCHANGED <<conn, failed, lock, sd, sd_path, ids>>

Verb(op) == CASE op = "update" -> "UPDATE" [] op = "stats" -> "STATS" [] OTHER -> "FLUSH"

\* A slip to guard against: the lock is given back while the answer is awaited.
UnlockEarly(t) == "none"

HeldBy(t) == t

\* What can go wrong before anything is sent: another thread may have closed
\* the connection (get_path gives NULL, or sh is NULL), get_path may not find
\* the file or refuse its name, and the words may not fit into the buffer.
NotSent(t) ==
    \/ sd_path = "none" /\ Ends(t, IF call[t].op = "stats" THEN 1 ELSE -1, error[t])
    \/ /\ sd_path # "none" /\ call[t].op # "stats"
       /\ Ends(t, -1, TRUE) \/ Ends(t, 1, error[t])

\* rrdc_update, rrdc_flush and rrdc_stats_get up to the end of fwrite in
\* request: a write to a daemon that has gone may fail.
Request(t) ==
    LET verb == Verb(call[t].op) IN
    /\ pc[t] = "request" /\ lock = "none"
    /\ \/ NotSent(t) /\ UNCHANGED <<conn, lock, sd, sd_path>>
       \/ /\ sd_path # "none"
          /\ conn' = IF conn[sd_path].open
                     THEN [conn EXCEPT ![sd_path].in = @ \o CommandUnits(call[t].id, verb, 1)]
                     ELSE conn
          /\ lock' = HeldBy(t) /\ Goes(t, "status")
          /\ UNCHANGED <<sd, sd_path, call, error>>
       \/ /\ sd_path # "none" /\ ~conn[sd_path].open
          /\ DropConnection
          /\ Ends(t, -1, TRUE) /\ UNCHANGED lock
    /\ UNCHANGED <<failed, ids>>

\* A slip to guard against: a failure leaves the lock taken.
AnsweredLocked(t, status, err) == lock' = (IF status < 0 THEN lock ELSE "none") /\ Ends(t, status, err)

\* The next file of rrd_flushcached, or the end of the call.
Answered(t, status, err) ==
    /\ lock' = "none"
    /\ IF status = 0 /\ call[t].left > 0
       THEN /\ CallIs(t, [call[t] EXCEPT !.left = @ - 1, !.id = @ + 1])
            /\ Goes(t, "request") /\ SetError(t, err)
       ELSE Ends(t, status, err)

\* response_read: a status line, and if it is positive that many lines more.
\* A line that is no status line, and the end of the stream, close the
\* connection.
ReadStatus(t) ==
    /\ pc[t] = "status" /\ sd_path # "none"
    /\ IF conn[sd_path].out # <<>>
       THEN LET l == Head(conn[sd_path].out) IN
            IF l.kind # "status"
            THEN DropConnection /\ Answered(t, -1, TRUE)
            ELSE /\ conn' = [conn EXCEPT ![sd_path].out = Tail(@)] /\ UNCHANGED <<sd, sd_path>>
                 /\ IF l.num > 0
                    THEN /\ CallIs(t, [call[t] EXCEPT !.want = l.num]) /\ Goes(t, "lines")
                         /\ UNCHANGED <<lock, error>>
                    ELSE Answered(t, IF call[t].op = "stats" THEN 1 ELSE l.num,
                                  error[t] \/ l.num < 0)
       ELSE ~conn[sd_path].open /\ DropConnection /\ Answered(t, -1, TRUE)
    /\ UNCHANGED <<failed, ids>>

ReadLines(t) ==
    /\ pc[t] = "lines"
    /\ \/ /\ conn[sd_path].out # <<>>
          /\ conn' = [conn EXCEPT ![sd_path].out = Tail(@)] /\ UNCHANGED <<sd, sd_path>>
          /\ IF call[t].want > 1
             THEN /\ CallIs(t, [call[t] EXCEPT !.want = @ - 1])
                  /\ UNCHANGED <<lock, pc, error>>
             ELSE Answered(t, IF call[t].op = "stats" THEN 0 ELSE 1, error[t])
       \/ /\ conn[sd_path].out = <<>> /\ ~conn[sd_path].open
          /\ DropConnection /\ Answered(t, -1, TRUE)
    /\ UNCHANGED <<failed, ids>>

\* rrdc_disconnect
Disconnect(t) ==
    /\ pc[t] = "idle" /\ lock = "none" /\ sd
    /\ DropConnection
    /\ UNCHANGED <<failed, lock, pc, call, error, ids>>

LibraryStep(t) ==
    Start(t) \/ Connect(t) \/ Socket(t) \/ Connected(t) \/ Check(t) \/ Compare(t)
    \/ Request(t) \/ ReadStatus(t) \/ ReadLines(t) \/ Disconnect(t)

-----------------------------------------------------------------------------
(* The script, and the words of a request                                  *)

\* The script reads an answer as response_read does.
ReadReply(s) ==
    LET out  == conn[s].out
        more == IF out[1].num > 0 THEN out[1].num ELSE 0
    IN  /\ out # <<>> /\ Len(out) > more
        /\ replies' = Append(replies, [id |-> out[1].id, kind |-> out[1].kind,
                                       status |-> out[1].num,
                                       lines |-> SubSeq(out, 2, more + 1)])
        /\ conn' = [conn EXCEPT ![s].out = SubSeq(@, more + 2, Len(@))]
        /\ UNCHANGED <<failed, script>>

\* rrdc_update: the words with the last space turned into the end of the line,
\* which next_cmd turns into a 0.
Encode ==
    /\ line.text = <<>> /\ line.fields = <<>>
    /\ LET text == FlattenSeq([i \in DOMAIN line.words |-> BufferAddString(line.words[i])])
       IN  line' = [line EXCEPT !.text = Front(text) \o <<"nul">>]

\* handle_request and the handler take the fields off the line one by one.
Decode ==
    LET f == BufferGetField(line.text) IN
    /\ line.text # <<>> /\ f.status = 0
    /\ line' = [line EXCEPT !.fields = Append(@, f.field), !.text = f.rest]

-----------------------------------------------------------------------------
Next ==
    \/ /\ mode = "library"
       /\ \/ \E s \in Servers : Serve(s) /\ UNCHANGED libVars
          \/ \E t \in Threads : LibraryStep(t)
       /\ UNCHANGED <<mode, scriptVars, line>>
    \/ /\ mode = "script"
       /\ ReadReply(ScriptServer) \/ (Serve(ScriptServer) /\ UNCHANGED scriptVars)
       /\ UNCHANGED <<mode, libVars, line>>
    \/ /\ mode = "words"
       /\ Encode \/ Decode
       /\ UNCHANGED <<mode, conn, failed, libVars, scriptVars>>

\* The threads of the daemon go on with what has arrived (they may stop at any
\* time, but need not), and so do the threads of the program; connection_lock
\* and lock are held for a bounded time.
LibraryCall(t) ==
    Connect(t) \/ Socket(t) \/ Connected(t) \/ Check(t) \/ Compare(t)
    \/ Request(t) \/ ReadStatus(t) \/ ReadLines(t)

Fairness ==
    /\ \A s \in Servers :
          /\ WF_vars(/\ ServeCommand(s) \/ ServeRead(s)
                     /\ UNCHANGED <<mode, libVars, scriptVars, line>>)
          /\ WF_vars(ReadReply(s) /\ UNCHANGED <<mode, libVars, line>>)
    /\ \A t \in Threads : WF_vars(LibraryCall(t) /\ UNCHANGED <<mode, scriptVars, line>>)

Spec == Init /\ [][Next]_vars /\ Fairness

-----------------------------------------------------------------------------
(* Properties                                                              *)

\* The answer a thread reads from the shared connection is the answer to its
\* own request, whatever the other threads of the program do to the connection,
\* and a call reports success only if its request was not refused.
AnswerIsMine ==
    \A t \in Threads :
        /\ pc[t] \in {"status", "lines"} =>
              sd_path # "none" /\ \A i \in DOMAIN conn[sd_path].out : conn[sd_path].out[i].id = call[t].id
        /\ pc[t] = "idle" /\ call[t].id # 0 /\ call[t].status = 0 => call[t].id \notin failed

\* Every call of the library returns: a daemon that goes away ends the wait for
\* its answer, and the lock is always given back.  Left out, because the code goes
\* wrong there: rrdc_is_connected compares sd_path without the lock while another
\* thread connects or closes the connection, and ends the program (Crash).
CallsReturn == \A t \in Threads : pc[t] # "idle" ~> pc[t] \in {"idle", "gone"}

\* The answers a script of n commands can expect (rrdcached.pod, BATCH): one for
\* each command outside a batch, one for the dot that ends a batch, none after
\* QUIT or after a command the buffer cannot hold.
Expect[n \in 0 .. Len(script)] ==
    IF n = 0 THEN [ids |-> <<>>, start |-> 0, over |-> FALSE, batches |-> <<>>]
    ELSE LET e == Expect[n - 1]
             c == script[n]
             over == e.over \/ c.len > RbufSize \/ c.name = "QUIT"
         IN  CASE over -> [e EXCEPT !.over = TRUE]
               [] ~over /\ e.start # 0 /\ c.name # "." -> e
               [] ~over /\ e.start # 0 /\ c.name = "." ->
                    [e EXCEPT !.ids = Append(@, n), !.start = 0,
                              !.batches = Append(@, <<e.start, n>>)]
               [] OTHER ->
                    [e EXCEPT !.ids = Append(@, n),
                              !.start = IF c.name = "BATCH" /\ c.name \in Permissions
                                        THEN n ELSE 0]

\* A script that sends its commands without waiting gets one answer for each
\* command it can expect one for, in the order of the commands, however read()
\* cuts the stream, and each status line counts the lines that follow it.
AnswersInOrder ==
    /\ \A i \in DOMAIN replies : replies[i].kind = "status"
    /\ IsPrefix([i \in DOMAIN replies |-> replies[i].id], Expect[Len(script)].ids)

\* The answer to the end of a batch lists exactly the commands of the batch that
\* failed, each with its number in the batch, in order.
BatchReported ==
    \A i \in DOMAIN replies : \A b \in ToSet(Expect[Len(script)].batches) :
        replies[i].id = b[2] =>
            LET bad == failed \cap (b[1] + 1) .. (b[2] - 1) IN
            replies[i].lines = [k \in 1 .. Cardinality(bad) |->
                LET j == CHOOSE x \in bad : Cardinality({y \in bad : y < x}) = k - 1
                IN  Line("error", j, j - b[1])]

\* Every command a script can expect an answer for is answered, unless the
\* connection ends first: in particular a batch that was let in can be ended.
ScriptAnswered ==
    (mode = "script") ~> \/ Len(replies) = Len(Expect[Len(script)].ids)
                        \/ ~conn[ScriptServer].open

\* The fields the daemon finds on a line are the words the client put on it,
\* whatever spaces and backslashes they hold.
WordsKept ==
    /\ IsPrefix(line.fields, line.words)
    /\ line.fields # <<>> /\ line.text = <<>> => line.fields = line.words
=============================================================================
