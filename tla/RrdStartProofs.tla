--------------------------- MODULE RrdStartProofs ---------------------------
(***************************************************************************)
(* What the run of RrdStart checks for three processes and four options,   *)
(* proved for any number of processes and for every command line.          *)
(***************************************************************************)
EXTENDS RrdStart, FiniteSetTheorems, WellFoundedInduction, TLAPS

StartPCs == {"new", "read", "kill", "truncate", "listen", "network", "write",
             "running", "cleanup", "refused", "failed", "killed", "gone", "reused"}

DaemonTypeOK ==
    /\ path \in Procs \cup {0} /\ inode \in [Procs -> Procs \cup {0}]
    /\ fd \in [Procs -> Procs \cup {0}] /\ seen \in [Procs -> Procs \cup {0}]
    /\ socket \in Procs \cup {0} /\ port \in Procs \cup {0}
    /\ pc \in [Procs -> StartPCs]

\* A process that is about to truncate or to write the PID file has it open.
OpenSound ==
    /\ \A p \in Procs : pc[p] \in {"truncate", "listen", "network", "write"} => fd[p] # 0
    /\ \A p \in Procs : pc[p] = "kill" => fd[p] # 0 /\ seen[p] # 0

(* The process ids are numbers other than 0.                               *)
LEMMA ProcsNonzero == 0 \notin Procs
BY StartAssumption

(* The types of a start.                                                   *)
LEMMA StartTyped == Spec => [](DaemonTypeOK /\ OpenSound)
<1>1. Init => DaemonTypeOK /\ OpenSound
  BY DEF Init, DaemonTypeOK, OpenSound, StartPCs
<1>2. DaemonTypeOK /\ OpenSound /\ [Next]_vars => (DaemonTypeOK /\ OpenSound)'
  <2> SUFFICES ASSUME DaemonTypeOK, OpenSound, [Next]_vars
               PROVE  DaemonTypeOK' /\ OpenSound'
    OBVIOUS
  <2>1. CASE UNCHANGED daemonVars
    BY <2>1 DEF DaemonTypeOK, OpenSound, daemonVars
  <2>2. ASSUME NEW p \in Procs, DaemonStep(p) PROVE DaemonTypeOK' /\ OpenSound'
    <3> USE ProcsNonzero DEF DaemonTypeOK, OpenSound, StartPCs, Goes, Ends, PathIs, Ended
    <3>1. CASE Create(p)
      BY <3>1 DEF Create
    <3>2. CASE CheckRead(p)
      BY <3>2 DEF CheckRead
    <3>3. CASE CheckKill(p)
      BY <3>3 DEF CheckKill
    <3>4. CASE Truncate(p)
      BY <3>4 DEF Truncate
    <3>5. CASE Listen(p)
      BY <3>5 DEF Listen
    <3>6. CASE ListenNetwork(p)
      BY <3>6 DEF ListenNetwork
    <3>7. CASE GiveUp(p) \/ Exit(p)
      BY <3>7 DEF GiveUp, Exit
    <3>8. CASE WritePid(p)
      BY <3>8 DEF WritePid
    <3>9. CASE CloseSockets(p)
      BY <3>9 DEF CloseSockets
    <3>10. CASE Killed(p)
      BY <3>10 DEF Killed
    <3>11. CASE Reuse(p)
      BY <3>11 DEF Reuse
    <3> QED BY <2>2, <3>1, <3>2, <3>3, <3>4, <3>5, <3>6, <3>7, <3>8, <3>9, <3>10, <3>11
            DEF DaemonStep
  <2> QED BY <2>1, <2>2 DEF Next, vars
<1> QED BY <1>1, <1>2, PTL DEF Spec

-----------------------------------------------------------------------------
(* Why a daemon is refused                                                 *)

(* However daemons are started, stopped and killed, one after the other or *)
(* at the same time, and whoever gets the ids of those that have ended:    *)
(* check_pidfile refuses a daemon only if another one is alive, or another *)
(* program now has the id it read, or the PID file is gone or empty.       *)
THEOREM StartRefusedForReason == Spec => RefusedForReason
<1>1. ASSUME DaemonTypeOK, OpenSound, [Next]_vars,
             NEW p \in Procs, pc[p] # "refused", pc'[p] = "refused"
      PROVE  \/ \E q \in Procs \ {p} : Alive(q) \/ (q = seen[p] /\ pc[q] = "reused")
             \/ path = 0 \/ inode[path] = 0
  <2>1. PICK r \in Procs : DaemonStep(r)
    BY <1>1 DEF Next, vars, daemonVars
  <2>2. r = p
    BY <1>1, <2>1 DEF DaemonStep, Create, CheckRead, CheckKill, Truncate, Listen,
       ListenNetwork, GiveUp, WritePid, CloseSockets, Exit, Killed, Reuse, Goes, Ends, DaemonTypeOK
  <2>3. CheckRead(p) \/ CheckKill(p)
    BY <1>1, <2>1, <2>2 DEF DaemonStep, Create, Truncate, Listen,
       ListenNetwork, GiveUp, WritePid, CloseSockets, Exit, Killed, Reuse, Goes, Ends, DaemonTypeOK
  <2>4. CASE CheckRead(p)
    BY <1>1, <2>4 DEF CheckRead, Goes, DaemonTypeOK
  <2>5. CASE CheckKill(p)
    <3>1. ~Stale(p) /\ pc[p] = "kill"
      BY <1>1, <2>5 DEF CheckKill, Goes, DaemonTypeOK
    <3>2. seen[p] \in Procs \ {p}
      BY <1>1, <3>1 DEF OpenSound, DaemonTypeOK, Stale
    <3> QED BY <3>1, <3>2 DEF Stale, CanSignal
  <2> QED BY <2>3, <2>4, <2>5
<1>2. DaemonTypeOK /\ OpenSound /\ [Next]_vars =>
        [\A p \in Procs : pc[p] # "refused" /\ pc'[p] = "refused" =>
          \/ \E q \in Procs \ {p} : Alive(q) \/ (q = seen[p] /\ pc[q] = "reused")
          \/ path = 0 \/ inode[path] = 0]_vars
  BY <1>1
<1> QED BY <1>2, StartTyped, PTL DEF Spec, RefusedForReason

-----------------------------------------------------------------------------
(* A daemon that runs can be found                                         *)

Busy(p) == Alive(p) /\ pc[p] # "running"

\* Without overlap one process at most starts or stops, and one that is past the
\* check of the PID file, or stops, is alone.
OneAtATime ==
    /\ \A p, q \in Procs : Busy(p) /\ Busy(q) => p = q
    /\ \A p, q \in Procs :
          pc[p] \in {"truncate", "listen", "network", "write", "cleanup"} => pc[q] # "running"

\* What the process that starts knows of the PID file and of the addresses.
StartsSound ==
    \A p \in Procs :
        /\ pc[p] \in {"kill", "truncate", "listen", "network", "write"} =>
              path # 0 /\ fd[p] = path
        /\ pc[p] = "kill" => seen[p] = inode[path]
        /\ pc[p] \in {"network", "write"} => socket = p
        /\ pc[p] = "write" => port = p

FoundInv == OneAtATime /\ StartsSound /\ DaemonFound

(* Every step keeps the invariant, if no start overlaps with another one.  *)
LEMMA FoundInvariant ==
    ASSUME ~Overlap, DaemonTypeOK, OpenSound, FoundInv, NEW p \in Procs, DaemonStep(p)
    PROVE  FoundInv'
<1> USE ProcsNonzero DEF DaemonTypeOK, StartPCs, FoundInv, OneAtATime, StartsSound,
        DaemonFound, Goes, Ends, PathIs, Busy, Alive, Ended
<1>1. CASE Create(p)
  BY <1>1 DEF Create, Quiet
<1>2. CASE CheckRead(p)
  BY <1>2 DEF CheckRead
<1>3. CASE CheckKill(p)
  BY <1>3 DEF CheckKill, Stale, CanSignal, OpenSound
<1>4. CASE Truncate(p)
  BY <1>4 DEF Truncate
<1>5. CASE Listen(p)
  BY <1>5 DEF Listen
<1>6. CASE ListenNetwork(p)
  BY <1>6 DEF ListenNetwork
<1>7. CASE GiveUp(p)
  BY <1>7 DEF GiveUp
<1>8. CASE WritePid(p)
  BY <1>8 DEF WritePid
<1>9. CASE CloseSockets(p)
  BY <1>9 DEF CloseSockets, Quiet
<1>10. CASE Exit(p)
  BY <1>10 DEF Exit
<1>11. CASE Killed(p)
  BY <1>11 DEF Killed
<1>12. CASE Reuse(p)
  BY <1>12 DEF Reuse
<1> QED BY <1>1, <1>2, <1>3, <1>4, <1>5, <1>6, <1>7, <1>8, <1>9, <1>10, <1>11, <1>12
        DEF DaemonStep

(* When daemons are not started while another one starts or stops, a       *)
(* daemon that runs is named by the PID file and is behind its addresses,  *)
(* whichever processes were killed at any point of their start or end      *)
(* before.                                                                 *)
THEOREM StartDaemonFound == ASSUME ~Overlap PROVE Spec => []DaemonFound
<1>1. Init => FoundInv
  BY DEF Init, FoundInv, OneAtATime, StartsSound, DaemonFound, Busy, Alive, Ended
<1>2. DaemonTypeOK /\ OpenSound /\ FoundInv /\ [Next]_vars => FoundInv'
  <2> SUFFICES ASSUME DaemonTypeOK, OpenSound, FoundInv, [Next]_vars PROVE FoundInv'
    OBVIOUS
  <2>1. CASE UNCHANGED daemonVars
    BY <2>1 DEF daemonVars, FoundInv, OneAtATime, StartsSound, DaemonFound, Busy, Alive
  <2> QED BY <2>1, FoundInvariant DEF Next, vars
<1>3. FoundInv => DaemonFound
  BY DEF FoundInv
<1> QED BY <1>1, <1>2, <1>3, StartTyped, PTL DEF Spec

-----------------------------------------------------------------------------
(* The permissions of the sockets                                          *)

Configs ==
    [perm : SUBSET All, sockets : Seq(SUBSET All), flush : BOOLEAN, journal : BOOLEAN,
     base : BOOLEAN, baseOnly : BOOLEAN, threads : Nat, status : Int, ended : BOOLEAN]

OptionsTypeOK == given \in Seq(Options) /\ config \in Configs

\* The permissions in force are those of the last -P.
PermSound ==
    IF PsBefore(given, Len(given) + 1) = {} THEN config.perm = {}
    ELSE config.perm = Asked(given, Len(given) + 1)

\* The n-th socket is that of the n-th -l.
SocketsSound ==
    /\ Len(config.sockets) = Cardinality(LsUpTo(given, Len(given)))
    /\ \A i \in DOMAIN given : given[i].opt = "l" =>
          /\ Cardinality(LsUpTo(given, i)) \in 1 .. Len(config.sockets)
          /\ Asked(given, i) # {} =>
                config.sockets[Cardinality(LsUpTo(given, i))] = Asked(given, i)

OptionsInv ==
    /\ OptionsTypeOK
    /\ ~config.ended => PermSound /\ SocketsSound
    /\ config.ended /\ config.status = 0 =>
          /\ \A i \in DOMAIN given : given[i].opt = "l" /\ Asked(given, i) # {} =>
                config.sockets[Cardinality(LsUpTo(given, i))] = Asked(given, i)
          /\ LsUpTo(given, Len(given)) = {} /\ Asked(given, Len(given) + 1) # {} =>
                config.sockets = <<Asked(given, Len(given) + 1)>>

(* Reading an option adds a socket, or sets the permissions, or changes    *)
(* neither of them; or it ends the program with an error.                  *)
LEMMA ReadOptionFacts ==
    ASSUME config \in Configs, ~config.ended, NEW o \in Options,
           NEW c, c = ReadOption(config, o)
    PROVE  /\ c \in Configs
           /\ \/ c.ended /\ c.status # 0
              \/ /\ ~c.ended /\ o.opt = "l" /\ c.perm = config.perm
                 /\ c.sockets = Append(config.sockets, SocketPermissions(config))
              \/ /\ ~c.ended /\ o.opt = "P" /\ c.perm = Known(o)
                 /\ c.sockets = config.sockets
              \/ /\ ~c.ended /\ o.opt \notin {"l", "P"} /\ c.perm = config.perm
                 /\ c.sockets = config.sockets
<1>1. Code(o) \in Int /\ Code(o) # 0
  BY DEF Code
<1>2. SocketPermissions(config) \in SUBSET All
  BY DEF Configs, SocketPermissions
<1>3. Known(o) \in SUBSET All
  BY DEF Known
<1>4. UsageStatus(o) \in Int
  BY DEF UsageStatus
<1>5. CASE Fatal(o)
  <2>1. c = [config EXCEPT !.status = Code(o), !.ended = TRUE]
    BY <1>5 DEF ReadOption
  <2> QED BY <1>1, <2>1 DEF Configs
<1>6. CASE ~Fatal(o) /\ o.opt = "l"
  <2>1. c = [config EXCEPT !.sockets = Append(@, SocketPermissions(config))]
    BY <1>6 DEF ReadOption
  <2>2. Append(config.sockets, SocketPermissions(config)) \in Seq(SUBSET All)
    BY <1>2 DEF Configs
  <2> QED BY <1>6, <2>1, <2>2 DEF Configs
<1>7. CASE ~Fatal(o) /\ o.opt = "P"
  <2>1. c = SetPermissions(config, o)
    BY <1>7 DEF ReadOption
  <2> DEFINE n == PermissionStatus(config.status, o)
  <2>2. c = [config EXCEPT !.perm = Known(o), !.status = n]
    BY <2>1, Zenon DEF SetPermissions
  <2>3. n \in Int
    <3>1. config.status \in Int
      BY DEF Configs
    <3> QED BY <3>1 DEF PermissionStatus
  <2> HIDE DEF n
  <2> QED BY <1>3, <1>7, <2>2, <2>3 DEF Configs
<1>8. CASE ~Fatal(o) /\ o.opt \notin {"l", "P"}
  <2>1. ASSUME NEW n \in Int, c = [config EXCEPT !.status = n]
        PROVE  c \in Configs /\ c.ended = config.ended /\ c.perm = config.perm
               /\ c.sockets = config.sockets
    BY <2>1 DEF Configs
  <2>2. CASE o.opt \in {"f", "w", "z"}
    <3> DEFINE n == IF o.opt = "f" THEN 3 ELSE 2
    <3>1. c = config \/ c = [config EXCEPT !.status = n]
      BY <1>8, <2>2 DEF ReadOption
    <3>2. n \in Int
      OBVIOUS
    <3> HIDE DEF n
    <3> QED BY <1>8, <2>1, <3>1, <3>2
  <2>3. CASE o.opt = "t"
    BY <1>8, <2>3 DEF ReadOption, Configs
  <2>4. CASE o.opt = "B"
    BY <1>8, <2>4 DEF ReadOption, Configs
  <2>5. CASE o.opt = "b"
    BY <1>8, <2>5 DEF ReadOption, Configs
  <2>6. CASE o.opt = "F"
    BY <1>8, <2>6 DEF ReadOption, Configs
  <2>7. CASE o.opt = "j"
    <3>1. c = JournalOption(config)
      BY <1>8, <2>7 DEF ReadOption
    <3>2. c \in Configs /\ c.ended = config.ended /\ c.perm = config.perm
          /\ c.sockets = config.sockets
      <4> DEFINE d == [config EXCEPT !.journal = TRUE]
      <4>1. d \in Configs /\ d.ended = config.ended /\ d.perm = config.perm
            /\ d.sockets = config.sockets
        BY DEF Configs
      <4>2. c = [d EXCEPT !.status = 0]
        BY <3>1 DEF JournalOption, Configs
      <4> HIDE DEF d
      <4> QED BY <4>1, <4>2 DEF Configs
    <3> QED BY <1>8, <2>7, <3>2
  <2>8. CASE o.opt \in {"h", "?"}
    <3>1. c = [config EXCEPT !.status = UsageStatus(o)]
      BY <1>8, <2>8 DEF ReadOption
    <3> QED BY <1>4, <1>8, <2>1, <3>1
  <2>9. CASE o.opt \notin {"f", "w", "z", "t", "B", "b", "F", "j", "h", "?"}
    BY <1>8, <2>9 DEF ReadOption
  <2> QED BY <2>2, <2>3, <2>4, <2>5, <2>6, <2>7, <2>8, <2>9
<1> QED BY <1>5, <1>6, <1>7, <1>8

(* A set of numbers up to n that is not empty has a greatest element.      *)
LEMMA MaxExists ==
    ASSUME NEW n \in Int, NEW S \in SUBSET (1 .. n), S # {}
    PROVE  \E j \in S : \A k \in S : k <= j
<1> DEFINE D == {n - x : x \in S}
<1>1. D \in SUBSET Nat /\ D # {}
  <2>1. \A x \in S : n - x \in Nat
    OBVIOUS
  <2> QED BY <2>1
<1>2. PICK d \in D : \A e \in D : d <= e
  <2>1. PICK d \in D : \A e \in D : ~(<<e, d>> \in OpToRel(<, Nat))
    BY <1>1, NatLessThanWellFounded, WFMin
  <2>2. ASSUME NEW e \in D PROVE d <= e
    <3>1. d \in Nat /\ e \in Nat
      BY <1>1
    <3>2. ~(e < d)
      <4>1. <<e, d>> \notin {ss \in Nat \X Nat : ss[1] < ss[2]}
        BY <2>1 DEF OpToRel
      <4> QED BY <3>1, <4>1
    <3> QED BY <3>1, <3>2
  <2> QED BY <2>2
<1>3. PICK j \in S : d = n - j
  BY <1>2
<1>4. \A k \in S : n - k \in D
  OBVIOUS
<1>5. \A k \in S : k <= j
  BY <1>2, <1>3, <1>4
<1> QED BY <1>5

(* The last element of a set of numbers is the one no other one exceeds.   *)
LEMMA LastOfIs ==
    ASSUME NEW S \in SUBSET Nat, NEW j \in S, \A k \in S : k <= j
    PROVE  LastOf(S) = j
<1>1. LastOf(S) \in S /\ \A k \in S : k <= LastOf(S)
  BY Zenon DEF LastOf
<1>2. LastOf(S) \in Nat /\ j \in Nat /\ LastOf(S) <= j /\ j <= LastOf(S)
  BY <1>1
<1> QED BY <1>2

(* An option that is read later changes nothing for those before it.       *)
LEMMA LaterOption ==
    ASSUME NEW g \in Seq(Options), NEW o \in Options
    PROVE  /\ \A i \in 1 .. Len(g) + 1 : PsBefore(Append(g, o), i) = PsBefore(g, i)
           /\ \A i \in 1 .. Len(g) : LsUpTo(Append(g, o), i) = LsUpTo(g, i)
           /\ \A i \in 1 .. Len(g) + 1 : Asked(Append(g, o), i) = Asked(g, i)
<1>1. /\ Append(g, o) \in Seq(Options) /\ Len(Append(g, o)) = Len(g) + 1
      /\ \A i \in 1 .. Len(g) : Append(g, o)[i] = g[i]
      /\ Append(g, o)[Len(g) + 1] = o
  OBVIOUS
<1>2. \A i \in 1 .. Len(g) + 1 : PsBefore(Append(g, o), i) = PsBefore(g, i)
  BY <1>1 DEF PsBefore
<1>3. \A i \in 1 .. Len(g) : LsUpTo(Append(g, o), i) = LsUpTo(g, i)
  BY <1>1 DEF LsUpTo
<1>4. ASSUME NEW i \in 1 .. Len(g) + 1 PROVE Asked(Append(g, o), i) = Asked(g, i)
  <2>1. CASE PsBefore(g, i) = {}
    BY <1>2, <2>1 DEF Asked
  <2>2. CASE PsBefore(g, i) # {}
    <3> DEFINE S == PsBefore(g, i)
    <3>1. S \in SUBSET (1 .. i - 1)
      BY DEF PsBefore
    <3>2. PICK j \in S : \A k \in S : k <= j
      <4>1. i - 1 \in Int /\ S # {}
        BY <2>2
      <4> HIDE DEF S
      <4> QED BY <3>1, <4>1, MaxExists
    <3>3. S \in SUBSET Nat /\ j \in 1 .. Len(g)
      BY <3>1
    <3>4. LastOf(S) = j
      BY <3>2, <3>3, LastOfIs
    <3> QED BY <1>1, <1>2, <2>2, <3>3, <3>4 DEF Asked
  <2> QED BY <2>1, <2>2
<1> QED BY <1>2, <1>3, <1>4

(* The -l options are counted one by one.                                  *)
LEMMA LsCount ==
    ASSUME NEW g \in Seq(Options), NEW o \in Options
    PROVE  /\ Cardinality(LsUpTo(g, Len(g))) \in Nat
           /\ Cardinality(LsUpTo(Append(g, o), Len(g) + 1)) =
                Cardinality(LsUpTo(g, Len(g))) + (IF o.opt = "l" THEN 1 ELSE 0)
<1> DEFINE h == Append(g, o)
           n == Len(g)
           S == LsUpTo(g, n)
<1>1. /\ h \in Seq(Options) /\ n \in Nat
      /\ \A i \in 1 .. n : h[i] = g[i]
      /\ h[n + 1] = o
  OBVIOUS
<1>2. IsFiniteSet(S) /\ Cardinality(S) \in Nat
  <2>1. IsFiniteSet(1 .. n) /\ S \in SUBSET (1 .. n)
    BY <1>1, FS_Interval DEF LsUpTo
  <2>2. IsFiniteSet(S)
    BY <2>1, FS_Subset
  <2> QED BY <2>2, FS_CardinalityType
<1>3. CASE o.opt = "l"
  <2>1. LsUpTo(h, n + 1) = S \cup {n + 1} /\ n + 1 \notin S
    BY <1>1, <1>3 DEF LsUpTo
  <2> HIDE DEF S
  <2>2. Cardinality(S \cup {n + 1}) = Cardinality(S) + 1
    BY <1>2, <2>1, FS_AddElement
  <2> QED BY <1>2, <1>3, <2>1, <2>2 DEF S
<1>4. CASE o.opt # "l"
  <2>1. LsUpTo(h, n + 1) = S
    BY <1>1, <1>4 DEF LsUpTo
  <2> QED BY <1>2, <1>4, <2>1
<1> QED BY <1>2, <1>3, <1>4

(* An option keeps the invariant.                                          *)
LEMMA OptionKeeps ==
    ASSUME OptionsInv, NEW o \in Options, Option(o)
    PROVE  OptionsInv'
<1> DEFINE g == given
           n == Len(given)
           s == config.sockets
           N(i) == Cardinality(LsUpTo(given, i))
<1>0. /\ given \in Seq(Options) /\ config \in Configs /\ ~config.ended
      /\ PermSound /\ SocketsSound
      /\ given' = Append(given, o) /\ config' = ReadOption(config, o)
      /\ given' \in Seq(Options) /\ Len(given') = Len(given) + 1 /\ Len(given) \in Nat
      /\ \A i \in 1 .. Len(given) : given'[i] = given[i]
      /\ given'[Len(given) + 1] = o
      /\ config.sockets \in Seq(SUBSET All)
  BY DEF OptionsInv, OptionsTypeOK, Option, Configs
<1>1. /\ config' \in Configs
      /\ \/ config'.ended /\ config'.status # 0
         \/ /\ ~config'.ended /\ o.opt = "l" /\ config'.perm = config.perm
            /\ config'.sockets = Append(config.sockets, SocketPermissions(config))
         \/ /\ ~config'.ended /\ o.opt = "P" /\ config'.perm = Known(o)
            /\ config'.sockets = config.sockets
         \/ /\ ~config'.ended /\ o.opt \notin {"l", "P"} /\ config'.perm = config.perm
            /\ config'.sockets = config.sockets
  BY <1>0, ReadOptionFacts
<1>2. /\ \A i \in 1 .. n + 1 : PsBefore(given', i) = PsBefore(g, i)
      /\ \A i \in 1 .. n : LsUpTo(given', i) = LsUpTo(g, i)
      /\ \A i \in 1 .. n + 1 : Asked(given', i) = Asked(g, i)
      /\ N(n) \in Nat
      /\ Cardinality(LsUpTo(given', n + 1)) = N(n) + (IF o.opt = "l" THEN 1 ELSE 0)
  BY <1>0, LaterOption, LsCount, Zenon
<1>3. /\ Len(s) = N(n)
      /\ \A i \in 1 .. n : given[i].opt = "l" =>
            N(i) \in 1 .. Len(s) /\ (Asked(g, i) # {} => s[N(i)] = Asked(g, i))
  BY <1>0 DEF SocketsSound
<1>4. OptionsTypeOK'
  BY <1>0, <1>1 DEF OptionsTypeOK
<1>5. ASSUME ~config'.ended PROVE PermSound'
  <2>1. CASE o.opt = "P"
    <3>1. n + 1 \in PsBefore(given', n + 2) /\ PsBefore(given', n + 2) \in SUBSET Nat
          /\ \A k \in PsBefore(given', n + 2) : k <= n + 1
      BY <1>0, <2>1 DEF PsBefore
    <3>2. LastOf(PsBefore(given', n + 2)) = n + 1
      BY <3>1, LastOfIs
    <3>3. Asked(given', n + 2) = Known(o)
      BY <1>0, <3>1, <3>2 DEF Asked
    <3>4. config'.perm = Known(o)
      BY <1>1, <1>5, <2>1
    <3>5. Len(given') + 1 = n + 2
      BY <1>0
    <3> QED BY <3>1, <3>3, <3>4, <3>5 DEF PermSound
  <2>2. CASE o.opt # "P"
    <3>1. PsBefore(given', n + 2) = PsBefore(g, n + 1)
      BY <1>0, <2>2 DEF PsBefore
    <3>2. config'.perm = config.perm
      BY <1>1, <1>5, <2>2
    <3>3. CASE PsBefore(g, n + 1) = {}
      BY <1>0, <3>1, <3>2, <3>3 DEF PermSound
    <3>4. CASE PsBefore(g, n + 1) # {}
      <4> DEFINE S == PsBefore(g, n + 1)
      <4>1. S \in SUBSET (1 .. n)
        BY <1>0 DEF PsBefore
      <4>2. PICK j \in S : \A k \in S : k <= j
        <5>1. n \in Int /\ S # {}
          BY <1>0, <3>4
        <5> HIDE DEF S
        <5> QED BY <4>1, <5>1, MaxExists
      <4>3. S \in SUBSET Nat /\ j \in 1 .. n
        BY <4>1
      <4>4. LastOf(S) = j
        BY <4>2, <4>3, LastOfIs
      <4>5. Asked(given', n + 2) = Asked(g, n + 1)
        BY <1>0, <3>1, <3>4, <4>3, <4>4 DEF Asked
      <4>6. Len(given') + 1 = n + 2
        BY <1>0
      <4> QED BY <1>0, <3>1, <3>2, <3>4, <4>5, <4>6 DEF PermSound
    <3> QED BY <3>3, <3>4
  <2> QED BY <2>1, <2>2
<1>6. ASSUME ~config'.ended PROVE SocketsSound'
  <2>1. ASSUME NEW i \in 1 .. n, given[i].opt = "l", Len(config'.sockets) >= Len(s),
               \A k \in 1 .. Len(s) : config'.sockets[k] = s[k], Len(config'.sockets) \in Nat
        PROVE  /\ Cardinality(LsUpTo(given', i)) \in 1 .. Len(config'.sockets)
               /\ Asked(given', i) # {} =>
                     config'.sockets[Cardinality(LsUpTo(given', i))] = Asked(given', i)
    <3>1. /\ LsUpTo(given', i) = LsUpTo(g, i) /\ Asked(given', i) = Asked(g, i)
          /\ N(i) \in 1 .. Len(s) /\ (Asked(g, i) # {} => s[N(i)] = Asked(g, i))
      BY <1>0, <1>2, <1>3, <2>1
    <3> QED BY <1>0, <2>1, <3>1
  <2>2. CASE o.opt = "l"
    <3>1. /\ config'.sockets = Append(s, SocketPermissions(config))
          /\ SocketPermissions(config) \in SUBSET All
      BY <1>0, <1>1, <1>6, <2>2 DEF SocketPermissions, Configs
    <3>2. /\ Len(config'.sockets) = Len(s) + 1 /\ Len(s) \in Nat
          /\ \A k \in 1 .. Len(s) : config'.sockets[k] = s[k]
          /\ config'.sockets[Len(s) + 1] = SocketPermissions(config)
      BY <1>0, <3>1
    <3>3. Cardinality(LsUpTo(given', n + 1)) = Len(s) + 1
      BY <1>2, <1>3, <2>2
    <3>4. Asked(given', n + 1) # {} => SocketPermissions(config) = Asked(given', n + 1)
      <4>1. Asked(given', n + 1) = Asked(g, n + 1)
        BY <1>0, <1>2
      <4>2. CASE PsBefore(g, n + 1) = {}
        BY <1>0, <4>1, <4>2 DEF PermSound, SocketPermissions, Asked
      <4>3. CASE PsBefore(g, n + 1) # {}
        BY <1>0, <4>1, <4>3 DEF PermSound, SocketPermissions
      <4> QED BY <4>2, <4>3
    <3>5. ASSUME NEW i \in 1 .. n + 1, given'[i].opt = "l"
          PROVE  /\ Cardinality(LsUpTo(given', i)) \in 1 .. Len(config'.sockets)
                 /\ Asked(given', i) # {} =>
                       config'.sockets[Cardinality(LsUpTo(given', i))] = Asked(given', i)
      <4>1. CASE i = n + 1
        BY <3>2, <3>3, <3>4, <4>1
      <4>2. CASE i # n + 1
        <5>1. i \in 1 .. n /\ given[i].opt = "l"
          BY <1>0, <3>5, <4>2
        <5> QED BY <2>1, <3>2, <5>1
      <4> QED BY <4>1, <4>2
    <3>6. Len(config'.sockets) = Cardinality(LsUpTo(given', Len(given')))
      BY <1>0, <3>2, <3>3
    <3>7. DOMAIN given' = 1 .. n + 1
      BY <1>0
    <3> QED BY <3>5, <3>6, <3>7 DEF SocketsSound
  <2>3. CASE o.opt # "l"
    <3>1. config'.sockets = s
      BY <1>1, <1>6, <2>3
    <3>2. Len(config'.sockets) = Cardinality(LsUpTo(given', Len(given')))
      BY <1>0, <1>2, <1>3, <2>3, <3>1
    <3>3. \A i \in DOMAIN given' : given'[i].opt = "l" => i \in 1 .. n /\ given[i].opt = "l"
      BY <1>0, <2>3
    <3>4. Len(s) \in Nat
      BY <1>0
    <3> QED BY <2>1, <3>1, <3>2, <3>3, <3>4 DEF SocketsSound
  <2> QED BY <2>2, <2>3
<1> QED BY <1>1, <1>4, <1>5, <1>6 DEF OptionsInv

(* The end of the command line keeps the invariant.                        *)
LEMMA OptionsEndKeeps ==
    ASSUME OptionsInv, OptionsEnd
    PROVE  OptionsInv'
<1>0. /\ given \in Seq(Options) /\ config \in Configs /\ ~config.ended
      /\ PermSound /\ SocketsSound /\ given' = given /\ config.sockets \in Seq(SUBSET All)
  BY DEF OptionsInv, OptionsTypeOK, OptionsEnd, Configs
<1>1. SocketPermissions(config) \in SUBSET All
  BY <1>0 DEF Configs, SocketPermissions
<1> DEFINE new == IF config.sockets = <<>> THEN <<SocketPermissions(config)>> ELSE config.sockets
           flush == config.flush \/ ~config.journal
<1>2. new \in Seq(SUBSET All) /\ flush \in BOOLEAN
  <2>1. new \in Seq(SUBSET All)
    <3>1. ASSUME NEW T, NEW x \in T PROVE <<x>> \in Seq(T)
      OBVIOUS
    <3> QED BY <1>0, <1>1, <3>1, Zenon
  <2>2. flush \in BOOLEAN
    BY Zenon
  <2> QED BY <2>1, <2>2
<1>3. config' = [config EXCEPT !.ended = TRUE, !.flush = flush, !.sockets = new]
  BY Zenon DEF OptionsEnd
<1>4. /\ config.sockets # <<>> => new = config.sockets
      /\ config.sockets = <<>> => new = <<SocketPermissions(config)>>
  OBVIOUS
<1> HIDE DEF new, flush
<1>5. config' \in Configs /\ config'.ended /\ config'.sockets = new
  BY <1>0, <1>2, <1>3 DEF Configs
<1>6. ASSUME NEW i \in DOMAIN given, given[i].opt = "l", Asked(given, i) # {}
      PROVE  config'.sockets[Cardinality(LsUpTo(given, i))] = Asked(given, i)
  <2>1. /\ Cardinality(LsUpTo(given, i)) \in 1 .. Len(config.sockets)
        /\ config.sockets[Cardinality(LsUpTo(given, i))] = Asked(given, i)
    BY <1>0, <1>6 DEF SocketsSound
  <2>2. config.sockets # <<>>
    BY <2>1
  <2> QED BY <1>4, <1>5, <2>1, <2>2
<1>7. ASSUME LsUpTo(given, Len(given)) = {}, Asked(given, Len(given) + 1) # {}
      PROVE  config'.sockets = <<Asked(given, Len(given) + 1)>>
  <2>1. config.sockets = <<>>
    <3>1. Len(config.sockets) = 0
      BY <1>0, <1>7, FS_EmptySet DEF SocketsSound
    <3> QED BY <1>0, <3>1
  <2>2. SocketPermissions(config) = Asked(given, Len(given) + 1)
    <3>1. CASE PsBefore(given, Len(given) + 1) = {}
      BY <1>0, <3>1 DEF PermSound, SocketPermissions, Asked
    <3>2. CASE PsBefore(given, Len(given) + 1) # {}
      BY <1>0, <1>7, <3>2 DEF PermSound, SocketPermissions
    <3> QED BY <3>1, <3>2
  <2> QED BY <1>4, <1>5, <2>1, <2>2
<1> QED BY <1>0, <1>5, <1>6, <1>7 DEF OptionsInv, OptionsTypeOK

(* A socket is asked to take at least one command, if every -P names one.  *)
LEMMA AskedSome ==
    ASSUME NEW g \in Seq(Options), \A j \in DOMAIN g : g[j].opt = "P" => Known(g[j]) # {},
           NEW i \in 1 .. Len(g) + 1
    PROVE  Asked(g, i) # {}
<1>1. CASE PsBefore(g, i) = {}
  BY <1>1 DEF Asked, All
<1>2. CASE PsBefore(g, i) # {}
  <2> DEFINE S == PsBefore(g, i)
  <2>1. S \in SUBSET (1 .. i - 1)
    BY DEF PsBefore
  <2>2. PICK j \in S : \A k \in S : k <= j
    <3>1. i - 1 \in Int /\ S # {}
      BY <1>2
    <3> HIDE DEF S
    <3> QED BY <2>1, <3>1, MaxExists
  <2>3. S \in SUBSET Nat /\ j \in DOMAIN g /\ g[j].opt = "P"
    BY <2>1 DEF PsBefore
  <2>4. LastOf(S) = j
    BY <2>2, <2>3, LastOfIs
  <2> QED BY <1>2, <2>3, <2>4 DEF Asked
<1> QED BY <1>1, <1>2

(* Once a command line whose every -P names a command that exists is       *)
(* accepted, every socket takes the commands of the last -P before its -l, *)
(* and all of them if there was none, and the default socket those of the  *)
(* last -P if no -l is given, for every number and order of options        *)
(* (read_options, daemonize).                                              *)
THEOREM StartSocketsRestricted == Spec => []SocketsRestricted
<1>1. Init => OptionsInv
  <2> SUFFICES ASSUME Init PROVE OptionsInv
    OBVIOUS
  <2>1. /\ given = <<>> /\ config.perm = {} /\ config.sockets = <<>> /\ ~config.ended
        /\ config \in Configs
    BY DEF Init, Configs
  <2>2. PsBefore(given, Len(given) + 1) = {} /\ LsUpTo(given, Len(given)) = {}
    BY <2>1 DEF PsBefore, LsUpTo
  <2>3. PermSound /\ SocketsSound
    <3>1. Cardinality({}) = 0 /\ Len(<<>>) = 0 /\ DOMAIN <<>> = {}
      BY FS_EmptySet
    <3> QED BY <2>1, <2>2, <3>1, Zenon DEF PermSound, SocketsSound
  <2> QED BY <2>1, <2>3 DEF OptionsInv, OptionsTypeOK
<1>2. OptionsInv /\ [Next]_vars => OptionsInv'
  <2> SUFFICES ASSUME OptionsInv, [Next]_vars PROVE OptionsInv'
    OBVIOUS
  <2>1. CASE UNCHANGED optionVars
    BY <2>1 DEF optionVars, OptionsInv, OptionsTypeOK, PermSound, SocketsSound
  <2> QED BY <2>1, OptionKeeps, OptionsEndKeeps DEF Next, vars
<1>3. OptionsInv => SocketsRestricted
  <2> SUFFICES ASSUME OptionsInv, config.ended, config.status = 0,
                      \A i \in DOMAIN given : given[i].opt = "P" => Known(given[i]) # {}
               PROVE  /\ \A i \in DOMAIN given : given[i].opt = "l" =>
                            config.sockets[Cardinality(LsUpTo(given, i))] = Asked(given, i)
                      /\ LsUpTo(given, Len(given)) = {} =>
                            config.sockets = <<Asked(given, Len(given) + 1)>>
    BY DEF SocketsRestricted
  <2>1. given \in Seq(Options)
    BY DEF OptionsInv, OptionsTypeOK
  <2>2. \A i \in 1 .. Len(given) + 1 : Asked(given, i) # {}
    BY <2>1, AskedSome
  <2>3. DOMAIN given \subseteq 1 .. Len(given) + 1 /\ Len(given) + 1 \in 1 .. Len(given) + 1
    BY <2>1
  <2> QED BY <2>2, <2>3 DEF OptionsInv
<1> QED BY <1>1, <1>2, <1>3, PTL DEF Spec
=============================================================================
