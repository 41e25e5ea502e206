------------------------------- MODULE RrdRpn -------------------------------
(***************************************************************************)
(* rrd_rpncalc.c for COMPUTE data sources: the text of an expression is    *)
(* parsed into nodes, which the file keeps in a compact form, and from     *)
(* which rrd_dump makes a text again; an update runs them on a stack.      *)
(*                                                                         *)
(* A text is a sequence of tokens [kind, arg]: a "number", a "word" or     *)
(* "prev", for PREV(word); an "empty" one lies between two commas.  A node *)
(* is [op, arg].  TREND, TRENDNAN, PREDICT, PREDICTSIGMA, TIME, LTIME,     *)
(* COUNT and PREV are refused for data sources, and not calculated here.   *)
(***************************************************************************)
EXTENDS Integers, Sequences, ExtRationals
LOCAL INSTANCE FiniteSetsExt
LOCAL INSTANCE SequencesExt
LOCAL INSTANCE TLC

CONSTANTS Library(_, _),    \* SIN, COS, ... : what the C library computes
          NanCount          \* what a build makes of DNAN and infinity as a count: a
                            \* number below 0, or one that no stack is large enough for

Refused == {"TIME", "LTIME", "PREV", "COUNT", "TREND", "TRENDNAN", "PREDICT", "PREDICTSIGMA"}
Constant == {"UNKN", "INF", "NEGINF", "NOW"}
Unary == {"SIN", "COS", "LOG", "EXP", "ATAN", "SQRT", "RAD2DEG", "DEG2RAD",
          "FLOOR", "CEIL", "ABS", "UN", "ISINF"}
Binary == {"+", "-", "*", "/", "%", "ATAN2", "ADDNAN", "LT", "LE", "GT", "GE", "EQ", "NE",
           "MIN", "MAX"}
Ternary == {"IF", "LIMIT"}
Counted == {"AVG", "SORT", "REV"}
Operators == Refused \cup Constant \cup Unary \cup Binary \cup Ternary \cup Counted
             \cup {"DUP", "EXC", "POP"}

SHRT_MAX == 32767
DS_CDEF_MAX_RPN_NODES == 20

NoProgram == [ok |-> FALSE]
Node(op, arg) == [op |-> op, arg |-> arg]
Floor(x) == x[1] \div x[2]
Cut(x) == IF x[1] < 0 THEN -((-x[1]) \div x[2]) ELSE Floor(x)   \* to an integer

-----------------------------------------------------------------------------
(* rpn_parse, parseCDEF_DS, rpn_compact, rpn_compact2str                   *)

\* lookup_DS: the first data source of this name, or 0.
Lookup(names, word) ==
    IF word \in Range(names) THEN Min({k \in DOMAIN names : names[k] = word}) ELSE 0

\* A number is one only if a comma follows; an operator goes before a data source.
ParseToken(text, k, names) ==
    LET token == text[k]
        at == Lookup(names, token.arg)
    IN  CASE token.kind = "number" /\ k < Len(text) -> Node("NUMBER", token.arg)
          [] token.kind = "word" /\ token.arg \in Operators -> Node(token.arg, 0)
          [] token.kind = "word" /\ token.arg \notin Operators /\ at > 0 -> Node("VARIABLE", at)
          [] token.kind = "prev" /\ at > 0 -> Node("PREV_OTHER", at)
          [] OTHER -> Node("none", 0)

\* Constants are cut down to integers, which have to fit into a short.
Compact(node) == IF node.op = "NUMBER" THEN Node("NUMBER", Num(Floor(node.arg))) ELSE node

\* An empty text ends the process instead: rpn_parse writes to an array it has not
\* allocated.
ParseCdef(text, names) ==
    LET nodes == [k \in DOMAIN text |-> ParseToken(text, k, names)]
        fits(node) == node.op = "NUMBER" => Floor(node.arg) \in (-SHRT_MAX - 1)..SHRT_MAX
    IN  IF /\ text # << >>
           /\ \A k \in DOMAIN nodes : nodes[k].op \notin Refused \cup {"none"} /\ fits(nodes[k])
           /\ Len(nodes) < DS_CDEF_MAX_RPN_NODES
        THEN [ok |-> TRUE, cdef |-> [k \in DOMAIN nodes |-> Compact(nodes[k])]]
        ELSE NoProgram

\* Nothing is written for PREV(x): addop2str is asked for OP_VARIABLE.
CompactToStr(cdef, names) ==
    [k \in DOMAIN cdef |->
        CASE cdef[k].op = "NUMBER" -> [kind |-> "number", arg |-> cdef[k].arg]
          [] cdef[k].op = "VARIABLE" -> [kind |-> "word", arg |-> names[cdef[k].arg]]
          [] cdef[k].op \in Operators -> [kind |-> "word", arg |-> cdef[k].op]
          [] OTHER -> [kind |-> "empty", arg |-> ""]]

-----------------------------------------------------------------------------
(* rpn_calc: the stack grows to the right                                  *)

Truth(b) == IF b THEN Num(1) ELSE Num(0)
Negative(x) == Times(Num(-1), x)
IsInf(x) == x[2] = 0 /\ ~IsNan(x)

\* fmod has the sign of the first argument.
Mod(x, y) ==
    LET q == Over(x, y)
    IN  CASE q[2] = 0 -> DNAN
          [] q[2] # 0 /\ IsInf(y) -> x
          [] OTHER -> Plus(x, Negative(Times(y, Num(Cut(q)))))

CalcUnary(op, x) ==
    CASE op = "UN" -> Truth(IsNan(x))
      [] op = "ISINF" -> Truth(IsInf(x))
      [] op = "ABS" -> IF x[1] < 0 THEN Negative(x) ELSE x
      [] op = "FLOOR" -> IF x[2] = 0 THEN x ELSE Num(Floor(x))
      [] op = "CEIL" -> IF x[2] = 0 THEN x ELSE Num(-Floor(Negative(x)))
      [] OTHER -> Library(op, <<x>>)

\* Neither is DNAN.
Compare(op, x, y) ==
    CASE op = "LT" -> Truth(Less(x, y))
      [] op = "LE" -> Truth(~Less(y, x))
      [] op = "GT" -> Truth(Less(y, x))
      [] op = "GE" -> Truth(~Less(x, y))
      [] op = "EQ" -> Truth(x = y)
      [] op = "NE" -> Truth(x # y)
      [] op = "MIN" -> IF Less(y, x) THEN y ELSE x
      [] op = "MAX" -> IF Less(x, y) THEN y ELSE x

CalcBinary(op, x, y) ==
    CASE op = "+" -> Plus(x, y)
      [] op = "-" -> Plus(x, Negative(y))
      [] op = "*" -> Times(x, y)
      [] op = "/" -> Over(x, y)
      [] op = "%" -> Mod(x, y)
      [] op = "ADDNAN" -> IF IsNan(x) THEN y ELSE IF IsNan(y) THEN x ELSE Plus(x, y)
      [] op = "ATAN2" -> Library(op, <<x, y>>)
      [] OTHER -> IF IsNan(x) \/ IsNan(y) THEN DNAN ELSE Compare(op, x, y)

CalcTernary(op, x, y, z) ==
    IF op = "IF" THEN (IF IsNan(x) \/ x = Num(0) THEN z ELSE y)
    ELSE IF IsNan(x) \/ IsNan(y) \/ IsNan(z) \/ Less(x, y) \/ Less(z, x) THEN DNAN ELSE x

Mean(values) ==
    LET known == SelectSeq(values, LAMBDA x : ~IsNan(x))
    IN  Over(FoldLeft(Plus, Num(0), known), Num(Len(known)))

\* What AVG, SORT and REV leave of the values they were given.
CalcCounted(op, values) ==
    CASE op = "AVG" -> <<IF values = << >> THEN DNAN ELSE Mean(values)>>
      [] op = "REV" -> Reverse(values)
      [] op = "SORT" -> SortSeq(values, Less)

\* A slip to guard against: the size of the stack is off by one.
NeedsMore(op) ==
    CASE op \in Unary \cup Counted \cup {"DUP", "POP"} -> 1
      [] op \in Binary \cup Ternary \cup {"EXC"} -> 3
      [] OTHER -> 0

\* stackunderflow
Needs(op) ==
    CASE op \in Unary \cup Counted \cup {"DUP", "POP"} -> 1
      [] op \in Binary \cup {"EXC"} -> 2
      [] op \in Ternary -> 3
      [] OTHER -> 0

\* One node.  A count is cut down to an integer; one below 0 passes the check for an
\* underflow, and stands for no values except for SORT, which hands it to qsort as an
\* enormous size: the process ends.
Exec(st, node, env) ==
    LET s == st.s
        n == Len(s)
        top == s[n]
        below(k) == SubSeq(s, 1, n - k)
        count == IF top[2] = 0 THEN NanCount ELSE Cut(top)
        taken == IF count < 0 THEN 0 ELSE count
        results(k, values) == [st EXCEPT !.s = below(k) \o values]
    IN  CASE ~st.ok \/ n < Needs(node.op) -> [st EXCEPT !.ok = FALSE]
          [] OTHER ->
            CASE node.op = "NUMBER" -> results(0, <<node.arg>>)
              [] node.op = "VARIABLE" -> results(0, <<env.pdp[node.arg]>>)
              [] node.op = "UNKN" -> results(0, <<DNAN>>)
              [] node.op = "INF" -> results(0, <<DINF>>)
              [] node.op = "NEGINF" -> results(0, <<NegDINF>>)
              [] node.op = "NOW" -> results(0, <<env.now>>)
              [] node.op \in Unary -> results(1, <<CalcUnary(node.op, top)>>)
              [] node.op \in Binary -> results(2, <<CalcBinary(node.op, s[n - 1], top)>>)
              [] node.op \in Ternary -> results(3, <<CalcTernary(node.op, s[n - 2], s[n - 1], top)>>)
              [] node.op = "DUP" -> results(0, <<top>>)
              [] node.op = "POP" -> results(1, << >>)
              [] node.op = "EXC" -> results(2, <<top, s[n - 1]>>)
              [] node.op = "SORT" /\ count < 0 -> [st EXCEPT !.ok = FALSE, !.crash = TRUE]
              [] node.op \in Counted /\ (node.op # "SORT" \/ count >= 0) /\ taken < n ->
                    results(taken + 1, CalcCounted(node.op, SubSeq(s, n - taken, n - 1)))
              [] OTHER -> [st EXCEPT !.ok = FALSE]

Start == [ok |-> TRUE, crash |-> FALSE, s |-> << >>]

\* [ok, crash, val]; an error if not exactly one value is left.
Calc(cdef, env) ==
    LET end == FoldLeft(LAMBDA st, node : Exec(st, node, env), Start, cdef)
        ok == end.ok /\ Len(end.s) = 1
    IN  [ok |-> ok, crash |-> end.crash, val |-> IF ok THEN end.s[1] ELSE DNAN]
=============================================================================
