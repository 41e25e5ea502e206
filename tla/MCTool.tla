------------------------------- MODULE MCTool -------------------------------
(***************************************************************************)
(* RrdTool for TLC.  Besides a session of command lines, two things are    *)
(* tried out on their own: a line of any characters is split into          *)
(* arguments (RrdArgs), a program of any nodes is run (RrdRpn).            *)
(***************************************************************************)
EXTENDS RrdTool, RrdArgs
LOCAL INSTANCE FiniteSetsExt
LOCAL INSTANCE SequencesExt

CONSTANTS Characters, MaxCharacters,    \* of a line
          Nodes, MaxNodes               \* of a program

VARIABLES line,         \* the characters of a line
          calc          \* a program and the stack after it
MCvars == <<vars, line, calc>>

MCInit == Init /\ line = << >> /\ calc = [prog |-> << >>, st |-> Start]

Session ==
    /\ line = << >> /\ calc.prog = << >>
    /\ Next
    /\ UNCHANGED <<line, calc>>

Type(ch) ==
    /\ n = 0 /\ calc.prog = << >> /\ Len(line) < MaxCharacters
    /\ line' = Append(line, ch)
    /\ UNCHANGED <<vars, calc>>

CalcNode(node) ==
    /\ n = 0 /\ line = << >> /\ Len(calc.prog) < MaxNodes
    /\ calc' = [prog |-> Append(calc.prog, node),
                st |-> Exec(calc.st, node, [pdp |-> << >>, now |-> Num(1)])]
    /\ UNCHANGED <<vars, line>>

MCNext ==
    \/ Session
    \/ \E ch \in Characters : Type(ch)
    \/ \E node \in Nodes : CalcNode(node)

MCSpec == MCInit /\ [][MCNext]_MCvars

-----------------------------------------------------------------------------

\* The words of a line, if there are no quotes in it.
Words(l) ==
    LET starts == {k \in DOMAIN l : l[k] # "space" /\ (k = 1 \/ l[k - 1] = "space")}
        until(k) == Min({j \in k + 1 .. Len(l) + 1 : j > Len(l) \/ l[j] = "space"})
        ordered == SetToSortSeq(starts, <)
    IN  [w \in DOMAIN ordered |-> SubSeq(l, ordered[w], until(ordered[w]) - 1)]

\* The array that main allocates for the CountArgs of a line is large enough for the
\* arguments CreateArgs puts into it, whatever the quotes; without quotes the arguments
\* are the words.
LineFits ==
    /\ Len(CreateArgs(line).args) <= CountArgs(line)
    /\ (\A k \in DOMAIN line : line[k] \notin Quotes) =>
           CreateArgs(line).args = Words(Stripped(line))

-----------------------------------------------------------------------------

Arity(op) == CASE op \in Unary -> 1 [] op \in Binary -> 2 [] op \in Ternary -> 3
               [] OTHER -> 0

\* The expression that ends at node k begins at Begin(k), 0 if it is not complete:
\* from there on every node is used up by a later one.
Open(prog, j, k) == FoldLeft(LAMBDA s, i : s + 1 - Arity(prog[i].op), 0, [x \in 1..(k - j + 1) |-> j + x - 1])
Begin(prog, k) == Max({0} \cup {j \in 1..k : Open(prog, j, k) = 1 /\ \A i \in j..k : Open(prog, i, k) <= 1})

\* The value of the expression that ends at node k, from the values of its operands.
Value(prog) ==
    LET val[k \in 1..Len(prog)] ==
            LET op == prog[k].op
                last == k - 1
                middle == Begin(prog, last) - 1
                first == Begin(prog, middle) - 1
            IN  CASE op = "NUMBER" -> prog[k].arg
                  [] op = "UNKN" -> DNAN
                  [] op \in Unary -> CalcUnary(op, val[last])
                  [] op \in Binary -> CalcBinary(op, val[middle], val[last])
                  [] op \in Ternary -> CalcTernary(op, val[first], val[middle], val[last])
    IN  val

\* rpn_calc computes the value of the expression, read as a tree, for operators with
\* a fixed number of operands: it fails if and only if an operand is missing, which does
\* not depend on the numbers, and when it is through the value left is that of the whole
\* program.
CalcIsTree ==
    LET prog == calc.prog
        complete == \A k \in DOMAIN prog : Begin(prog, k) # 0
    IN  /\ calc.st.ok <=> complete
        /\ complete /\ prog # << >> =>
               calc.st.s[Len(calc.st.s)] = Value(prog)[Len(prog)]

-----------------------------------------------------------------------------
(* Constants                                                               *)

MCLibrary(op, args) == Plus(args[1], Num(1))
MCNanCount == -1
MCProgramLimits(cdef) == [min |-> Num(0), max |-> Num(0)]

Ds(name, type, max, text) ==
    [name |-> name, type |-> type, mrhb |-> 2, min |-> DNAN, max |-> max, text |-> text]
Gauge(name) == Ds(name, "GAUGE", DNAN, << >>)
Word(w) == [kind |-> "word", arg |-> w]
Compute(name, text) == Ds(name, "COMPUTE", DNAN, text)
Rra(cf, args) == [cf |-> cf, args |-> args]
Creation(file, ds, rra) == [op |-> "create", file |-> file, keep |-> FALSE, start |-> 10,
                            ds |-> ds, rra |-> rra]
Half == [kind |-> "number", arg |-> <<5, 2>>]
Double == <<Word("x"), Half, Word("*")>>
Explicit == <<Rra("HWPREDICT", <<2, 10, 10, 2, 2>>), Rra("SEASONAL", <<2, 10, 1, 100, 1>>),
              Rra("DEVSEASONAL", <<2, 10, 1>>), Rra("DEVPREDICT", <<2, 3>>),
              Rra("FAILURES", <<2, 1, 2, 3>>)>>
One == <<Rra("LAST", <<0, 1, 2>>)>>

MCLines ==
    { Creation("a", <<Ds("x", "GAUGE", Num(1), << >>), Ds("y", "COUNTER", DNAN, << >>)>>,
               <<Rra("AVERAGE", <<50, 1, 3>>), Rra("LAST", <<0, 2, 2>>)>>),
      Creation("a", <<Gauge("x")>>, <<Rra("AVERAGE", <<50, 1, 2>>), Rra("HWPREDICT", <<3, 10, 10, 2>>)>>),
      Creation("a", <<Gauge("x")>>, Explicit),
      Creation("a", <<Gauge("x")>>, <<Rra("MHWPREDICT", <<2, 10, 10, 0>>)>>),
      [Creation("a", <<Gauge("x")>>, <<Rra("MHWPREDICT", <<2, 10, 10, 2>>)>>) EXCEPT !.keep = TRUE],
      Creation("b", <<Gauge("x"), Gauge("x")>>, One),
      Creation("a", <<Gauge("x"), Compute("y", Double)>>, One),
      Creation("a", <<Gauge("x"), Compute("y", <<Word("y"), Word("UN")>>)>>, One),
      Creation("b", <<Gauge("x"), Compute("y", <<Word("x"), Word("+")>>)>>, One),
      Creation("b", <<Gauge("x"), Compute("y", << >>)>>, One),
      [op |-> "update", file |-> "a"], [op |-> "update", file |-> "b"],
      [op |-> "dump", file |-> "a", doc |-> "d"], [op |-> "dump", file |-> "b", doc |-> "d"],
      [op |-> "dump", file |-> "a", doc |-> "e"],
      [op |-> "restore", file |-> "b", doc |-> "d", range |-> FALSE, force |-> FALSE],
      [op |-> "restore", file |-> "b", doc |-> "d", range |-> TRUE, force |-> TRUE],
      [op |-> "tune", file |-> "b", options |-> <<[opt |-> "w", arg |-> 1]>>],
      [op |-> "tune", file |-> "a", options |-> <<[opt |-> "r", ds |-> "x", arg |-> "y"],
                                                  [opt |-> "w", arg |-> 1], [opt |-> "x", arg |-> 50]>>],
      [op |-> "tune", file |-> "b", options |-> <<[opt |-> "d", ds |-> "x", arg |-> "DERIVE"],
                                                  [opt |-> "i", ds |-> "x", arg |-> Num(0)],
                                                  [opt |-> "b", ds |-> "x"], [opt |-> "f", arg |-> 29]>>],
      [op |-> "query", file |-> "b"], [op |-> "other", ok |-> FALSE], [op |-> "quit"] }

MCSamples == {[last |-> "1", rate |-> <<4, 3>>, violation |-> TRUE],
              [last |-> "U", rate |-> DNAN, violation |-> FALSE]}

MCNodes ==
    {[op |-> "NUMBER", arg |-> x] : x \in {Num(0), Num(2)}} \cup
    {[op |-> o, arg |-> 0] : o \in {"UNKN", "UN", "FLOOR", "-", "/", "%", "ADDNAN", "LT", "MAX",
                                   "IF", "LIMIT"}}
=============================================================================
