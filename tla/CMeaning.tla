------------------------------- MODULE CMeaning -------------------------------
(* What a function of the randomizer's trees does when it is run: a reference to *)
(* compare the passes with. Operands are evaluated from left to right, ints do   *)
(* not overflow, and what can be seen of a run is the calls it makes.            *)
EXTENDS RandExprs
Bits == INSTANCE Bitwise

ValueOf(env, name) == IF name \in DOMAIN env THEN env[name] ELSE 9
Truth(b) == IF b THEN 1 ELSE 0
Xor(l, r) == IF r = 0 THEN l ELSE IF l = 0 THEN r ELSE Bits!^^(l, r)
Operation(op, l, r) ==
    CASE op = "+" -> l + r [] op = "-" -> l - r [] op = "*" -> l * r
      [] op = "<<" -> l * 2 ^ r [] op = ">>" -> l \div 2 ^ r [] op = "^" -> Xor(l, r)
      [] op = "<" -> Truth(l < r) [] op = ">" -> Truth(l > r) [] op = "<=" -> Truth(l <= r)
      [] op = ">=" -> Truth(l >= r) [] op = "==" -> Truth(l = r) [] op = "!=" -> Truth(l # r)

Set(s, name, v) == [s EXCEPT !.env = (name :> v) @@ @, !.v = v]
\* s: the variables, the calls so far and the value of the last expression.
RECURSIVE Run(_, _, _), RunUpTo(_, _, _, _), RunArgs(_, _, _, _)
RunUpTo(inl, ts, i, s) == IF i = 0 THEN s ELSE Run(inl, ts[i], RunUpTo(inl, ts, i - 1, s))
RunAll(inl, ts, s) == RunUpTo(inl, ts, Len(ts), s)
\* The arguments' values are collected on the way.
RunArgs(inl, ts, i, s) ==
    IF i = 0 THEN [s |-> s, vals |-> <<>>]
    ELSE LET x == RunArgs(inl, ts, i - 1, s)
             y == Run(inl, ts[i], x.s)
         IN [s |-> y, vals |-> Append(x.vals, y.v)]
Call(inl, t, s) ==
    LET a == RunArgs(inl, t.c, Len(t.c), s)
    IN IF t.s \in DOMAIN inl
       THEN LET body == Number(inl[t.s], 1)
                cuts == SetToSortSeq({n.id : n \in {m \in NodesOf(body) : m.k = "Cut"}}, <)
                arg == [i \in Range(cuts) |-> Constant(a.vals[CHOOSE j \in DOMAIN cuts : cuts[j] = i])]
            IN Run(inl, Rewrite(body, "top", arg, FALSE), a.s)
       ELSE [a.s EXCEPT !.out = Append(@, <<t.s, a.vals>>), !.v = 0]
Run(inl, t, s) ==
    CASE t.k = "Constant" -> [s EXCEPT !.v = get_constant_int_value(t)]
      [] t.k = "ID" -> [s EXCEPT !.v = ValueOf(s.env, t.s)]
      [] t.k = "BinaryOp" ->
           LET l == Run(inl, t.c[1], s)
               r == Run(inl, t.c[2], l)
           IN IF t.s = "&&" THEN (IF l.v = 0 THEN l ELSE [r EXCEPT !.v = Truth(@ # 0)])
              ELSE [r EXCEPT !.v = Operation(t.s, l.v, @)]
      [] t.k = "UnaryOp" /\ t.s \in Increments ->
           LET old == ValueOf(s.env, t.c[1].s)
               new == IF t.s \in {"p++", "++"} THEN old + 1 ELSE old - 1
           IN [Set(s, t.c[1].s, new) EXCEPT !.v = IF t.s \in {"p++", "p--"} THEN old ELSE new]
      [] t.k = "UnaryOp" /\ t.s = "-" -> [Run(inl, t.c[1], s) EXCEPT !.v = -@]
      [] t.k = "UnaryOp" /\ t.s = "!" -> [Run(inl, t.c[1], s) EXCEPT !.v = Truth(@ = 0)]
      [] t.k = "Assignment" ->
           LET r == Run(inl, t.c[2], s)
               v == IF t.s = "=" THEN r.v ELSE Operation(CompoundOps[t.s], ValueOf(r.env, t.c[1].s), r.v)
           IN Set(r, t.c[1].s, v)
      [] t.k = "FuncCall" -> Call(inl, t, s)
      [] t.k = "Decl" -> IF t.c = <<>> THEN s ELSE LET r == Run(inl, t.c[1], s) IN Set(r, t.s, r.v)
      [] t.k = "If" ->
           LET c == Run(inl, t.c[1], s)
           IN IF c.v # 0 THEN Run(inl, t.c[2], c) ELSE IF Len(t.c) = 3 THEN Run(inl, t.c[3], c) ELSE c
      [] t.k = "DoWhile" ->
           LET c == Run(inl, t.c[1], Run(inl, t.c[2], s))
           IN IF c.v # 0 THEN Run(inl, t, c) ELSE c
      [] t.k \in {"ExprList", "Cast", "Compound", "Label"} -> RunAll(inl, t.c, s)
      [] OTHER -> s   \* a pragma, an empty statement, a goto to the label behind it

Calls(inl, fn, env) == Run(inl, fn, [env |-> env, out |-> <<>>, v |-> 0]).out
=============================================================================
