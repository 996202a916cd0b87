------------------------------ MODULE RandExprs ------------------------------
(* randomizer.py, the passes that rewrite one expression of the region. Each is *)
(* the set of functions it can leave: empty where the code raises               *)
(* RandomizationFailure. Types are int or pointer to int.                       *)
EXTENDS CTree

CONSTANT Globals   \* names that are not local to the function

Zero == Constant(0)
One == Constant(1)
\* Replace one of the chosen expressions by what new makes of it.
ReplaceOne(fn, cands, new(_)) == {replace_node(fn, e, new(e)) : e \in cands}
\* Change one of the chosen nodes in place.
ChangeOne(fn, cands, new(_)) == {Put(fn, n.id, new(n)) : n \in cands}
Visited(fn, r, kind) == {n \in NodesOf(fn) : n.k = kind /\ contains_node(r, n)}
BinaryOps(fn, r, ops) == {n \in Visited(fn, r, "BinaryOp") : n.s \in ops}
Ints(fn, r) == {e \in get_block_expressions(fn, r) : ~ IsPtr(fn, e)}

perm_add_mask(fn, r) == ReplaceOne(fn, Ints(fn, r), LAMBDA e : BinaryOp("&", e, Constant(255)))
perm_xor_zero(fn, r) == ReplaceOne(fn, Ints(fn, r), LAMBDA e : BinaryOp("^", e, Zero))
perm_cast_simple(fn, r) == ReplaceOne(fn, Ints(fn, r), Cast)
perm_dummy_comma_expr(fn, r) ==
    ReplaceOne(fn, get_block_expressions(fn, r), LAMBDA e : ExprList(<<Zero, e>>))

\* Mutant: without the copy.
perm_mult_zeroShared(fn, r) ==
    LET zeroes == {e \in get_block_expressions(fn, r) : e.k = "Constant" /\ e.s = "" /\ e.v = 0}
    IN UNION {ReplaceOne(fn, zeroes, LAMBDA z : BinaryOp("*", x, z)) :
                 x \in {e \in Ints(fn, r) : ~ is_effectful(e)}}
\* 0 becomes x * 0.
perm_mult_zero(fn, r) ==
    LET zeroes == {e \in get_block_expressions(fn, r) : e.k = "Constant" /\ e.s = "" /\ e.v = 0}
    IN UNION {ReplaceOne(fn, zeroes, LAMBDA z : BinaryOp("*", deepcopy(x), z)) :
                 x \in {e \in Ints(fn, r) : ~ is_effectful(e)}}

AbsV(v) == IF v < 0 THEN -v ELSE v
Factors(val) ==
    LET divisors == {i \in 2..(Min({AbsV(val), 21}) - 1) : val % i = 0}
        factors == divisors \cup {val \div i : i \in divisors}
    IN IF val < 0 THEN factors \cup {-f : f \in factors} ELSE factors
\* Both orders of the operands of a product.
BothWays(l, r) == {BinaryOp("*", l, r), BinaryOp("*", r, l)}
\* a * b becomes a * x * (b / x).
perm_factor_mult(fn, r) ==
    LET cands == {e \in get_block_expressions(fn, r) :
                     e.k = "BinaryOp" /\ e.s = "*" /\ "Constant" \in {e.c[1].k, e.c[2].k}}
        scale(e) == IF e.c[1].k = "Constant" THEN e.c[1] ELSE e.c[2]
        other(e) == IF e.c[1].k = "Constant" THEN e.c[2] ELSE e.c[1]
        val(e) == get_constant_int_value(scale(e))
        split(e, f) == UNION {BothWays(e1, Constant(val(e) \div f)) : e1 \in BothWays(other(e), Constant(f))}
    IN UNION {UNION {{replace_node(fn, e, e2) : e2 \in split(e, f)} : f \in Factors(val(e))} : e \in cands}

\* a >> b becomes a >> x >> (b - x).
perm_factor_shift(fn, r) ==
    LET cands == {e \in get_block_expressions(fn, r) :
                     /\ e.k = "BinaryOp" /\ e.s \in {"<<", ">>"}
                     /\ e.c[2].k = "Constant" /\ get_constant_int_value(e.c[2]) >= 2}
    IN UNION {ReplaceOne(fn, {e}, LAMBDA x : BinaryOp(x.s, BinaryOp(x.s, x.c[1], Constant(val)), Constant(x.c[2].v - val))) :
                 <<e, val>> \in {p \in cands \X (1..20) : p[2] < p[1].c[2].v}}

CommutativeOps == {"+", "*", "|", "&", "^", "<", ">", "<=", ">=", "==", "!="}
Mirror == ("<" :> ">") @@ (">" :> "<") @@ ("<=" :> ">=") @@ (">=" :> "<=")
\* Mutant: a comparison is swapped and stays the same operator.
MirroredNot(op) == op
Mirrored(op) == IF op \in DOMAIN Mirror THEN Mirror[op] ELSE op
perm_commutative(fn, r) ==
    ChangeOne(fn, BinaryOps(fn, r, CommutativeOps),
              LAMBDA n : [n EXCEPT !.s = Mirrored(@), !.c = <<n.c[2], n.c[1]>>])

\* a - b becomes a + (-b), for constants, negations, and where the result is a pointer.
Minus(e) == e.k = "UnaryOp" /\ e.s = "-"
Negated(e) ==
    IF e.k = "Constant" THEN [e EXCEPT !.s = IF @ = "-" THEN "" ELSE "-"]
    ELSE IF Minus(e) THEN e.c[1] ELSE UnaryOp("-", e)
perm_add_sub(fn, r) ==
    ChangeOne(fn, {n \in BinaryOps(fn, r, {"+", "-"}) :
                      n.c[2].k = "Constant" \/ Minus(n.c[2]) \/ IsPtr(fn, n)},
              LAMBDA n : [n EXCEPT !.s = IF @ = "-" THEN "+" ELSE "-", !.c[2] = Negated(@)])

\* a < b becomes a + 1 <= b and the like, or both operands move by one.
plus1(e) == BinaryOp("+", e, One)
minus1(e) == BinaryOp("-", e, One)
Strictness == ("<" :> "<=") @@ (">=" :> ">") @@ (">" :> ">=") @@ ("<=" :> "<")
MovedBounds(n) ==
    LET op == Strictness[n.s]
    IN {BinaryOp(n.s, plus1(n.c[1]), plus1(n.c[2])), BinaryOp(n.s, minus1(n.c[1]), minus1(n.c[2]))}
       \cup (IF n.s \in {"<", ">="}
             THEN {BinaryOp(op, plus1(n.c[1]), n.c[2]), BinaryOp(op, n.c[1], minus1(n.c[2]))}
             ELSE {BinaryOp(op, minus1(n.c[1]), n.c[2]), BinaryOp(op, n.c[1], plus1(n.c[2]))})
perm_inequalities(fn, r) ==
    UNION {{Put(fn, n.id, new) : new \in MovedBounds(n)} : n \in BinaryOps(fn, r, DOMAIN Strictness)}

\* if (x) becomes if (x != 0) and back; wherever it stands.
ConditionForms(e) ==
    LET compares == e.k = "BinaryOp" /\ e.s \in {"==", "!=", "<", ">", "<=", ">="}
        back == IF /\ compares /\ e.s \in {"==", "!="}
                   /\ e.c[2].k = "Constant" /\ e.c[2].s = "" /\ e.c[2].v = 0
                THEN {IF e.s = "==" THEN UnaryOp("!", e.c[1]) ELSE e.c[1]} ELSE {}
        negated == IF e.k = "UnaryOp" /\ e.s = "!" THEN {BinaryOp("==", e.c[1], Zero)} ELSE {}
    IN back \cup negated \cup {BinaryOp("!=", e, Zero)}
perm_condition(fn, r) ==
    UNION {{Put(fn, n.id, [n EXCEPT !.c[1] = e]) : e \in ConditionForms(n.c[1])} :
              n \in {m \in NodesOf(fn) : m.k \in {"If", "While", "DoWhile"}}}

CompoundOps ==
    ("+=" :> "+") @@ ("-=" :> "-") @@ ("*=" :> "*") @@ ("/=" :> "/") @@ ("<<=" :> "<<")
        @@ (">>=" :> ">>") @@ ("^=" :> "^") @@ ("|=" :> "|") @@ ("&=" :> "&")
\* x = x op y becomes x op= y, and back.
perm_compound_assignment(fn, r) ==
    LET shortens(n) == n.s = "=" /\ n.c[2].k = "BinaryOp" /\ equal_ast(n.c[1], n.c[2].c[1])
                       /\ \E op \in DOMAIN CompoundOps : CompoundOps[op] = n.c[2].s
        shorter(n) == Assignment(CHOOSE op \in DOMAIN CompoundOps : CompoundOps[op] = n.c[2].s, n.c[1], n.c[2].c[2])
        longer(n) == Assignment("=", n.c[1], BinaryOp(CompoundOps[n.s], deepcopy(n.c[1]), n.c[2]))
    IN ChangeOne(fn, {n \in Visited(fn, r, "Assignment") : shortens(n) \/ n.s # "="},
                 LAMBDA n : IF n.s = "=" THEN shorter(n) ELSE longer(n))

\* A cast, a mask, an if or a loop goes; what it held stays.
perm_remove_ast(fn, r) ==
    LET masked(n, i) == n.k = "BinaryOp" /\ n.s = "&" /\ n.c[3 - i].k = "Constant"
        keeps(n, i) == \/ n.k = "Cast" /\ i = 1
                       \/ i \in 1..2 /\ masked(n, i)
                       \/ n.k \in {"If", "While", "DoWhile"} /\ Len(n.c) = 2 /\ i = 2
    IN UNION {{replace_node(fn, n, n.c[i]) : i \in {j \in DOMAIN n.c : keeps(n, j)}} :
                 n \in {m \in NodesOf(fn) : contains_node(r, m)}}

-----------------------------------------------------------------------------
(* perm_inline.                                                                *)

is_local_var(name) == name \notin Globals
Cut(ptr) == Node("Cut", "", ptr, <<>>)
IsLocal(t) == t.k = "ID" /\ is_local_var(t.s)
\* cut_ast: local variables are always cut, and never from where they are
\* written; another part may be cut where it stands for a value.
RECURSIVE cut_ast(_, _, _)
cut_ast(fn, t, role) ==
    LET parts == [i \in DOMAIN t.c |->
                     IF Role(t, i, role) = "none" THEN {t.c[i]} ELSE cut_ast(fn, t.c[i], Role(t, i, role))]
        kept == {[t EXCEPT !.id = 0, !.c = cs] :
                    cs \in {f \in [DOMAIN t.c -> UNION {parts[i] : i \in DOMAIN t.c}] :
                               \A i \in DOMAIN t.c : f[i] \in parts[i]}}
    IN (IF role = "expr" THEN {Cut(IF IsPtr(fn, t) THEN 1 ELSE 0)} ELSE {})
           \cup (IF IsLocal(t) THEN {} ELSE kept)

\* match_cut: the arguments in order, or "no" where the tree is another.
RECURSIVE match_cut(_, _, _)
match_cut(fn, t, cut) ==
    IF cut.k = "Cut" THEN (IF (cut.v = 1) = IsPtr(fn, t) THEN [ok |-> TRUE, args |-> <<t>>] ELSE [ok |-> FALSE])
    ELSE IF <<t.k, t.s, t.v, Len(t.c)>> # <<cut.k, cut.s, cut.v, Len(cut.c)>> THEN [ok |-> FALSE]
    ELSE LET parts == [i \in DOMAIN t.c |-> match_cut(fn, t.c[i], cut.c[i])]
         IN IF \A i \in DOMAIN t.c : parts[i].ok
            THEN [ok |-> TRUE, args |-> Concat([i \in DOMAIN t.c |-> parts[i].args])]
            ELSE [ok |-> FALSE]

RECURSIVE Noncolliding(_, _, _)
Noncolliding(used, name, counter) ==
    IF name \notin used THEN name
    ELSE Noncolliding(used, name \o ToString(counter + 1), counter + 1)
get_noncolliding_name(used, name) == Noncolliding(used, name, 1)

\* The expressions are replaced in the order of the text, outer ones first.
Inlined(fn, name, exprs, cut) ==
    FoldLeft(LAMBDA t, id :
                 IF \E n \in NodesOf(t) : n.id = id
                 THEN LET e == NodeWith(t, id)
                      IN Rewrite(t, "top", id :> FuncCall(name, match_cut(fn, e, cut).args), FALSE)
                 ELSE t,
             fn, SetToSortSeq({e.id : e \in exprs}, <))
\* [fn: the function, name and body of the inline function put before it].
perm_inline(fn, r, used) ==
    LET cands == get_block_expressions(fn, r)
        name == get_noncolliding_name(used, "inline_fn")
        alike(e, cut) == IF cut.k = "Cut" THEN {e} ELSE {x \in cands : match_cut(fn, x, cut).ok}
    IN UNION {UNION {{[fn |-> Inlined(fn, name, {e} \cup s, cut), name |-> name, body |-> cut] :
                         s \in SUBSET alike(e, cut)} :
                     cut \in cut_ast(fn, e, "expr")} : e \in cands}
=============================================================================
