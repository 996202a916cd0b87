------------------------------ MODULE RandStmts ------------------------------
(* randomizer.py, the passes that insert, move, merge and split statements.     *)
EXTENDS CTree

Names(fn) == {n.s : n \in {m \in NodesOf(fn) : m.k \in {"ID", "Decl"}}}
SameLine(stmts) == <<Pragma("sameline start")>> \o stmts \o <<Pragma("sameline end")>>
Points(fn, r) == Range(get_insertion_points(fn, r))
PutAt(fn, p, stmts) == insert_statements(fn, p.b.id, p.i, stmts)
\* The variables named in the region.
Variables(fn, r) == {deepcopy(e) : e \in {x \in get_block_expressions(fn, r) : x.k = "ID"}}

\* if (x) {}, with x up to three times.
RepeatedCond(e, n) == FoldLeft(LAMBDA c, i : BinaryOp("&&", c, e), e, [i \in 1..n |-> i])
perm_refer_to_var(fn, r) ==
    {PutAt(fn, p, <<If(RepeatedCond(e, n), Compound(<<>>))>>) :
        p \in Points(fn, Unbounded), n \in 0..2,
        e \in UNION {{x, UnaryOp("!", x)} : x \in Variables(fn, r)}}

\* A range of statements goes into if (1) {} or do {} while (0).
LeadingItems(stmts) ==
    CHOOSE n \in 0..Len(stmts) :
        /\ \A i \in 1..n : stmts[i].k \in {"Decl", "Pragma"}
        /\ n = Len(stmts) \/ stmts[n + 1].k \notin {"Decl", "Pragma"}
Wraps(r, stmts) ==
    {<<If(Constant(1), Compound(stmts))>>}
        \cup (IF \A i \in DOMAIN stmts : contains_node(r, stmts[i])
              THEN {SameLine(<<DoWhile(Constant(0), Compound(stmts))>>)} ELSE {})
perm_ins_block(fn, r) ==
    UNION {LET s == b.c
           IN UNION {{Put(fn, b.id, [b EXCEPT !.c = SubSeq(s, 1, lo) \o w \o SubSeq(s, hi + 1, Len(s))]) :
                         w \in Wraps(r, SubSeq(s, lo + 1, hi))} :
                     <<lo, hi>> \in {p \in (LeadingItems(s)..Len(s)) \X (0..Len(s)) : p[1] <= p[2]}} :
           b \in BlocksIn(fn)}

\* One of the statements that do nothing.
EmptyStmts(label) ==
    {[i \in 1..n |-> If(Constant(1), Compound(<<>>))] : n \in 1..2}
        \cup {<<If(Constant(0), Compound(<<>>))>>, <<DoWhile(Constant(0), Compound(<<>>))>>,
              <<Label(label, EmptyStatement)>>, <<Goto(label), Label(label, EmptyStatement)>>,
              <<EmptyStatement>>}
perm_empty_stmt(fn, labels) ==
    {PutAt(fn, p, SameLine(stmts)) :
        p \in Points(fn, Unbounded), stmts \in UNION {EmptyStmts(l) : l \in labels}}

\* Two points at least two apart; the later one first.
perm_sameline(fn, r) ==
    LET cands == get_insertion_points(fn, r)
    IN {PutAt(PutAt(fn, cands[p[2]], <<Pragma("sameline end")>>), cands[p[1]], <<Pragma("sameline start")>>) :
           p \in {q \in (DOMAIN cands) \X (DOMAIN cands) : q[1] + 2 <= q[2]}}

SelfAssignments(e) ==
    {<<Assignment("=", e, e)>>, <<Assignment("+=", e, Constant(0))>>, <<UnaryOp("p++", e), UnaryOp("p--", e)>>}
perm_add_self_assignment(fn, r) ==
    {PutAt(fn, p, stmts) : p \in Points(fn, r), stmts \in UNION {SelfAssignments(e) : e \in Variables(fn, r)}}

-----------------------------------------------------------------------------
(* Moving.                                                                     *)

SameBlock(p, q) == p.b.id = q.b.id
\* stmt goes from before p to before q.
MoveStatement(fn, p, q) ==
    LET to == IF SameBlock(p, q) /\ p.i < q.i THEN q.i - 1 ELSE q.i
    IN insert_statements(PopStatement(fn, p.b.id, p.i), q.b.id, to, <<p.after>>)
\* A declaration leaves its initializer behind as an assignment.
SplitDecl(fn, p, q) ==
    LET d == p.after
    IN PutAt(Put(fn, d.id, [d EXCEPT !.c = <<>>]), q, <<Assignment("=", ID(d.s), d.c[1])>>)

\* The places a statement may move from and to.
MovePoints(fn, r) ==
    SelectSeq(PointsIn(fn, r), LAMBDA p : IsDecl(p.after) => p.after.c # <<>>)
\* Mutant: blocks move too.
MovableBlock(stmt) == stmt # Nothing /\ stmt.k # "Pragma"
Movable(stmt) == stmt # Nothing /\ stmt.k # "Pragma" /\ ~ has_nested_block(stmt)
\* The index of the place behind the statement, or of the statement.
AfterSource(cands, i) ==
    IF IsDecl(cands[i].after) \/ i = Len(cands) THEN i
    ELSE IF cands[i + 1].before # cands[i].after THEN i ELSE i + 1
perm_reorder_stmts(fn, r) ==
    LET cands == MovePoints(fn, r)
        stays(p, q) == SameBlock(p, q) /\ q.i \in {p.i, p.i + 1}
    IN {IF IsDecl(cands[m[1]].after) THEN SplitDecl(fn, cands[m[1]], cands[m[2]])
        ELSE MoveStatement(fn, cands[m[1]], cands[m[2]]) :
           m \in {x \in (DOMAIN cands) \X (DOMAIN cands) :
                     /\ Movable(cands[x[1]].after)
                     /\ x[2] \notin x[1]..AfterSource(cands, x[1])
                     /\ ~ IsDecl(cands[x[2]].after)
                     /\ ~ stays(cands[x[1]], cands[x[2]])}}

DeclPoints(fn, r) ==
    SelectSeq(PointsIn(fn, r), LAMBDA p : p.i = 0 \/ IsDecl(p.before) \/ IsDecl(p.after))
\* The moves of a declaration that are tried: from one point to another.
DeclMoves(fn, r) ==
    LET cands == DeclPoints(fn, r)
    IN {<<cands[m[1]], cands[m[2]]>> :
           m \in {x \in (DOMAIN cands) \X (DOMAIN cands) :
                     IsDecl(cands[x[1]].after) /\ x[2] \notin {x[1], x[1] + 1}}}
\* How often the name is met before the place.
UsesBefore(fn, name, p, q) ==
    LET to == IF q.after = Nothing THEN LastId(p.b) + 1 ELSE q.after.id
    IN Cardinality({n \in NodesOf(fn) : n.k \in {"ID", "Decl"} /\ n.s = name /\ n.id < to})
perm_reorder_decls(fn, r) ==
    {MoveStatement(fn, m[1], m[2]) :
        m \in {x \in DeclMoves(fn, r) : UsesBefore(fn, x[1].after.s, x[1], x[2]) <= 1}}

-----------------------------------------------------------------------------
(* Assignments.                                                                *)

Assignments(fn, r) == {n \in NodesOf(fn) : n.k = "Assignment" /\ contains_node(r, n)}
perm_duplicate_assignment(fn, r) ==
    {PutAt(fn, p, <<deepcopy(a)>>) :
        p \in Points(fn, Unbounded), a \in {x \in Assignments(fn, r) : x.s = "="}}

RECURSIVE collect_binops(_)
collect_binops(e) ==
    {e} \cup UNION {collect_binops(e.c[i]) : i \in {j \in 1..2 : e.c[j].k = "BinaryOp"}}
\* a = b . c becomes a = b; a = a . c: one operand gets a statement of its own.
perm_split_assignment(fn, r) ==
    UNION {UNION {LET n == s[1]
                      var == p.after.c[1]
                      rest == Put(fn, n.id, [n EXCEPT !.c[s[2]] = deepcopy(var)])
                  IN {PutAt(rest, p, <<Assignment("=", deepcopy(var), n.c[s[2]])>>)} :
                      s \in {t \in collect_binops(p.after.c[2]) \X (1..2) :
                                IsPtr(fn, p.after.c[1]) = IsPtr(fn, t[1].c[t[2]])}} :
              p \in {q \in Points(fn, r) :
                        /\ q.after \in Assignments(fn, r)
                        /\ q.after.s = "=" /\ q.after.c[2].k = "BinaryOp"}}

Chains(r, stmts) ==
    {p \in (DOMAIN stmts) \X (DOMAIN stmts) :
        LET a == stmts[p[1]]
            b == stmts[p[2]]
        IN /\ p[1] < p[2] /\ p[2] <= p[1] + 4
           /\ a.k = "Assignment" /\ contains_node(r, a)
           /\ b.k = "Assignment" /\ contains_node(r, b)
           /\ equal_ast(a.c[1], b.c[2]) \/ equal_ast(a.c[2], b.c[2])
           /\ ~ is_effectful(b.c[2])}
\* a = x; b = a becomes b = a = x or a = b = x.
perm_chain_assignment(fn, r) ==
    UNION {UNION {LET a == b.c[p[1]]
                      l == b.c[p[2]].c[1]
                      chained == {Assignment("=", l, a), Assignment("=", a.c[1], Assignment("=", l, a.c[2]))}
                  IN {Put(fn, b.id, [b EXCEPT !.c = RemoveAt([@ EXCEPT ![p[1]] = c], p[2])]) : c \in chained} :
                      p \in Chains(r, b.c)} : b \in BlocksIn(fn)}

\* The longest runs of assignments of one value, then three or more of a run.
IsRun(r, stmts, lo, hi) ==
    /\ \A i \in lo..hi : /\ stmts[i].k = "Assignment" /\ contains_node(r, stmts[i])
                         /\ equal_ast(stmts[i].c[2], stmts[lo].c[2])
    /\ ~ is_effectful(stmts[lo].c[2])
Runs(r, stmts) ==
    {p \in (DOMAIN stmts) \X (DOMAIN stmts) :
        /\ p[1] + 2 <= p[2] /\ IsRun(r, stmts, p[1], p[2])
        /\ p[1] = 1 \/ ~ IsRun(r, stmts, p[1] - 1, p[2])
        /\ p[2] = Len(stmts) \/ ~ IsRun(r, stmts, p[1], p[2] + 1)}
ChainOf(stmts) ==
    FoldLeft(LAMBDA a, b : [a EXCEPT !.c = <<b.c[1], deepcopy(a)>>], Head(stmts), Tail(stmts))
perm_long_chain_assignment(fn, r) ==
    UNION {UNION {LET s == b.c
                  IN {Put(fn, b.id, [b EXCEPT !.c = SubSeq(s, 1, lohi[1] - 1)
                                        \o <<ChainOf(SubSeq(s, lohi[1], lohi[2]))>> \o SubSeq(s, lohi[2] + 1, Len(s))]) :
                        lohi \in {q \in (p[1]..p[2]) \X (p[1]..p[2]) : q[1] + 2 <= q[2]}} :
                      p \in Runs(r, b.c)} : b \in BlocksIn(fn)}

perm_pad_var_decl(fn) ==
    DeclInsertions(fn, CountedName({n.s : n \in {m \in NodesOf(fn) : IsDecl(m)}}, "pad", 1), 0)
=============================================================================
