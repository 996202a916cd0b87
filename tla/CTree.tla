-------------------------------- MODULE CTree --------------------------------
(* The C syntax tree that decomp-permuter's randomizer edits: c_ast nodes, and *)
(* the helpers of ast_util.py and randomizer.py that look at them. A node has  *)
(* an identity, since the code keeps nodes in dictionaries and moves them      *)
(* about: id is its place in the order of NodeVisitor, or 0 while it is new.   *)
(* Types are left out: every expression is taken for an int.                   *)
EXTENDS Integers, FiniteSets, Sequences, SequencesExt, FiniteSetsExt, TLC

RECURSIVE ConcatTo(_, _)
ConcatTo(ss, i) == IF i = 0 THEN <<>> ELSE ConcatTo(ss, i - 1) \o ss[i]
Concat(ss) == ConcatTo(ss, Len(ss))

\* s: an operator, a name, a pragma or a sign; v: the digits of a constant; c: the
\* children, in the order of NodeVisitor.
Node(k, s, v, c) == [id |-> 0, k |-> k, s |-> s, v |-> v, c |-> c]
Compound(c) == Node("Compound", "", 0, c)
If(cond, iftrue) == Node("If", "", 0, <<cond, iftrue>>)
DoWhile(cond, body) == Node("DoWhile", "", 0, <<cond, body>>)
Label(name, stmt) == Node("Label", name, 0, <<stmt>>)
Goto(name) == Node("Goto", name, 0, <<>>)
IfElse(cond, iftrue, iffalse) == Node("If", "", 0, <<cond, iftrue, iffalse>>)
Pragma(s) == Node("Pragma", s, 0, <<>>)
EmptyStatement == Node("EmptyStatement", "", 0, <<>>)
\* v: 1 for a pointer; c: the initializer, if there is one.
Decl(name, ptr, init) == Node("Decl", name, ptr, init)
Assignment(op, l, r) == Node("Assignment", op, 0, <<l, r>>)
ID(name) == Node("ID", name, 0, <<>>)
Constant(v) == Node("Constant", IF v < 0 THEN "-" ELSE "", IF v < 0 THEN -v ELSE v, <<>>)
get_constant_int_value(e) == IF e.s = "-" THEN -e.v ELSE e.v
BinaryOp(op, l, r) == Node("BinaryOp", op, 0, <<l, r>>)
UnaryOp(op, e) == Node("UnaryOp", op, 0, <<e>>)
ExprList(es) == Node("ExprList", "", 0, es)
FuncCall(name, es) == Node("FuncCall", name, 0, es)
Cast(e) == Node("Cast", "", 0, <<e>>)

Increments == {"p++", "p--", "++", "--"}
IsDecl(n) == n.k = "Decl"

\* The number of nodes of a tree, and of the first i trees.
RECURSIVE Size(_), Sizes(_, _)
Sizes(ts, i) == IF i = 0 THEN 0 ELSE Sizes(ts, i - 1) + Size(ts[i])
Size(t) == 1 + Sizes(t.c, Len(t.c))
\* compute_node_indices: every node of the tree gets the next number.
RECURSIVE Number(_, _)
Number(t, n) ==
    [t EXCEPT !.id = n, !.c = [i \in DOMAIN t.c |-> Number(t.c[i], n + 1 + Sizes(t.c, i - 1))]]
\* The number of the last node inside t: where indices.ends puts it.
LastId(t) == t.id + Size(t) - 1

RECURSIVE NodesOf(_)
NodesOf(t) == {t} \cup UNION {NodesOf(t.c[i]) : i \in DOMAIN t.c}
NodeWith(t, id) == CHOOSE n \in NodesOf(t) : n.id = id
\* A copy: a tree of new nodes.
RECURSIVE deepcopy(_)
deepcopy(t) == [t EXCEPT !.id = 0, !.c = [i \in DOMAIN t.c |-> deepcopy(t.c[i])]]
equal_ast(a, b) == deepcopy(a) = deepcopy(b)
\* Some node is in the tree twice.
RECURSIVE Ids(_), Old(_), OldIn(_, _)
Ids(t) == ({t.id} \ {0}) \cup UNION {Ids(t.c[i]) : i \in DOMAIN t.c}
OldIn(ts, i) == IF i = 0 THEN 0 ELSE OldIn(ts, i - 1) + Old(ts[i])
Old(t) == OldIn(t.c, Len(t.c)) + (IF t.id = 0 THEN 0 ELSE 1)
HasShared(t) == Cardinality(Ids(t)) # Old(t)

-----------------------------------------------------------------------------
(* visit_replace.                                                              *)

\* How it meets child i of t: as an expression, as the target of a write, as
\* something else, or not at all.
Role(t, i, role) ==
    CASE t.k = "Assignment" -> IF i = 1 THEN "lvalue" ELSE "expr"
      [] t.k = "UnaryOp" -> IF t.s \in Increments \cup {"&"} THEN "lvalue"
                            ELSE IF t.s = "sizeof" THEN "none" ELSE "expr"
      [] t.k = "ArrayRef" -> IF i = 1 /\ role = "lvalue" THEN "lvalue" ELSE "expr"
      [] t.k = "TernaryOp" -> IF i = 1 THEN "expr" ELSE "top"
      [] t.k \in {"If", "While", "DoWhile"} -> IF i = 1 THEN "expr" ELSE "top"
      [] t.k \in {"Compound", "Label"} -> "top"
      [] OTHER -> "expr"

\* The nodes that are replaced where they stand for a value (only = TRUE) or
\* wherever they stand: with maps their numbers to what takes their place.
RECURSIVE Rewrite(_, _, _, _)
Rewrite(t, role, with, only) ==
    IF t.id \in DOMAIN with /\ (only => role = "expr") THEN with[t.id]
    ELSE [t EXCEPT !.c = [i \in DOMAIN t.c |->
              IF Role(t, i, role) = "none" THEN t.c[i] ELSE Rewrite(t.c[i], Role(t, i, role), with, only)]]
visit_replace(body, with) == Rewrite(body, "top", with, FALSE)
replace_subexprs(body, with) == Rewrite(body, "top", with, TRUE)
replace_node(body, old, new) == visit_replace(body, old.id :> new)

\* A node is changed in place.
RECURSIVE Put(_, _, _)
Put(t, id, new) ==
    IF t.id = id THEN new ELSE [t EXCEPT !.c = [i \in DOMAIN t.c |-> Put(t.c[i], id, new)]]

RECURSIVE ExprsIn(_, _)
ExprsIn(t, role) ==
    (IF role = "expr" THEN {t} ELSE {})
        \cup UNION {ExprsIn(t.c[i], Role(t, i, role)) : i \in {j \in DOMAIN t.c : Role(t, j, role) # "none"}}
Exprs(stmt) == ExprsIn(stmt, "top")

-----------------------------------------------------------------------------
(* Expressions.                                                                *)

is_lvalue(e) == e.k \in {"ID", "ArrayRef", "StructRef"} \/ (e.k = "UnaryOp" /\ e.s = "*")
\* Under another unary operator the visit goes on below its operand.
RECURSIVE is_effectful(_)
is_effectful(e) ==
    \/ e.k \in {"FuncCall", "Assignment"}
    \/ e.k = "UnaryOp" /\ e.s \in Increments
    \/ LET below == IF e.k = "UnaryOp" /\ e.s # "sizeof" THEN e.c[1].c ELSE e.c
       IN \E i \in DOMAIN below : is_effectful(below[i])

\* compute_write_locations: <<name, number of the node that writes it>>.
compute_write_locations(fn) ==
    {<<n.s, n.id>> : n \in {m \in NodesOf(fn) : IsDecl(m)}}
        \cup {<<n.c[1].s, n.id>> : n \in {m \in NodesOf(fn) :
                 /\ m.k = "Assignment" \/ (m.k = "UnaryOp" /\ m.s \in Increments)
                 /\ m.c[1].k = "ID"}}
\* find_var_reads visits nothing of an assignment to a variable.
RECURSIVE find_var_reads(_)
find_var_reads(t) ==
    IF t.k = "ID" THEN {t}
    ELSE IF t.k = "Assignment" /\ t.c[1].k = "ID" THEN {}
    ELSE IF t.k = "UnaryOp" /\ t.s = "&" /\ t.c[1].k = "ID" THEN {}
    ELSE UNION {find_var_reads(t.c[i]) : i \in DOMAIN t.c}
compute_read_locations(fn) == {<<n.s, n.id>> : n \in find_var_reads(fn)}
Of(locations, name) == {l[2] : l \in {x \in locations : x[1] = name}}

\* Nothing but ints and pointers to them.
RECURSIVE IsPtr(_, _)
IsPtr(fn, e) ==
    \/ e.k = "UnaryOp" /\ e.s = "&"
    \/ e.k = "ID" /\ \E d \in NodesOf(fn) : IsDecl(d) /\ d.s = e.s /\ d.v = 1
    \/ e.k = "Assignment" /\ IsPtr(fn, e.c[1])
    \/ e.k = "UnaryOp" /\ e.s \in Increments /\ IsPtr(fn, e.c[1])
    \/ e.k = "BinaryOp" /\ e.s \in {"+", "-"} /\ IsPtr(fn, e.c[1]) # IsPtr(fn, e.c[2])
    \/ e.k = "ExprList" /\ IsPtr(fn, e.c[Len(e.c)])

-----------------------------------------------------------------------------
(* Blocks.                                                                     *)

\* for_nested_blocks: the blocks directly below a statement.
RECURSIVE NestedBlocks(_)
NestedBlocks(stmt) ==
    CASE stmt.k = "Compound" -> <<stmt>>
      [] stmt.k \in {"If", "While", "DoWhile"} -> Tail(stmt.c)
      [] stmt.k = "Label" -> NestedBlocks(stmt.c[1])
      [] OTHER -> <<>>
has_nested_block(stmt) == stmt.k \in {"Compound", "For", "While", "DoWhile", "If", "Switch", "Case", "Default"}
RECURSIVE BlocksIn(_)
\* A block and all blocks inside it.
BlocksIn(block) ==
    {block} \cup UNION {LET bs == NestedBlocks(block.c[i]) IN UNION {BlocksIn(bs[j]) : j \in DOMAIN bs} :
                           i \in DOMAIN block.c}

SpliceSeq(s, i, new) == SubSeq(s, 1, i) \o new \o SubSeq(s, i + 1, Len(s))
\* stmts goes behind the first i statements of the block with number b.
RECURSIVE insert_statements(_, _, _, _)
insert_statements(t, b, i, stmts) ==
    IF t.id = b THEN [t EXCEPT !.c = SpliceSeq(@, i, stmts)]
    ELSE [t EXCEPT !.c = [j \in DOMAIN t.c |-> insert_statements(t.c[j], b, i, stmts)]]
RECURSIVE PopStatement(_, _, _)
PopStatement(t, b, i) ==
    IF t.id = b THEN [t EXCEPT !.c = RemoveAt(@, i + 1)]
    ELSE [t EXCEPT !.c = [j \in DOMAIN t.c |-> PopStatement(t.c[j], b, i)]]
LeadingDecls(fn) ==
    CHOOSE n \in 0..Len(fn.c) :
        /\ \A i \in 1..n : IsDecl(fn.c[i])
        /\ n = Len(fn.c) \/ ~ IsDecl(fn.c[n + 1])
\* insert_decl with a random place among the leading declarations.
DeclInsertions(fn, name, ptr) == {insert_statements(fn, fn.id, i, <<Decl(name, ptr, <<>>)>>) : i \in 0..LeadingDecls(fn)}

-----------------------------------------------------------------------------
(* Regions: the numbers of the pragmas around them.                            *)

Unbounded == [lo |-> -1, hi |-> 1000000]
Regions(fn) ==
    LET starts == {n.id : n \in {m \in NodesOf(fn) : m.k = "Pragma" /\ m.s = "randomizer start"}}
        ends == {n.id : n \in {m \in NodesOf(fn) : m.k = "Pragma" /\ m.s = "randomizer end"}}
    IN IF starts = {} THEN {Unbounded} ELSE {[lo |-> a, hi |-> Min({b \in ends : b > a})] : a \in starts}
contains_node(r, n) == r.lo < n.id /\ LastId(n) < r.hi
contains_pre(r, n) == r.lo < n.id /\ n.id < r.hi
get_block_expressions(fn, r) == {e \in Exprs(fn) : contains_node(r, e)}

Nothing == Node("None", "", 0, <<>>)
\* get_insertion_points: in order, the block, how many of its statements lie
\* before, the statement before and the one behind.
RECURSIVE PointsIn(_, _)
PointsIn(block, r) ==
    LET last(i) == IF i = 1 THEN Nothing ELSE block.c[i - 1]
        nested(i) == Concat([j \in DOMAIN NestedBlocks(block.c[i]) |-> PointsIn(NestedBlocks(block.c[i])[j], r)])
        at(i) == (IF contains_pre(r, block.c[i])
                  THEN <<[b |-> block, i |-> i - 1, before |-> last(i), after |-> block.c[i]]>> ELSE <<>>)
                    \o nested(i)
        end == IF contains_node(r, IF block.c = <<>> THEN block ELSE block.c[Len(block.c)])
               THEN <<[b |-> block, i |-> Len(block.c), before |-> last(Len(block.c) + 1), after |-> Nothing]>>
               ELSE <<>>
    IN Concat([i \in DOMAIN block.c |-> at(i)]) \o end
get_insertion_points(fn, r) == SelectSeq(PointsIn(fn, r), LAMBDA p : ~ IsDecl(p.after))

-----------------------------------------------------------------------------
\* name, name2, name3, ...: the first that is not in use.
RECURSIVE CountedName(_, _, _)
CountedName(used, name, counter) ==
    LET n == IF counter = 1 THEN name ELSE name \o ToString(counter)
    IN IF n \in used THEN CountedName(used, name, counter + 1) ELSE n
=============================================================================
