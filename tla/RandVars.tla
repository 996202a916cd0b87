------------------------------- MODULE RandVars -------------------------------
(* randomizer.py, the two passes that reason about where a variable is written  *)
(* and read: a temporary for an expression, and a variable's contents for it.   *)
EXTENDS CTree

CONSTANT Plans     \* by name, what is tried: [starts, methods, passes, pointers, keeps]
VARIABLE plan      \* the name of one

\* Whether temporaries may hold addresses: a subset of BOOLEAN.
MakePtr == Plans[plan].pointers

MAX_INDEX == 1000000
Below(s, n) == {x \in s : x < n}
AtOrAfter(s, n) == {x \in s : x >= n}

\* The last write before base to a variable that expr reads, and the first one
\* from base on.
surrounding_writes(fn, expr, base) ==
    LET locs == UNION {Of(compute_write_locations(fn), v.s) : v \in find_var_reads(expr)}
    IN [prev |-> Max({-1} \cup Below(locs, base.id)), next |-> Min({MAX_INDEX} \cup AtOrAfter(locs, base.id))]

\* The variables in scope at a statement of a block, without arrays.
ScopeAt(block, i, outer) == outer \cup {block.c[j].s : j \in {k \in 1..i : IsDecl(block.c[k])}}
\* The statements of a block the assignment may go before.
PlacesIn(block) ==
    {i \in DOMAIN block.c : \E j \in 1..i : block.c[j].k \notin {"Decl", "Pragma"}}
\* The places for an assignment of expr: not above a write to what it reads.
\* outer is what the blocks around this one declare so far.
RECURSIVE Places(_, _, _, _, _)
Places(fn, r, block, ptr, outer) ==
    LET exprs(i) == {e \in Exprs(block.c[i]) : contains_node(r, e) /\ (ptr => is_lvalue(e))}
        read(e) == IF ptr THEN UnaryOp("&", e) ELSE e
        scope(i) == ScopeAt(block, i, outer)
        here == UNION {UNION {{[b |-> block, i |-> j, e |-> e, var |-> v] :
                                  j \in {k \in PlacesIn(block) :
                                            k <= i /\ block.c[k].id > surrounding_writes(fn, read(e), e).prev},
                                  v \in scope(i) \cup {""}} :
                              e \in exprs(i)} : i \in DOMAIN block.c}
        below(i) == LET bs == NestedBlocks(block.c[i])
                    IN UNION {Places(fn, r, bs[j], ptr, scope(i)) : j \in DOMAIN bs}
    IN here \cup UNION {below(i) : i \in DOMAIN block.c}

\* maybe_reuse_var: the variable may be overwritten from before on if it is not
\* read again, and holds the value until the expression.
MayReuse(fn, var, before, expr) ==
    LET from == before.id
        write == Min({MAX_INDEX} \cup AtOrAfter(Of(compute_write_locations(fn), var), from))
        read == Min({MAX_INDEX} \cup AtOrAfter(Of(compute_read_locations(fn), var), from))
    IN /\ read < MAX_INDEX => write < read
       /\ write < MAX_INDEX => write >= expr.id

\* The equal expressions that could use the temporary as well.
ReplaceCands(fn, read, expr, before) ==
    LET w == surrounding_writes(fn, read, expr)
        prev == Max({w.prev, before.id - 1})
    IN IF is_effectful(read) THEN {expr}
       ELSE {e \in Exprs(fn) : prev < e.id /\ e.id <= w.next /\ equal_ast(e, expr)}

\* The function with the expressions replaced; atUse: the assignment is part of
\* the expression.
Replaced(fn, p, var, ptr, read, atUse, set) ==
    LET deref(e) == IF ptr THEN UnaryOp("*", e) ELSE e
        with == [id \in {e.id : e \in set} |->
                    deref(IF atUse /\ id = p.e.id THEN Assignment("=", ID(var), read) ELSE ID(var))]
        body == replace_subexprs(fn, with)
    IN IF atUse THEN body ELSE insert_statements(body, p.b.id, p.i - 1, <<Assignment("=", ID(var), read)>>)

\* One way to go on from a place: reuse the variable or take a new one.
TempAt(fn, p, ptr, atUse) ==
    LET read == IF ptr THEN UnaryOp("&", p.e) ELSE p.e
        before == IF atUse THEN p.e ELSE p.b.c[p.i]
        isPtr == IsPtr(fn, read)
        reuse == {v \in {p.var} \ {""} : isPtr = IsPtr(fn, ID(v)) /\ MayReuse(fn, v, before, p.e)}
        new == CountedName({l[1] : l \in compute_write_locations(fn)}, "new_var", 1)
        cands == ReplaceCands(fn, read, p.e, before)
        sets == {{p.e} \cup s : s \in SUBSET cands}
        results(v) == {Replaced(fn, p, v, ptr, read, atUse, s) : s \in sets}
    IN UNION {results(v) : v \in reuse}
           \cup UNION {DeclInsertions(g, new, IF isPtr THEN 1 ELSE 0) : g \in results(new)}
\* assert orig_expr in replace_cands.
TempAsserts(fn, r) ==
    \A ptr \in MakePtr : \A p \in Places(fn, r, fn, ptr, {}) : \A atUse \in BOOLEAN :
        p.e \in ReplaceCands(fn, IF ptr THEN UnaryOp("&", p.e) ELSE p.e, p.e, IF atUse THEN p.e ELSE p.b.c[p.i])
perm_temp_for_expr(fn, r) ==
    UNION {UNION {UNION {TempAt(fn, p, ptr, atUse) : atUse \in BOOLEAN} :
                      p \in Places(fn, r, fn, ptr, {})} : ptr \in MakePtr}

-----------------------------------------------------------------------------
\* What a write stored, or nothing that can be put in place of the variable.
Stored(write) ==
    IF IsDecl(write) THEN write.c
    ELSE IF write.k = "Assignment" /\ write.s = "=" THEN <<write.c[2]>> ELSE <<>>
\* The reads between a write and the next one.
RangeOfWrite(fn, r, name, id) ==
    LET writes == Of(compute_write_locations(fn), name)
        before == Max(Below(writes, id))
        after == Min({MAX_INDEX} \cup AtOrAfter(writes, id))
    IN {i \in Of(compute_read_locations(fn), name) : before < i /\ i < after /\ r.lo < i /\ i < r.hi}
\* All of the reads, or all but a stretch around the chosen one.
Stretches(reads, id) ==
    {s \in SUBSET reads : id \in s /\ s # reads /\ \A i, j \in s, l \in reads : i < l /\ l < j => l \in s}
Expansions(reads, id) ==
    {[reads |-> reads, keep |-> k] : k \in BOOLEAN}
        \cup {[reads |-> reads \ s, keep |-> TRUE] : s \in Stretches(reads, id)}
Expanded(fn, write, x) ==
    LET value == deepcopy(Stored(write)[1])
        gone == IF x.keep \/ IsDecl(write) THEN <<>>
                ELSE write.id :> (IF \E e \in Exprs(fn) : e.id = write.id THEN write.c[1] ELSE EmptyStatement)
        body == visit_replace(fn, [i \in x.reads |-> value] @@ gone)
    IN IF ~ x.keep /\ IsDecl(write) THEN Put(body, write.id, [write EXCEPT !.c = <<>>]) ELSE body
perm_expand_expr(fn, r) ==
    LET reads == {l \in compute_read_locations(fn) : r.lo < l[2] /\ l[2] < r.hi}
        write(l) == NodeWith(fn, Max(Below(Of(compute_write_locations(fn), l[1]), l[2])))
        written == {l \in reads : Below(Of(compute_write_locations(fn), l[1]), l[2]) # {} /\ Stored(write(l)) # <<>>}
    IN UNION {{Expanded(fn, write(l), x) :
                  x \in {y \in Expansions(RangeOfWrite(fn, r, l[1], l[2]), l[2]) :
                            is_effectful(Stored(write(l))[1]) => Cardinality(y.reads) = 1 /\ ~ y.keep}} :
              l \in written}
=============================================================================
