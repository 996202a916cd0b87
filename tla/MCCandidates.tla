----------------------------- MODULE MCCandidates -----------------------------
(* Where a candidate comes from, one of two ways chosen at the start: a seed   *)
(* of a source with PERM_ macros, and random passes over a function.           *)
EXTENDS Randomizer, CMeaning

CONSTANTS
    None,
    Evaluated(_, _), ParsedTree(_)

VARIABLES
    part,       \* "macros" or "passes"
    meant, perm, phase, seen, rest, given, made, cand, cache

P == INSTANCE PermTree
E == INSTANCE PermEval
MCEvaluated(p, seed) == E!EvalRoot(p, seed)
MCParsedTree(text) == E!perm_parse(text)
M == INSTANCE PermMacros WITH Trees <- P!Sources, CacheMax <- 1
macroVars == <<meant, perm, phase, seen, rest, given, made, cand, cache>>

a == ID("a")
b == ID("b")
x == ID("x")
use(e) == FuncCall("use", <<e>>)
f(e) == FuncCall("f", <<e>>)
Sub(l, r) == BinaryOp("-", l, r)
Add(l, r) == BinaryOp("+", l, r)
Let(n, e) == Assignment("=", ID(n), e)
MCGlobals == {"g"}

\* Expressions of every kind the equivalences look for.
PureStarts ==
    {Compound(<<use(BinaryOp("*", Constant(6), Sub(a, Constant(2)))), use(BinaryOp(">>", b, Constant(3)))>>),
     Compound(<<Decl("x", 0, <<a>>), If(BinaryOp("<", b, x), Compound(<<Let("x", Add(x, b)), use(x)>>))>>),
     Compound(<<DoWhile(Constant(0), Compound(<<Assignment("-=", a, Constant(1)), use(a)>>)), use(Constant(0))>>),
     Compound(<<Decl("p", 1, <<a>>), use(Add(ID("p"), b)), use(Sub(ID("p"), b))>>)}
Equivalences ==
    {"perm_commutative", "perm_add_sub", "perm_inequalities", "perm_condition", "perm_factor_mult",
     "perm_factor_shift", "perm_xor_zero", "perm_mult_zero", "perm_dummy_comma_expr",
     "perm_compound_assignment", "perm_ins_block", "perm_pad_var_decl", "perm_empty_stmt",
     "perm_refer_to_var", "perm_sameline", "perm_add_self_assignment"}
\* What perm_inline can find in several places.
InlineStarts ==
    {Compound(<<use(Sub(a, Constant(2))), use(Sub(b, a)), Let("a", Sub(Add(b, a), Constant(2))), use(Sub(a, Constant(2)))>>),
     Compound(<<use(Add(ID("g"), Sub(a, b))), Let("g", Add(ID("g"), Sub(b, a))), use(ID("g"))>>),
     Compound(<<use(BinaryOp("*", Add(a, b), Add(b, a))), use(BinaryOp("*", a, b)), use(BinaryOp("*", b, b))>>)}
Inline == {"perm_inline"}

\* Every straight piece of code of four of these statements.
StraightLine(stmts) ==
    {Compound(<<Decl("x", 0, <<>>)>> \o ss) : ss \in [1..4 -> stmts]}
StraightStarts == StraightLine({use(Add(a, b)), use(x), Let("a", Constant(1)), Let("b", Constant(2))})
Variables2 == {"perm_temp_for_expr", "perm_expand_expr"}

\* Blocks, labels, declarations and calls; and regions.
ShapeStarts ==
    {Compound(<<Decl("x", 0, <<f(a)>>), Let("a", Add(x, Constant(2))), Let("b", Add(x, Constant(2))),
                IfElse(f(b), Compound(<<Decl("y", 0, <<a>>), use(Add(x, Constant(2))), use(ID("y"))>>),
                       Compound(<<Label("l", use(b))>>)),
                DoWhile(BinaryOp("<", a, b), Compound(<<Let("b", f(x)), Let("a", b)>>))>>),
     Compound(<<Decl("x", 0, <<>>), Let("x", f(a)), Pragma("randomizer start"), Let("a", f(x)), Let("b", Cast(x)),
                If(BinaryOp("&", b, Constant(0)), Compound(<<Decl("y", 0, <<x>>), use(Sub(a, ID("y")))>>)),
                Pragma("randomizer end"), Let("a", f(x)), use(a), Let("b", BinaryOp("*", x, Constant(4)))>>),
     Compound(<<Let("a", ID("g")), Let("b", ID("g")), Let("x", ID("g")), use(Sub(b, x))>>)}
AllMethods == Equivalences \cup Variables2 \cup
    {"perm_reorder_stmts", "perm_reorder_decls", "perm_add_mask", "perm_cast_simple", "perm_split_assignment",
     "perm_remove_ast", "perm_duplicate_assignment", "perm_chain_assignment", "perm_long_chain_assignment"}
\* Small enough for two passes in a row.
SmallStarts ==
    {Compound(<<Decl("x", 0, <<f(a)>>), If(x, Compound(<<Let("x", Add(a, x))>>)), use(x)>>),
     Compound(<<Pragma("randomizer start"), use(a), use(b), Pragma("randomizer end")>>)}
SmallMethods == AllMethods \ {"perm_refer_to_var"}

Plan(starts, methods, passes, pointers, keeps) ==
    [starts |-> starts, methods |-> methods, passes |-> passes, pointers |-> pointers, keeps |-> keeps]
Movers == {"perm_reorder_stmts", "perm_reorder_decls"}
MCPlans ==
    [equivalent |-> Plan(PureStarts, Equivalences, 2, {FALSE}, TRUE), inline |-> Plan(InlineStarts, Inline, 1, {FALSE}, TRUE),
     variables |-> Plan(StraightStarts, Variables2, 1, {FALSE}, TRUE),
     once |-> Plan(ShapeStarts, AllMethods, 1, BOOLEAN, FALSE), twice |-> Plan(SmallStarts, SmallMethods, 2, BOOLEAN, FALSE)]

vars == <<part, plan, randVars, macroVars>>
\* The way that was not chosen has nothing to work on.
NoMacros ==
    /\ meant = None /\ perm = None /\ phase = "done" /\ seen = {} /\ rest = {} /\ given = <<>>
    /\ made = {} /\ cand = None /\ cache = <<>>
NoPasses ==
    /\ plan = "once" /\ first = Compound(<<>>) /\ fn = first /\ inlines = <<>>
    /\ history = <<>> /\ region = Unbounded /\ shared = FALSE
Init ==
    \/ part = "macros" /\ M!Init /\ NoPasses
    \/ part = "passes" /\ RInit /\ NoMacros
Next ==
    \/ part = "macros" /\ M!Next /\ UNCHANGED <<part, plan, randVars>>
    \/ part = "passes" /\ RNext /\ UNCHANGED <<part, macroVars>>
Spec == Init /\ [][Next]_vars

-----------------------------------------------------------------------------
Envs == {("a" :> 3) @@ ("b" :> 8), ("a" :> 8) @@ ("b" :> 3), ("a" :> 0) @@ ("b" :> 0) @@ ("g" :> 5)}

\* The passes that promise another form of the same expression ("a > b and
\* a >= b + 1 ... (and vice versa)") keep what the function does, in any order
\* and number, as do a temporary that no statement sets again, a variable replaced by the
\* constant it holds, and an inline function.
MeaningKept ==
    Plans[plan].keeps => \A env \in Envs : Calls(inlines, fn, env) = Calls(<<>>, first, env)

\* compute_node_indices runs before every pass and asserts that "nodes should
\* only appear once in AST": what a pass moves or copies is never in two places.
NodesOnce == ~ shared

\* The assert of perm_temp_for_expr: the expression that was chosen is always
\* among those the temporary may stand for, whatever the place.
ChosenReplaced == Len(history) < MaxPasses => \A r \in Regions(fn) : TempAsserts(fn, r)
\* The asserts of perm_reorder_decls: no declaration moves to where it is.
DeclsReallyMove == Len(history) < MaxPasses =>
    \A r \in Regions(fn) : \A m \in DeclMoves(fn, r) :
        SameBlock(m[1], m[2]) => m[2].i \notin {m[1].i, m[1].i + 1}

\* "Don't move to before a declaration, to maintain C89 compat", "(Except before
\* a declaration.)": in every block the declarations stay first.
DeclsFirst ==
    \A block \in BlocksIn(fn) : \A i, j \in DOMAIN block.c :
        i < j /\ IsDecl(block.c[j]) => block.c[i].k \in {"Decl", "Pragma"}

RECURSIVE PragmasIn(_)
PragmasIn(t) == IF t.k = "Pragma" THEN <<t.s>> ELSE Concat([i \in DOMAIN t.c |-> PragmasIn(t.c[i])])
CountIn(s, v) == Cardinality({i \in DOMAIN s : s[i] = v})
\* process_pragmas asserts that every sameline pragma was closed when it prints
\* the function, and get_randomization_region that regions do not nest: what
\* passes insert, move and wrap leaves the pragmas in pairs.
PragmasPaired ==
    LET ps == PragmasIn(fn)
        paired(start, end) ==
            /\ \A i \in 0..Len(ps) : CountIn(SubSeq(ps, 1, i), start) >= CountIn(SubSeq(ps, 1, i), end)
            /\ CountIn(ps, start) = CountIn(ps, end)
    IN paired("sameline start", "sameline end") /\ paired("randomizer start", "randomizer end")

CountOf(t, m) == Cardinality({n \in NodesOf(t) : <<n.k, n.s>> = m})
Applied(m) == Len(history') > Len(history) /\ history'[Len(history')] \in m
\* "we don't want to risk moving a block to inside itself": a pass that moves
\* statements loses none of their calls and gains none.
CallsMoved ==
    Applied(Movers) => \A c \in {"use", "f"} :
        CountOf(fn', <<"FuncCall", c>>) = CountOf(fn, <<"FuncCall", c>>)
\* "Don't duplicate effectful expressions.": no pass but those that duplicate or
\* remove what they find makes the function call something once more or less.
EffectsOnce ==
    ~ Applied({"perm_duplicate_assignment", "perm_remove_ast", "perm_inline"}) =>
        CountOf(fn', <<"FuncCall", "f">>) = CountOf(fn, <<"FuncCall", "f">>)

\* The passes that keep to the region.
InRegion ==
    (Equivalences \ {"perm_condition", "perm_ins_block", "perm_pad_var_decl", "perm_empty_stmt", "perm_refer_to_var"})
        \cup (AllMethods \ (Equivalences \cup Variables2 \cup {"perm_duplicate_assignment"}))
\* The nodes up to the start of the region, and those from its end on.
NodeAt(t, i) == LET n == NodeWith(t, i) IN <<n.k, n.s, n.v>>
Around(t, r) ==
    LET end == CHOOSE i \in 1..Size(t) : /\ NodeAt(t, i) = <<"Pragma", "randomizer end", 0>> /\ i > r.lo
                                         /\ \A j \in r.lo..(i - 1) : NodeAt(t, j) # <<"Pragma", "randomizer end", 0>>
    IN [i \in 1..r.lo |-> NodeAt(t, i)] \o [i \in 1..(Size(t) - end) |-> NodeAt(t, end + i)]
\* PERM_RANDOMIZE: a pass that is limited to the region leaves the code around
\* it alone.
RegionKept ==
    region' # Unbounded /\ Applied(InRegion) => Around(fn', region') = Around(fn, region')

\* What the PERM_ macros of a source make is what its author asked for: a pass yields
\* every seed once and tries all combinations, of the PERM_ONCEs of a key one is
\* expanded (where none lies in another choice), every candidate is one of the
\* variations meant, through a cache that keeps to its size, and the sources that are
\* refused are those with a mistake in them.
CandidatesExact ==
    /\ part = "macros" => ((phase = "refused") <=> (meant \in P!Wrong))
    /\ M!MTypeOK /\ M!SeedsOnce /\ M!AllTried /\ M!CandidateIntended
    /\ meant \in P!SourcesOnce => M!KeysOnce

\* After any pass the tree is one that the next pass, and the printer, take: no node is
\* in two places, declarations come first and pragmas in pairs, and the places that a
\* pass would choose next are ones its asserts allow.
TreeSound == NodesOnce /\ DeclsFirst /\ PragmasPaired /\ ChosenReplaced /\ DeclsReallyMove

\* A pass does what it must not undo: no call is lost or made twice, and the code
\* around a PERM_RANDOMIZE region stays as it is.
CallsKept == [][CallsMoved /\ EffectsOnce /\ RegionKept]_vars
=============================================================================
