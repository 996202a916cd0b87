------------------------------- MODULE LRTable -------------------------------
(* class LRGeneratedTable of ply/yacc.py: from a grammar, the LR(0) automaton, *)
(* its LALR(1) lookaheads by DeRemer and Pennello, and the tables the parser   *)
(* runs on. An item is <<production, dot>>, production 0 being S' -> start, and *)
(* a state the sequence of its items: the code tells states apart by the order *)
(* in which their items were reached.                                          *)
EXTENDS GrammarRef, SequencesExt

CONSTANTS
    Grammars,       \* [prods: Seq([name, rhs, prec, line]), terminals, precs, users of its parser]
    None

VARIABLES
    g,              \* the grammar
    C,              \* lr0_items: states in the order they were found
    next,           \* the state to expand, then the state to make actions for
    goto,           \* [<<state, symbol>> -> state]: lr0_goto by state number
    stage,          \* "items", "lookaheads", "table", "done" or "raised"
    includes,       \* set of <<transition, transition>>
    lookaheads,     \* [<<state, item>> -> terminals]
    action          \* per state, [terminals -> shift > 0, reduce < 0, accept 0, or None]

tables == <<g, C, next, goto, stage, includes, lookaheads, action>>

-------------------------------------------------------------------------------
\* FoldLeft of SequencesExt, each intermediate value computed once.
FoldOver(op(_, _), base, seq) ==
    LET upto[k \in 0..Len(seq)] == IF k = 0 THEN base ELSE LET acc == upto[k - 1] IN op(acc, seq[k])
    IN upto[Len(seq)]

Start == g.prods[1].name
NameOf(p) == IF p = 0 THEN "S'" ELSE g.prods[p].name
RhsOf(p) == IF p = 0 THEN <<Start>> ELSE g.prods[p].rhs
Nonterminals == {g.prods[i].name : i \in DOMAIN g.prods}

AtEnd(it) == it[2] = Len(RhsOf(it[1]))
AfterDot(it) == IF AtEnd(it) THEN None ELSE RhsOf(it[1])[it[2] + 1]
Dotted(it) == InsertAt(RhsOf(it[1]), it[2] + 1, ".")

\* The rules of the symbol behind each item's dot join once each, in file order.
RECURSIVE Closing(_, _)
Closing(J, k) ==
    IF k > Len(J) THEN J
    ELSE LET fresh(p) == NameOf(p) = AfterDot(J[k]) /\ <<p, 0>> \notin Range(J)
             rulenos == SelectSeq([p \in DOMAIN g.prods |-> p], fresh)
         IN Closing(J \o [n \in DOMAIN rulenos |-> <<rulenos[n], 0>>], k + 1)
lr0_closure(I) == Closing(I, 1)

Kernel(I, x) ==
    LET moving == SelectSeq(I, LAMBDA it : AfterDot(it) = x)
    IN [n \in DOMAIN moving |-> <<moving[n][1], moving[n][2] + 1>>]

\* Two goto sets are one object when their kernels list the same items in one order.
KernelOf(I) == SelectSeq(I, LAMBDA it : it[2] > 0)
lr0_goto(found, kernel) == {j \in DOMAIN found : KernelOf(found[j]) = kernel /\ kernel # <<>>}

usyms(I) == FoldOver(LAMBDA seen, it : seen \o SelectSeq(RhsOf(it[1]), LAMBDA s : s \notin Range(seen)), <<>>, I)

TInit ==
    /\ g \in Grammars
    /\ C = <<lr0_closure(<<<<0, 0>>>>)>> /\ next = 1 /\ goto = [t \in {} |-> 0]
    /\ stage = "items" /\ includes = {} /\ lookaheads = [t \in {} |-> {}] /\ action = <<>>

\* One turn of the loop of lr0_items: the gotos of state next, new ones at the end.
lr0_items ==
    /\ stage = "items" /\ next <= Len(C)
    /\ LET Visit(found, x) ==
               LET kernel == Kernel(C[next], x)
               IN IF kernel = <<>> \/ lr0_goto(found, kernel) # {} THEN found
                  ELSE Append(found, lr0_closure(kernel))
       IN C' = FoldOver(Visit, C, usyms(C[next]))
    /\ goto' = [t \in DOMAIN goto \cup {<<next, x>> : x \in {AfterDot(it) : it \in Range(C[next])} \ {None}} |->
                  IF t \in DOMAIN goto THEN goto[t] ELSE CHOOSE j \in lr0_goto(C', Kernel(C[next], t[2])) : TRUE]
    /\ next' = next + 1 /\ UNCHANGED <<g, stage, includes, lookaheads, action>>

-------------------------------------------------------------------------------
\* Sets that grow until a pass over the rules adds none.
compute_nullable_nonterminals == Nullable(g.prods)

find_nonterminal_transitions ==
    LET InState(s) == SelectSeq([k \in DOMAIN C[s] |-> <<s, AfterDot(C[s][k])>>], LAMBDA t : t[2] \in Nonterminals)
        New(seen, t) == IF t \in Range(seen) THEN seen ELSE Append(seen, t)
    IN FoldOver(New, <<>>, FlattenSeq([s \in DOMAIN C |-> InState(s)]))

dr_relation(t) ==
    ({AfterDot(it) : it \in Range(C[goto[t]])} \cap g.terminals)
    \cup (IF t = <<1, Start>> THEN {End} ELSE {})
reads_relation(t, nullable) ==
    LET reading == SelectSeq(C[goto[t]], LAMBDA it : AfterDot(it) \in nullable)
    IN [k \in DOMAIN reading |-> <<goto[t], AfterDot(reading[k])>>]

\* digraph() on [N, stack, F, sets]: a set is a list object shared by whoever holds
\* its cell, F[x] is the cell of x. FP[x] is the cell that x starts from.
MAXINT == 1000
Cell(d, x) == IF x \in DOMAIN d.F THEN d.sets[d.F[x]] ELSE {}
\* Mutant: the members of a loop keep what they have collected so far.
RECURSIVE traverseUnshared(_, _, _, _)
traverseUnshared(x, d0, R, FP) ==
    LET depth == Len(d0.stack) + 1
        d1 == [d0 EXCEPT !.stack = Append(@, x), !.N[x] = depth, !.F = (x :> FP[x]) @@ @]
        Visit(d, y) ==
            LET e == IF d.N[y] = 0 THEN traverseUnshared(y, d, R, FP) ELSE d
            IN [e EXCEPT !.N[x] = IF e.N[y] < @ THEN e.N[y] ELSE @,
                         !.sets[e.F[x]] = @ \cup Cell(e, y)]
        d2 == FoldOver(Visit, d1, R[x])
        scc == {d2.stack[k] : k \in depth..Len(d2.stack)}
    IN IF d2.N[x] # depth THEN d2
       ELSE [d2 EXCEPT !.N = [y \in DOMAIN @ |-> IF y \in scc THEN MAXINT ELSE @[y]],
                       !.stack = SubSeq(@, 1, depth - 1)]
RECURSIVE traverse(_, _, _, _)
traverse(x, d0, R, FP) ==
    LET depth == Len(d0.stack) + 1
        d1 == [d0 EXCEPT !.stack = Append(@, x), !.N[x] = depth, !.F = (x :> FP[x]) @@ @]
        Visit(d, y) ==
            LET e == IF d.N[y] = 0 THEN traverse(y, d, R, FP) ELSE d
            IN [e EXCEPT !.N[x] = IF e.N[y] < @ THEN e.N[y] ELSE @,
                         !.sets[e.F[x]] = @ \cup Cell(e, y)]
        d2 == FoldOver(Visit, d1, R[x])
        scc == {d2.stack[k] : k \in depth..Len(d2.stack)}
    IN IF d2.N[x] # depth THEN d2
       ELSE [d2 EXCEPT !.N = [y \in DOMAIN @ |-> IF y \in scc THEN MAXINT ELSE @[y]],
                       !.F = [y \in DOMAIN @ |-> IF y \in scc THEN d2.F[x] ELSE @[y]],
                       !.stack = SubSeq(@, 1, depth - 1)]
digraph(X, R, FP, sets) ==
    FoldOver(LAMBDA d, x : IF d.N[x] = 0 THEN traverse(x, d, R, FP) ELSE d,
             [N |-> [x \in Range(X) |-> 0], stack |-> <<>>, F |-> [x \in {} |-> 0], sets |-> sets], X)

compute_read_sets(trans, nullable) ==
    LET X == Range(trans)
    IN digraph(trans, [t \in X |-> reads_relation(t, nullable)], [t \in X |-> t], [t \in X |-> dr_relation(t)])

\* The states item it runs through from state s: path[k] is where its k-th symbol
\* behind the dot is read.
RECURSIVE Path(_, _)
Path(s, syms) == IF syms = <<>> THEN <<s>> ELSE <<s>> \o Path(goto[<<s, Head(syms)>>], Tail(syms))
Rest(it) == SubSeq(RhsOf(it[1]), it[2] + 1, Len(RhsOf(it[1])))
Vanishing(syms, nullable) == Range(syms) \subseteq nullable

\* Every item of state s named A takes part, wherever its dot is.
Included(t, nullable) ==
    UNION {LET syms == Rest(it)  path == Path(t[1], syms)
           IN {<<path[k], syms[k]>> : k \in {k \in DOMAIN syms :
                  syms[k] \in Nonterminals /\ Vanishing(SubSeq(syms, k + 1, Len(syms)), nullable)}}
             : it \in {it \in Range(C[t[1]]) : NameOf(it[1]) = t[2]}}
lookback(t) ==
    UNION {LET j == Last(Path(t[1], Rest(p)))
           IN {<<j, r>> : r \in {r \in Range(C[j]) :
                  /\ NameOf(r[1]) = NameOf(p[1]) /\ Len(Dotted(r)) = Len(Dotted(p))
                  /\ \A i \in 1..r[2] : Dotted(r)[i] = Dotted(p)[i + 1]}}
             : p \in {it \in Range(C[t[1]]) : NameOf(it[1]) = t[2]}}

\* The order in which a transition lists those it is included by is the order of trans.
compute_follow_sets(trans, reads, incl) ==
    LET X == Range(trans)
    IN digraph(trans, [t \in X |-> SelectSeq(trans, LAMBDA by : <<t, by>> \in incl)], reads.F, reads.sets)

add_lalr_lookaheads ==
    LET nullable == compute_nullable_nonterminals
        trans == find_nonterminal_transitions
        incl == UNION {{<<i, t>> : i \in Included(t, nullable)} : t \in Range(trans)}
        follow == compute_follow_sets(trans, compute_read_sets(trans, nullable), incl)
        lookd == UNION {{<<t, sp>> : sp \in lookback(t)} : t \in Range(trans)}
    IN /\ stage = "items" /\ next > Len(C)
       /\ includes' = incl
       /\ lookaheads' = [sp \in {x[2] : x \in lookd} |-> UNION {Cell(follow, x[1]) : x \in {x \in lookd : x[2] = sp}}]
       /\ stage' = "table" /\ next' = 1 /\ UNCHANGED <<g, C, goto, action>>

-------------------------------------------------------------------------------
PrecOfTerm(a) == IF a \in DOMAIN g.precs THEN g.precs[a] ELSE <<"right", 0>>

\* A reduction by rule p meets the shift to r.
OverShift(a, p, r) ==
    LET slevel == PrecOfTerm(a)[2]  rprec == g.prods[p].prec[1]  rlevel == g.prods[p].prec[2]
    IN IF slevel < rlevel \/ (slevel = rlevel /\ rprec = "left") THEN -p
       ELSE IF slevel = rlevel /\ rprec = "nonassoc" THEN None ELSE r
\* Mutant: sides exchanged.
OverReduceTurned(a, j, p) ==
    LET slevel == PrecOfTerm(a)[2]  rprec == g.prods[p].prec[1]  rlevel == g.prods[p].prec[2]
    IN IF slevel > rlevel \/ (slevel = rlevel /\ rprec = "left") THEN j
       ELSE IF slevel = rlevel /\ rprec = "nonassoc" THEN None ELSE -p
\* A shift to j meets the reduction by rule p.
OverReduce(a, j, p) ==
    LET slevel == PrecOfTerm(a)[2]  rprec == g.prods[p].prec[1]  rlevel == g.prods[p].prec[2]
    IN IF slevel > rlevel \/ (slevel = rlevel /\ rprec = "right") THEN j
       ELSE IF slevel = rlevel /\ rprec = "nonassoc" THEN None ELSE -p
\* Rule p meets rule q: the one on the earlier line wins, on one line the one met first.
OverReduction(p, q) == IF g.prods[q].line > g.prods[p].line THEN -p ELSE -q

\* st_action with one more reduction or shift: "raised" is LALRError.
Free(st, a) == a \notin DOMAIN st \/ st[a] = <<None>>
Reduce(st, a, p) ==
    IF Free(st, a) THEN (a :> <<-p>>) @@ st
    ELSE IF st[a] = <<0>> THEN ("raised" :> <<0>>) @@ st
    ELSE [st EXCEPT ![a] = IF @[1] > 0 THEN <<OverShift(a, p, @[1])>> ELSE <<OverReduction(p, -@[1])>>]
Shift(st, a, j) ==
    IF Free(st, a) THEN (a :> <<j>>) @@ st
    ELSE IF st[a][1] > 0 THEN st
    ELSE IF st[a] = <<0>> THEN ("raised" :> <<0>>) @@ st
    ELSE [st EXCEPT ![a] = <<OverReduce(a, j, -@[1])>>]

\* The items of a state in their order, each with its lookaheads or its symbol.
StateActions(s) ==
    LET OfItem(st, it) ==
            IF AfterDot(it) \in g.terminals THEN Shift(st, AfterDot(it), goto[<<s, AfterDot(it)>>])
            ELSE IF ~AtEnd(it) THEN st
            ELSE IF it[1] = 0 THEN (End :> <<0>>) @@ st
            ELSE FoldOver(LAMBDA acc, a : Reduce(acc, a, it[1]), st, SetToSeq(lookaheads[<<s, it>>]))
    IN FoldOver(OfItem, [a \in {} |-> <<0>>], C[s])

lr_parse_table ==
    /\ stage = "table" /\ next <= Len(C)
    /\ LET st == StateActions(next)
       IN IF "raised" \in DOMAIN st
          THEN stage' = "raised" /\ UNCHANGED <<action, next>>
          ELSE /\ action' = Append(action, st) /\ next' = next + 1
               /\ stage' = IF next = Len(C) THEN "done" ELSE "table"
    /\ UNCHANGED <<g, C, goto, includes, lookaheads>>

TNext == lr0_items \/ add_lalr_lookaheads \/ lr_parse_table

-------------------------------------------------------------------------------
TTypeOK ==
    /\ stage \in {"items", "table", "done", "raised"} /\ next \in 1..Len(C) + 1
    /\ \A s \in DOMAIN C : \A k \in DOMAIN C[s] :
          C[s][k][1] \in 0..Len(g.prods) /\ C[s][k][2] \in 0..Len(RhsOf(C[s][k][1]))
    /\ \A t \in DOMAIN goto : t[1] \in DOMAIN C /\ goto[t] \in DOMAIN C
    /\ \A t \in DOMAIN lookaheads : lookaheads[t] \subseteq g.terminals \cup {End}
    /\ \A s \in DOMAIN action : DOMAIN action[s] \subseteq g.terminals \cup {End}

\* Every state is found with all the items its kernel calls for, each once, and once
\* all are expanded a symbol behind a dot leads to the state whose kernel it makes.
ClosedUnder(items) ==
    \A it \in items : \A p \in DOMAIN g.prods : NameOf(p) = AfterDot(it) => <<p, 0>> \in items
StatesClosed ==
    \A s \in DOMAIN C : ClosedUnder(Range(C[s])) /\ Cardinality(Range(C[s])) = Len(C[s])
Advanced(s, x) == {<<it[1], it[2] + 1>> : it \in {it \in Range(C[s]) : AfterDot(it) = x}}
GotosExact ==
    stage # "items" =>
        \A s \in DOMAIN C : \A it \in Range(C[s]) :
            ~AtEnd(it) => Range(KernelOf(C[goto[<<s, AfterDot(it)>>]])) = Advanced(s, AfterDot(it))

\* What a reduction must be made on: LR(1) lookaheads carried through the automaton,
\* [<<state, item>> -> terminals] as pairs.
Carried(from, null, first) ==
    UNION {LET s == x[1]  it == x[2]  sym == AfterDot(it)
               beta == SubSeq(RhsOf(it[1]), it[2] + 2, Len(RhsOf(it[1])))
               ends == {k \in DOMAIN beta : Range(SubSeq(beta, 1, k - 1)) \subseteq null}
               las == UNION {first[beta[k]] : k \in ends} \cup (IF Range(beta) \subseteq null THEN {x[3]} ELSE {})
           IN IF sym = None THEN {}
              ELSE {<<goto[<<s, sym>>], <<it[1], it[2] + 1>>, x[3]>>}
                   \cup {<<s, <<p, 0>>, a>> : p \in {p \in DOMAIN g.prods : NameOf(p) = sym}, a \in las}
             : x \in from}
RECURSIVE Propagate(_, _, _, _)
Propagate(all, new, null, first) ==
    LET more == Carried(new, null, first) \ all
    IN IF more = {} THEN all ELSE Propagate(all \cup more, more, null, first)
Needed == LET seed == {<<1, <<0, 0>>, End>>} IN Propagate(seed, seed, Nullable(g.prods), FirstOf(g.prods))

\* No reduction is missing: each rule that ends in a state is reduced on everything
\* that may follow it there, the sets that digraph shares between the members of a
\* loop included. And none is made on a symbol that cannot follow its name at all.
LookaheadsEnough ==
    stage = "table" /\ next = 1 =>
        \A x \in Needed : AtEnd(x[2]) /\ x[2][1] # 0 => x[3] \in lookaheads[<<x[1], x[2]>>]
LookaheadsFollow ==
    stage = "table" /\ next = 1 =>
        LET follow == FollowOf(g.prods, Start)
        IN \A t \in DOMAIN lookaheads : AtEnd(t[2]) => lookaheads[t] \subseteq follow[NameOf(t[2][1])]

\* Where one rule ends before a symbol that could also be shifted, its precedence and
\* the symbol's decide, whichever item comes first; equal and nonassoc forbids both,
\* if one item only shifts the symbol (a second one would bring the shift back).
Reductions(s, a) == {t[2][1] : t \in {t \in DOMAIN lookaheads : t[1] = s /\ AtEnd(t[2]) /\ a \in lookaheads[t]}} \ {0}
Shifts(s, a) == {k \in DOMAIN C[s] : AfterDot(C[s][k]) = a}
Decided(s, a, p) ==
    LET level == PrecOfTerm(a)[2]  prec == g.prods[p].prec
    IN IF prec[2] > level THEN -p ELSE IF prec[2] < level THEN goto[<<s, a>>]
       ELSE CASE prec[1] = "left" -> -p [] prec[1] = "right" -> goto[<<s, a>>] [] prec[1] = "nonassoc" -> None
ShiftReduceByPrecedence ==
    \A s \in DOMAIN action : \A a \in g.terminals :
        Cardinality(Reductions(s, a)) = 1 /\ Shifts(s, a) # {}
            => \A p \in Reductions(s, a) :
                  (Decided(s, a, p) = None /\ Cardinality(Shifts(s, a)) > 1) \/ action[s][a] = <<Decided(s, a, p)>>
\* Of rules that end before the same symbol one of the earliest line is reduced, and a
\* symbol some item waits for, or some rule ends before, always has an entry.
ReduceReduceByOrder ==
    \A s \in DOMAIN action : \A a \in g.terminals \cup {End} :
        Reductions(s, a) # {} =>
            IF Shifts(s, a) # {} THEN a \in DOMAIN action[s]
            ELSE action[s][a] = <<0>>
                 \/ \E p \in Reductions(s, a) :
                      /\ action[s][a] = <<-p>>
                      /\ \A q \in Reductions(s, a) : g.prods[p].line <= g.prods[q].line

\* Building stops with an error only over a grammar that can accept and reduce at once.
RaisedOverAccept == stage = "raised" => Reductions(next, End) # {} /\ <<0, 1>> \in Range(C[next])
=============================================================================
