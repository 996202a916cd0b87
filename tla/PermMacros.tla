------------------------------ MODULE PermMacros ------------------------------
(* decomp-permuter's PERM_ macros (src/perm): the text of a source is parsed   *)
(* into a tree of Perms, a seed picks one variation of the tree, and the line  *)
(* swaps are carried out later, in the parsed function (candidate.py keeps one *)
(* parsed function per text and hands out copies).                             *)
(* A source is a sequence of tokens; white space is left out but for the line  *)
(* ends "nl" that PERM_LINESWAP splits at.                                     *)
EXTENDS PermEval

CONSTANTS
    Trees,      \* the sources, as their authors mean them
    CacheMax,   \* entries of _cached_shared_ast (16 in the code)
    None,
    Evaluated(_, _),    \* EvalRoot: the text of a tree under a seed, and its state
    ParsedTree(_)       \* perm_parse: the tree of a text

VARIABLES
    meant,      \* the author's tree
    perm,       \* the tree that perm_parse made of its text
    phase,      \* of _gen_all_seeds: "draw", "rest", "done", or "refused" by the parser
    seen, rest, \* its locals
    given,      \* [seed -> how often this pass yielded it]
    made,       \* what the candidates of this pass came out as
    cand,       \* the candidate built last
    cache       \* sequence of <<text, parsed function>>, the latest used last
vars == <<meant, perm, phase, seen, rest, given, made, cand, cache>>

-----------------------------------------------------------------------------
(* The function and its late line swaps.                                       *)

\* The C parser with normalize_ast: an if takes the statement behind it, in braces.
RECURSIVE Parsed(_)
Parsed(text) ==
    IF text = <<>> THEN <<>>
    ELSE LET h == text[1] IN
         IF h.k = "block" THEN <<Block(Parsed(h.b))>> \o Parsed(Tail(text))
         ELSE IF h.k = "tok" /\ h.a = "if"
         THEN LET body == Parsed(SubSeq(text, 2, 2))
              IN <<Item("if", "", IF body[1].k = "block" THEN body ELSE <<Block(body)>>)>>
                     \o Parsed(SubSeq(text, 3, Len(text)))
         ELSE <<h>> \o Parsed(Tail(text))

IsSwap(stmt, id) == stmt.k = "block" /\ stmt.b # <<>> /\ stmt.b[1] = AstPerm(id)
\* eval_statement_ast: the statements of the lines, in the order of the seed.
SwapLines(stmt, seed) == FlattenSeq([i \in 1..(Len(stmt.b) - 1) |-> Shuffle(Tail(stmt.b), seed)[i].b])
RECURSIVE ApplyIn(_, _, _)
\* The block after the swap with this id was carried out in it, or the block.
ApplyIn(block, id, seed) ==
    IF IsSwap(block, id) THEN [block EXCEPT !.b = SwapLines(block, seed)]
    ELSE LET b == block.b
             inside(stmt) == CASE stmt.k = "block" -> ApplyIn(stmt, id, seed)
                               [] stmt.k = "if" -> [stmt EXCEPT !.b = <<ApplyIn(stmt.b[1], id, seed)>>]
                               [] OTHER -> stmt
             hits == {i \in DOMAIN b : IsSwap(b[i], id) \/ inside(b[i]) # b[i]}
             i == Min(hits)
         IN IF hits = {} THEN block
            ELSE IF IsSwap(b[i], id)
            THEN [block EXCEPT !.b = SubSeq(b, 1, i - 1) \o SwapLines(b[i], seed) \o SubSeq(b, i + 1, Len(b))]
            ELSE [block EXCEPT !.b[i] = inside(b[i])]
Failed == Item("failed", "", <<>>)
ApplyPerm(fn, id, seed) ==
    IF fn = Failed \/ ApplyIn(fn, id, seed) = fn THEN Failed ELSE ApplyIn(fn, id, seed)
apply_ast_perms(fn, asts) ==
    FoldLeft(LAMBDA f, id : ApplyPerm(f, id, asts[id + 1]), fn, [i \in DOMAIN asts |-> i - 1])

\* The cache after a look for text, with the parsed function at its end.
Looked(text) ==
    LET hit == SelectSeq(cache, LAMBDA e : e[1] = text)
        others == SelectSeq(cache, LAMBDA e : e[1] # text)
        all == Append(others, IF hit # <<>> THEN hit[1] ELSE <<text, Block(Parsed(text))>>)
    IN SubSeq(all, Len(all) - Min({CacheMax, Len(all)}) + 1, Len(all))
\* The candidate takes the cached function itself instead of a copy.
from_sourceShared(seed) ==
    LET e == Evaluated(perm, seed)
        fn == IF e.st.raised THEN Failed ELSE apply_ast_perms(Last(Looked(e.t))[2], e.st.asts)
    IN /\ cand' = fn
       /\ made' = made \cup {fn}
       /\ cache' = IF e.st.raised THEN cache
                   ELSE IF fn = Failed THEN Looked(e.t)
                   ELSE [Looked(e.t) EXCEPT ![Len(Looked(e.t))][2] = fn]
from_source(seed) ==
    LET e == Evaluated(perm, seed)
        fn == IF e.st.raised THEN Failed ELSE apply_ast_perms(Last(Looked(e.t))[2], e.st.asts)
    IN /\ cand' = fn
       /\ made' = made \cup {fn}
       /\ cache' = IF e.st.raised THEN cache ELSE Looked(e.t)

-----------------------------------------------------------------------------
(* Seeds: half of them drawn until new, the others shuffled; for a random      *)
(* source pass after pass.                                                     *)

Total == RootCount(perm)
Count(seed) == given' = [given EXCEPT ![seed] = @ + 1]
Init ==
    /\ meant \in Trees
    /\ perm = ParsedTree(Show(meant))
    /\ phase = IF perm = Bad THEN "refused" ELSE "draw"
    /\ seen = {} /\ rest = {} /\ made = {}
    /\ given = IF perm = Bad THEN <<>> ELSE [s \in 0..(Total - 1) |-> 0]
    /\ cand = None /\ cache = <<>>

\* A seed drawn before is drawn again: nothing changes.
draw(seed) ==
    /\ phase = "draw" /\ Cardinality(seen) < Total \div 2
    /\ seed \notin seen
    /\ seen' = seen \cup {seed} /\ Count(seed) /\ from_source(seed)
    /\ UNCHANGED <<meant, perm, phase, rest>>
collect ==
    /\ phase = "draw" /\ Cardinality(seen) >= Total \div 2
    /\ phase' = "rest" /\ rest' = (0..(Total - 1)) \ seen
    /\ UNCHANGED <<meant, perm, seen, given, made, cand, cache>>
next_rest(seed) ==
    /\ phase = "rest" /\ seed \in rest
    /\ rest' = rest \ {seed} /\ Count(seed) /\ from_source(seed)
    /\ UNCHANGED <<meant, perm, phase, seen>>
\* Only a source without random parts has an end.
pass_ends ==
    /\ phase = "rest" /\ rest = {}
    /\ IF is_random(perm)
       THEN /\ phase' = "draw" /\ seen' = {} /\ made' = {}
            /\ given' = [s \in DOMAIN given |-> 0]
       ELSE phase' = "done" /\ UNCHANGED <<seen, given, made>>
    /\ UNCHANGED <<meant, perm, rest, cand, cache>>
Next ==
    \/ \E seed \in DOMAIN given : draw(seed) \/ next_rest(seed)
    \/ collect
    \/ pass_ends

-----------------------------------------------------------------------------
(* What the README promises, without seeds: the set of texts a tree stands for.*)

Group(b) == Item("group", "", b)
Perms(n) == {f \in [1..n -> 1..n] : \A i, j \in 1..n : f[i] = f[j] => i = j}
RECURSIVE Meanings(_, _, _, _)
MeansAll(ps, at, once, st) ==
    FoldLeft(LAMBDA acc, i : UNION {{[ts |-> Append(e.ts, r.t), st |-> r.st] :
                                        r \in Meanings(ps[i], Append(at, i), once, e.st)} : e \in acc},
             {[ts |-> <<>>, st |-> st]}, [i \in DOMAIN ps |-> i])
MeansVar(e) ==
    IF Len(e.ts) = 2 THEN [t |-> <<>>, st |-> [e.st EXCEPT !.vars = (e.ts[1] :> e.ts[2]) @@ @]]
    ELSE IF e.ts[1] \in DOMAIN e.st.vars THEN [t |-> e.st.vars[e.ts[1]], st |-> e.st]
    ELSE [t |-> <<>>, st |-> [e.st EXCEPT !.raised = TRUE]]
Meanings(p, at, once, st) ==
    LET all == MeansAll(p.c, at, once, st) IN
    CASE p.k = "text" -> {[t |-> [i \in DOMAIN p.s |-> Tok(p.s[i])], st |-> st]}
      [] p.k = "PERM_INT" -> {[t |-> <<Tok(ToString(n))>>, st |-> st] : n \in p.lo..p.hi}
      [] p.k = "PERM_GENERAL" -> UNION {Meanings(p.c[i], Append(at, i), once, st) : i \in DOMAIN p.c}
      [] p.k = "PERM_VAR" -> {MeansVar(e) : e \in all}
      [] p.k = "PERM_ONCE" /\ once[p.key] # at -> {[t |-> <<>>, st |-> st]}
      [] p.k \in Swaps -> {[t |-> LET text == FlattenSeq([i \in DOMAIN e.ts |-> e.ts[f[i]]])
                                  IN IF p.k = "PERM_LINESWAP" THEN <<Group(text)>> ELSE text,
                            st |-> e.st] : e \in all, f \in Perms(Len(p.c))}
      [] p.k \in Wrappers -> {[t |-> Around(p.k, FlattenSeq(e.ts)), st |-> e.st] : e \in all}
      [] OTHER -> {[t |-> FlattenSeq(e.ts), st |-> e.st] : e \in all}
\* A group is the braced body of an if, and no braces elsewhere.
RECURSIVE Grouped(_)
Grouped(text) ==
    IF text = <<>> THEN <<>>
    ELSE LET h == text[1] IN
         IF h.k = "group" THEN Grouped(h.b) \o Grouped(Tail(text))
         ELSE IF h.k = "block" THEN <<Block(Grouped(h.b))>> \o Grouped(Tail(text))
         ELSE IF h.k = "tok" /\ h.a = "if"
         THEN LET n == text[2]
              IN <<Item("if", "", <<Block(IF n.k \in {"group", "block"} THEN Grouped(n.b) ELSE <<n>>)>>)>>
                     \o Grouped(SubSeq(text, 3, Len(text)))
         ELSE <<h>> \o Grouped(Tail(text))
OnceFunctions(p) ==
    {f \in [ToSet(OnceKeys(p)) -> {o[2] : o \in ToSet(Onces(p, <<>>))}] :
        \A key \in DOMAIN f : f[key] \in ToSet(OptionsOf(p, key))}
TextsOf(p) ==
    {IF e.st.raised THEN Failed ELSE Block(Grouped(e.t)) :
        e \in UNION {Meanings(p, <<>>, once, State0) : once \in OnceFunctions(p)}}
RECURSIVE HasChoice(_)
HasChoice(p) ==
    \/ p.k \in Swaps \cup {"PERM_GENERAL"} /\ Len(p.c) > 1
    \/ p.k = "PERM_INT" /\ p.lo < p.hi
    \/ p.k = "PERM_ONCE"
    \/ \E i \in DOMAIN p.c : HasChoice(p.c[i])
\* A source without a choice is randomized as a whole (README.md 49 and 68).
IntendedOf ==
    [t \in Trees |-> TextsOf(IF HasChoice(t) \/ is_random(t) THEN t ELSE Randomizer(t))]
Intended == IntendedOf[meant]

MTypeOK ==
    /\ phase \in {"draw", "rest", "done", "refused"}
    /\ seen \subseteq DOMAIN given /\ rest \subseteq DOMAIN given
    /\ Len(cache) <= CacheMax
\* A pass yields every seed once: none twice, and none is missing at its end
\* (perm/eval.py 8 "Generate all numbers 0..total_count-1 in random order").
SeedsOnce ==
    /\ \A s \in DOMAIN given : given[s] <= 1
    /\ phase = "rest" /\ rest = {} => \A s \in DOMAIN given : given[s] = 1
\* Every candidate is a variation the author asked for, however its text was
\* parsed, its seed split, its line swaps nested and its parse tree shared with
\* other candidates.
CandidateIntended == cand = None \/ cand \in Intended
\* A pass tries all combinations of the variations (README.md 5).
AllTried == phase = "rest" /\ rest = {} => made = Intended
\* Of the PERM_ONCEs of a key one is expanded (README.md 55); their code holds
\* the token of their key.
RECURSIVE Holds(_, _)
Holds(items, key) ==
    FoldLeft(LAMBDA n, i : n + (IF i.k = "tok" /\ i.a = key THEN 1 ELSE 0) + Holds(i.b, key), 0, items)
KeysOnce ==
    cand # None /\ cand # Failed => \A key \in ToSet(OnceKeys(perm)) : Holds(cand.b, key) = 1
=============================================================================
