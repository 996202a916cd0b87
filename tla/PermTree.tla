------------------------------- MODULE PermTree -------------------------------
(* The Perms of decomp-permuter (src/perm/perm.py): a tree of texts and PERM_  *)
(* macros, how many variations it stands for, and which of its parts depend    *)
(* on a choice made at the root.                                               *)
EXTENDS Integers, FiniteSets, Sequences, SequencesExt, FiniteSetsExt, TLC

Node(k, c) == [k |-> k, c |-> c, key |-> "", lo |-> 0, hi |-> 0, s |-> <<>>]
Text(s) == [Node("text", <<>>) EXCEPT !.s = s]
Once(key, p) == [Node("PERM_ONCE", <<p>>) EXCEPT !.key = key]
IntOf(lo, hi) == [Node("PERM_INT", <<>>) EXCEPT !.lo = lo, !.hi = hi]
Combine(ps) == Node("combine", ps)
Randomizer(p) == Node("PERM_RANDOMIZE", <<p>>)
Bad == Node("bad", <<>>)
Wrappers == {"PERM_RANDOMIZE", "PERM_FORCE_SAMELINE", "PERM_IGNORE", "PERM_PRETEND"}
Swaps == {"PERM_LINESWAP", "PERM_LINESWAP_TEXT"}
Macros == Wrappers \cup Swaps \cup {"PERM_GENERAL", "PERM_ONCE", "PERM_VAR", "PERM_INT"}
Unknown == "PERM_OTHER"

Factorial(n) == IF n = 0 THEN 1 ELSE FoldLeft(LAMBDA x, y : x * y, 1, [i \in 1..n |-> i])
RECURSIVE perm_count(_)
CountAll(ps) == FoldLeft(LAMBDA n, p : n * perm_count(p), 1, ps)
CountEither(ps) == FoldLeft(LAMBDA n, p : n + perm_count(p), 0, ps)
perm_count(p) ==
    CASE p.k = "PERM_GENERAL" -> CountEither(p.c)
      [] p.k = "PERM_INT" -> p.hi - p.lo + 1
      [] p.k \in Swaps -> Factorial(Len(p.c)) * CountAll(p.c)
      [] OTHER -> CountAll(p.c)

RECURSIVE is_random(_)
is_random(p) == p.k = "PERM_RANDOMIZE" \/ \E i \in DOMAIN p.c : is_random(p.c[i])

\* The PERM_ONCEs below p in the order preprocess meets them, each with its
\* place in the tree ("is self" compares nodes).
RECURSIVE Onces(_, _)
Onces(p, at) ==
    (IF p.k = "PERM_ONCE" THEN <<<<p.key, at>>>> ELSE <<>>)
        \o FlattenSeq([i \in DOMAIN p.c |-> Onces(p.c[i], Append(at, i))])
\* once_options: keys in the order of their first PERM_ONCE.
OnceKeys(p) ==
    FoldLeft(LAMBDA ks, o : IF o[1] \in ToSet(ks) THEN ks ELSE Append(ks, o[1]), <<>>, Onces(p, <<>>))
OptionsOf(p, key) == LET of == SelectSeq(Onces(p, <<>>), LAMBDA o : o[1] = key) IN [i \in DOMAIN of |-> of[i][2]]
RootCount(p) == FoldLeft(LAMBDA n, key : n * Len(OptionsOf(p, key)), perm_count(p), OnceKeys(p))
RootRaises(p) == \E key \in ToSet(OnceKeys(p)) : Len(OptionsOf(p, key)) = 1

-----------------------------------------------------------------------------
(* Small sources of up to three levels of macros, to try the module on.      *)

ta == Text(<<"a">>)
tb == Text(<<"b">>)
tc == Text(<<"c">>)
Call == Text(<<"f", "(", "a", ",", "b", ")">>)
Nothing == Text(<<>>)
Either(x, y) == Node("PERM_GENERAL", <<x, y>>)
Var(n) == Node("PERM_VAR", <<n>>)
Set(n, v) == Node("PERM_VAR", <<n, v>>)
Swap(x, y) == Node("PERM_LINESWAP", <<x, y>>)
SwapText(x, y) == Node("PERM_LINESWAP_TEXT", <<x, y>>)
Wrap(k, x) == Node(k, <<x>>)
If(x) == Combine(<<Text(<<"if">>), x>>)
With(x, y) == Combine(<<x, y>>)

Lines == {ta, Call, Either(tb, tc), IntOf(1, 3), Either(Either(ta, tc), tb), Either(Nothing, With(tb, IntOf(0, 1)))}
Pairs == {With(x, y) : x, y \in Lines}
SwapsOf == {s : s \in UNION {{Swap(x, y), SwapText(x, y), With(Swap(x, y), tb)} : x \in Lines, y \in {tb, IntOf(1, 2)}}}
Flat == Lines \cup Pairs \cup SwapsOf \cup {Wrap(k, x) : k \in Wrappers, x \in Lines}
    \cup {Either(x, y) : x \in SwapsOf, y \in {tc}}
\* Line swaps that meet: beside each other, below an if, one made of another.
Meeting ==
    {With(Swap(ta, tb), Swap(tc, ta)), With(Swap(ta, tb), Swap(ta, tb)),
     If(Swap(ta, tb)), With(If(Swap(tb, tc)), Swap(ta, tb)), Swap(If(ta), If(tb)),
     With(Set(ta, Swap(tb, tc)), Swap(Var(ta), tb)), With(Set(ta, Swap(tb, tc)), If(Swap(tb, Var(ta)))),
     With(Set(Either(ta, tb), Swap(tb, tc)), Swap(Var(ta), tb)),
     With(Set(ta, With(Swap(tb, tc), If(Swap(ta, tb)))), Var(ta)),
     Node("PERM_LINESWAP", <<ta, tb, tc>>)}
OncesFlat ==
    {Combine(<<Once("a", x), tb, Once("a", y)>>) : x, y \in {ta, With(ta, tb), With(Either(tb, tc), ta), With(ta, IntOf(2, 4))}}
    \cup {Combine(<<Once("a", ta), Once("b", tb), Once("a", With(ta, tc)), Once("b", tb)>>),
          Combine(<<Once("c", tc), Swap(ta, tb), Once("c", Wrap("PERM_PRETEND", tc))>>),
          Swap(Once("a", ta), With(tb, Once("a", ta)))}
VarTrees ==
    {With(Set(n, v), With(w, Var(ta))) : n \in {ta, Either(ta, tb)}, v \in {tb, Either(tb, tc), IntOf(0, 2)}, w \in {tc, Set(ta, tc), Var(ta)}}
    \cup {Combine(<<Set(ta, Nothing), Either(tb, Set(ta, tb)), Var(ta)>>)}
\* A comma that separates nothing; and sources that the parser has to refuse.
Commas == {Either(Text(<<"a", ",", "b">>), tc), Set(Text(<<"a", ",">>), tb), Text(<<",", "a">>)}
Wrong ==
    {With(ta, Node(Unknown, <<tb>>)), Either(Node(Unknown, <<>>), tc), Either(IntOf(2, 1), ta),
     With(Either(ta, tb), Once("a", ta))}
MaxCount == 4
Few(trees) == {t \in trees : RootCount(t) <= MaxCount}
SourcesOnce == {t \in OncesFlat : RootCount(t) <= 6}
Sources == Few(Flat \cup VarTrees) \cup SourcesOnce \cup Meeting \cup Commas \cup Wrong
=============================================================================
