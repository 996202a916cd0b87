------------------------------- MODULE PermEval -------------------------------
(* PERM_ macros between text and tree: the parser (perm/parse.py) and the      *)
(* evaluation of a tree under a seed (perm/perm.py).                           *)
EXTENDS PermTree

-----------------------------------------------------------------------------
(* Evaluation: a text is a sequence of items; a block holds the items between  *)
(* its braces.                                                                 *)

Item(k, a, b) == [k |-> k, a |-> a, b |-> b]
Tok(a) == Item("tok", a, <<>>)
Block(b) == Item("block", "", b)
Mark(a) == Item("pragma", a, <<>>)
AstPerm(id) == Item("ast_perm", ToString(id), <<>>)
Around(k, text) ==
    CASE k = "PERM_IGNORE" -> IF text = <<>> THEN <<>> ELSE <<Item("b64literal", "", text)>>
      [] OTHER -> <<Mark(k \o " start")>> \o text \o <<Mark(k \o " end")>>

\* vars: the value of each PERM_VAR; asts: the seed of each registered line swap.
State0 == [vars |-> [x \in {} |-> x], asts |-> <<>>, raised |-> FALSE]

RECURSIVE Shuffle(_, _)
Shuffle(items, seed) ==
    IF items = <<>> THEN <<>>
    ELSE LET ind == (seed % Len(items)) + 1
         IN <<items[ind]>> \o Shuffle(RemoveAt(items, ind), seed \div Len(items))
IsChoice(p, at, once) == once[p.key] = at

RECURSIVE Eval(_, _, _, _, _)
\* Children from left to right, each with its part of the seed.
EvalAll(ps, at, seed, once, st) ==
    FoldLeft(LAMBDA acc, i :
                 LET n == perm_count(ps[i])
                     r == Eval(ps[i], Append(at, i), acc.seed % n, once, acc.st)
                 IN [seed |-> acc.seed \div n, ts |-> Append(acc.ts, r.t), st |-> r.st],
             [seed |-> seed, ts |-> <<>>, st |-> st], [i \in DOMAIN ps |-> i])
EvalEither(ps, at, seed, once, st) ==
    LET before(i) == CountEither(SubSeq(ps, 1, i - 1))
        i == CHOOSE j \in DOMAIN ps : before(j) <= seed /\ seed < before(j) + perm_count(ps[j])
    IN Eval(ps[i], Append(at, i), seed - before(i), once, st)
\* A variable's value gets what the name leaves of the seed.
EvalVar(p, at, seed, once, st) ==
    LET n == perm_count(p.c[1])
        name == Eval(p.c[1], Append(at, 1), seed % n, once, st)
        value == Eval(p.c[2], Append(at, 2), seed \div n, once, name.st)
    IN IF Len(p.c) > 1 THEN [t |-> <<>>, st |-> [value.st EXCEPT !.vars = (name.t :> value.t) @@ @]]
       ELSE IF name.t \in DOMAIN name.st.vars THEN [t |-> name.st.vars[name.t], st |-> name.st]
       ELSE [t |-> <<>>, st |-> [name.st EXCEPT !.raised = TRUE]]
EvalSwap(p, at, seed, once, st) ==
    LET own == Factorial(Len(p.c))
        all == EvalAll(p.c, at, seed \div own, once, st)
        ast == <<Block(<<AstPerm(Len(all.st.asts))>> \o [i \in DOMAIN all.ts |-> Block(all.ts[i])])>>
    IN IF p.k = "PERM_LINESWAP_TEXT" THEN [t |-> FlattenSeq(Shuffle(all.ts, seed % own)), st |-> all.st]
       ELSE [t |-> ast, st |-> [all.st EXCEPT !.asts = Append(@, seed % own)]]
EvalLineSwap(p, at, seed, once, st) == EvalSwap(p, at, seed, once, st)
Eval(p, at, seed, once, st) ==
    CASE p.k = "text" -> [t |-> [i \in DOMAIN p.s |-> Tok(p.s[i])], st |-> st]
      [] p.k = "PERM_INT" -> [t |-> <<Tok(ToString(p.lo + seed))>>, st |-> st]
      [] p.k = "PERM_GENERAL" -> EvalEither(p.c, at, seed, once, st)
      [] p.k = "PERM_VAR" -> EvalVar(p, at, seed, once, st)
      [] p.k \in Swaps -> EvalLineSwap(p, at, seed, once, st)
      [] p.k = "PERM_ONCE" /\ ~ IsChoice(p, at, once) -> [t |-> <<>>, st |-> st]
      [] OTHER -> LET all == EvalAll(p.c, at, seed, once, st)
                      text == FlattenSeq(all.ts)
                  IN [t |-> IF p.k \in Wrappers THEN Around(p.k, text) ELSE text, st |-> all.st]

\* RootPerm: the choice of each key's PERM_ONCE comes first.
RECURSIVE OnceChoices(_, _, _)
OnceChoices(p, keys, seed) ==
    IF keys = <<>> THEN [seed |-> seed, once |-> [x \in {} |-> x]]
    ELSE LET options == OptionsOf(p, keys[1])
             others == OnceChoices(p, Tail(keys), seed \div Len(options))
         IN [others EXCEPT !.once = (keys[1] :> options[(seed % Len(options)) + 1]) @@ @]
EvalRoot(p, seed) ==
    LET start == OnceChoices(p, OnceKeys(p), seed)
    IN Eval(p, <<>>, start.seed, start.once, State0)

-----------------------------------------------------------------------------
(* The parser.                                                                 *)

Depth(s, i) == Cardinality({j \in 1..i : s[j] = "("}) - Cardinality({j \in 1..i : s[j] = ")"})
Pieces(s, cuts) ==
    LET ends == SetToSortSeq(cuts \cup {Len(s) + 1}, <)
    IN [i \in DOMAIN ends |-> SubSeq(s, IF i = 1 THEN 1 ELSE ends[i - 1] + 1, ends[i] - 1)]
SplitByComma(s) == Pieces(s, {i \in DOMAIN s : s[i] = "," /\ Depth(s, i) = 0})
SplitLines(s) == SelectSeq(Pieces(s, {i \in DOMAIN s : s[i] = "nl"}), LAMBDA line : line # <<>>)
\* The place of the parenthesis that closes one opened before s, or 0.
ConsumeArgParens(s) ==
    LET closes == {i \in DOMAIN s : Depth(s, i) = -1} IN IF closes = {} THEN 0 ELSE Min(closes)
IntToken(a) == CHOOSE n \in -9..9 : ToString(n) = a

RECURSIVE RecPermParse(_)
ParseEach(texts) == [i \in DOMAIN texts |-> RecPermParse(texts[i])]
Factory(macro, args) ==
    LET commas == SplitByComma(args) IN
    CASE macro = "PERM_GENERAL" -> Node(macro, ParseEach(commas))
      [] macro \in Swaps -> Node(macro, ParseEach(SplitLines(args)))
      [] macro = "PERM_INT" -> LET lo == IntToken(commas[1][1])  hi == IntToken(commas[2][1])
                               IN IF lo <= hi THEN IntOf(lo, hi) ELSE Bad
      [] macro = "PERM_ONCE" -> IF Len(commas) \notin {1, 2} THEN Bad
                                ELSE Once(commas[1][1], RecPermParse(Last(commas)))
      [] macro = "PERM_VAR" -> IF Len(commas) \notin {1, 2} THEN Bad ELSE Node(macro, ParseEach(commas))
      [] macro = Unknown -> Bad
      [] OTHER -> Node(macro, <<RecPermParse(args)>>)
\* A comma in parentheses of its own is one that separates nothing.
Unescaped(s) ==
    LET commas == {i \in 2..(Len(s) - 1) : s[i] = "," /\ s[i - 1] = "(" /\ s[i + 1] = ")"}
    IN FlattenSeq([i \in DOMAIN s |-> IF {i - 1, i + 1} \cap commas # {} THEN <<>> ELSE <<s[i]>>])
TextPerm(s) == Text(Unescaped(s))
\* The perms of s, text and macros in turn.
RECURSIVE PermsOf(_)
PermsOf(s) ==
    LET macros == {i \in 1..(Len(s) - 1) : s[i] \in Macros \cup {Unknown} /\ s[i + 1] = "("}
        i == Min(macros)
        inner == SubSeq(s, i + 2, Len(s))
        close == ConsumeArgParens(inner)
    IN IF s = <<>> THEN <<>>
       ELSE IF macros = {} THEN <<TextPerm(s)>>
       ELSE IF close = 0 THEN <<Bad>>
       ELSE <<TextPerm(SubSeq(s, 1, i - 1)), Factory(s[i], SubSeq(inner, 1, close - 1))>>
                \o PermsOf(SubSeq(inner, close + 1, Len(inner)))
RecPermParse(s) == IF Len(PermsOf(s)) = 1 THEN PermsOf(s)[1] ELSE Combine(PermsOf(s))

RECURSIVE IsBad(_)
IsBad(p) == p.k = "bad" \/ \E i \in DOMAIN p.c : IsBad(p.c[i])
perm_parse(s) ==
    LET p == RecPermParse(s)
    IN IF IsBad(p) \/ RootRaises(p) THEN Bad
       ELSE IF RootCount(p) <= 1 /\ ~ is_random(p) THEN Randomizer(p) ELSE p

\* The text an author writes for a tree.
RECURSIVE Show(_)
ShowAll(ps, sep) == FlattenSeq([i \in DOMAIN ps |-> (IF i = 1 THEN <<>> ELSE <<sep>>) \o Show(ps[i])])
Show(p) ==
    CASE p.k = "text" ->
            FlattenSeq([i \in DOMAIN p.s |-> IF p.s[i] = "," /\ Depth(p.s, i) = 0 THEN <<"(", ",", ")">> ELSE <<p.s[i]>>])
      [] p.k = "combine" -> FlattenSeq([i \in DOMAIN p.c |-> Show(p.c[i])])
      [] p.k \in Swaps -> <<p.k, "(">> \o ShowAll(p.c, "nl") \o <<")">>
      [] p.k = "PERM_ONCE" -> <<p.k, "(", p.key, ",">> \o Show(p.c[1]) \o <<")">>
      [] p.k = "PERM_INT" -> <<p.k, "(", ToString(p.lo), ",", ToString(p.hi), ")">>
      [] OTHER -> <<p.k, "(">> \o ShowAll(p.c, ",") \o <<")">>
===============================================================================
