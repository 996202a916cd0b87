------------------------------ MODULE GrammarRef ------------------------------
(* What the sets of a grammar mean, for the modules that compute them. A       *)
(* production is a record with a name and a sequence rhs of symbols; a symbol  *)
(* with no production is a terminal.                                           *)
EXTENDS Integers, Sequences, FiniteSets

End == "$end"
SymbolsOf(prods) ==
    {prods[i].name : i \in DOMAIN prods}
    \cup UNION {{prods[i].rhs[k] : k \in DOMAIN prods[i].rhs} : i \in DOMAIN prods}
NamesOf(prods) == {prods[i].name : i \in DOMAIN prods}

\* The least set that holds the name of each production whose rhs lies in it, the
\* terminals in base included.
Least(prods, base) ==
    LET Closed(N) ==
            \A i \in DOMAIN prods :
                (\A k \in DOMAIN prods[i].rhs : prods[i].rhs[k] \in N \cup base) => prods[i].name \in N
    IN {s \in NamesOf(prods) : \A N \in SUBSET NamesOf(prods) : Closed(N) => s \in N}

Nullable(prods) == Least(prods, {})
\* Names that derive a string of terminals.
Productive(prods, terminals) == Least(prods, terminals)

\* Everything a relation on a finite set leads to from the members of from.
RECURSIVE Reach(_, _)
Reach(from, succ) ==
    LET next == from \cup UNION {succ[x] : x \in from}
    IN IF next = from THEN from ELSE Reach(next, succ)

Occurs(prods) ==
    [s \in SymbolsOf(prods) |->
        UNION {{prods[i].rhs[k] : k \in DOMAIN prods[i].rhs} : i \in {j \in DOMAIN prods : prods[j].name = s}}]
Reachable(prods, start) == Reach({start}, Occurs(prods))

\* s begins with t when a production of s is alpha t beta and alpha may vanish.
Begins(prods) ==
    LET null == Nullable(prods)
    IN [s \in SymbolsOf(prods) |->
          {t \in SymbolsOf(prods) :
             \E i \in DOMAIN prods : prods[i].name = s
                /\ \E k \in DOMAIN prods[i].rhs :
                     prods[i].rhs[k] = t /\ \A j \in 1..k - 1 : prods[i].rhs[j] \in null}]
FirstOf(prods) ==
    LET begins == Begins(prods)
    IN [s \in SymbolsOf(prods) |-> Reach({s}, begins) \ NamesOf(prods)]

\* The terminals a sequence of symbols can begin with, and whether it can vanish.
Vanishes(prods, seq) == \A k \in DOMAIN seq : seq[k] \in Nullable(prods)
FirstOfSeq(prods, seq) ==
    LET null == Nullable(prods)  first == FirstOf(prods)
    IN UNION {first[seq[k]] : k \in {k \in DOMAIN seq : \A j \in 1..k - 1 : seq[j] \in null}}

\* What may follow s: the beginnings of what stands behind it, and whatever follows
\* the name of a production that s may end.
Ends(prods) ==
    [s \in SymbolsOf(prods) |->
        {prods[i].name : i \in {j \in DOMAIN prods :
            \E k \in DOMAIN prods[j].rhs :
                prods[j].rhs[k] = s
                /\ Vanishes(prods, SubSeq(prods[j].rhs, k + 1, Len(prods[j].rhs)))}}]
Behind(prods, s) ==
    UNION {UNION {FirstOfSeq(prods, SubSeq(prods[i].rhs, k + 1, Len(prods[i].rhs)))
                    : k \in {k \in DOMAIN prods[i].rhs : prods[i].rhs[k] = s}} : i \in DOMAIN prods}
FollowOf(prods, start) ==
    LET ends == Ends(prods)
    IN [s \in NamesOf(prods) |->
          LET up == Reach({s}, ends)
          IN UNION {Behind(prods, x) : x \in up} \cup (IF start \in up THEN {End} ELSE {})]
=============================================================================
