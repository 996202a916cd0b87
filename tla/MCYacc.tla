------------------------------- MODULE MCYacc -------------------------------
(* Two halves of ply/yacc.py, one of them chosen at the start: the checks and  *)
(* sets of every grammar of a few rules, and the tables, and the parser on     *)
(* them, of families of small grammars and of some known for difficulties.     *)
EXTENDS LRParser

VARIABLES
    part,       \* "grammar" or "parser"
    Productions, Terminals, NonterminalUses, UsedPrecedence, StartSymbol, errors, pass, terminates, FirstSets, FollowSets

Rhs == {<<>>, <<"a">>, <<"A">>, <<"S", "A">>, <<"A", "S">>, <<"A", "x">>, <<"x", "S">>, <<"A", "A">>}
\* Grammars over two names, a token and a literal, with empty rules, recursion on
\* either side and a rule of given precedence.
MCRules ==
    {[name |-> n, rhs |-> w, prec |-> None] : n \in {"S", "A"}, w \in Rhs}
    \cup {[name |-> "S", rhs |-> <<"a">>, prec |-> "x"], [name |-> "a", rhs |-> <<>>, prec |-> None],
          [name |-> "A", rhs |-> <<"x">>, prec |-> "b"], [name |-> "S", rhs |-> <<"B">>, prec |-> None]}
G == INSTANCE Grammar WITH
        Tokens <- {"a"}, Literals <- {"x"}, Precs <- [t \in {"x"} |-> <<"left", 1>>], Rules <- MCRules,
        MaxRules <- 3, GivenStart <- None, Nonterminals <- NonterminalUses, Start <- StartSymbol,
        stage <- pass, First <- FirstSets, Follow <- FollowSets

Rule(n, w) == [name |-> n, rhs |-> w, prec |-> <<"right", 0>>]
\* The lines that rules are written on: one after the other.
InLines(prods) == [k \in DOMAIN prods |-> prods[k] @@ ("line" :> k)]
Of(prods, terms, users) ==
    [prods |-> InLines(prods), terminals |-> terms, precs |-> [t \in {} |-> <<"left", 1>>], users |-> users]
User(error, raising, max) == [error |-> error, raising |-> raising, max |-> max]
Plain(max) == {User("raise", {}, max)}

\* Two rules for each of two names: empty rules, loops and recursion on both sides.
Family(SRhs, ARhs, users) ==
    {f \in {Of(<<Rule("S", u), Rule("S", v), Rule("A", w), Rule("A", x)>>, {"a", "b"}, users)
                : u, v \in SRhs, w, x \in ARhs} :
        f.prods[3].rhs # f.prods[4].rhs /\ f.prods[1].rhs # f.prods[2].rhs
        /\ Productive(f.prods, {"a", "b"}) = {"S", "A"}}
Tabled ==
    Family({<<>>, <<"A">>, <<"b">>, <<"S", "A">>, <<"A", "S">>, <<"A", "a">>, <<"A", "A", "b">>, <<"A", "b", "A">>},
           {<<>>, <<"a">>, <<"A", "S">>, <<"S", "b">>, <<"b", "A">>, <<"S">>}, {None})
Parsed ==
    Family({<<>>, <<"A">>, <<"b">>, <<"S", "A">>, <<"A", "a">>, <<"A", "b", "A">>},
           {<<>>, <<"a">>, <<"b", "A">>, <<"a", "S", "b">>}, Plain(4))

\* Expressions with an operator of either side and precedence, or of none.
Expr(p1, p2, users) ==
    [prods |-> InLines(<<[name |-> "E", rhs |-> <<"E", "+", "E">>, prec |-> p1], [name |-> "E", rhs |-> <<"E", "*", "E">>, prec |-> p2],
                 Rule("E", <<"n">>)>>),
     terminals |-> {"+", "*", "n"},
     precs |-> [t \in {"+", "*"} |-> IF t = "+" THEN p1 ELSE p2],
     users |-> users]
Sides == {"left", "right", "nonassoc"} \X {1, 2}
\* Operators of one level were declared together and have one side: no parser runs on
\* the others.
Exprs == {Expr(p1, p2, IF p1[2] = p2[2] /\ p1 # p2 THEN {None} ELSE Plain(5)) : p1, p2 \in Sides}

IfElse == Of(<<Rule("S", <<"if", "S">>), Rule("S", <<"if", "S", "else", "S">>), Rule("S", <<"x">>)>>, {"if", "else", "x"}, Plain(4))
Wide == Of(<<Rule("S", <<"N">>), Rule("S", <<"a", "w">>), Rule("S", <<"a", "N", "y", "z">>), Rule("N", <<"a", "C">>),
             Rule("N", <<"b">>), Rule("C", <<"N", "y">>)>>, {"a", "b", "w", "y", "z"}, Plain(4))
Twice == Of(<<Rule("S", <<>>), Rule("S", <<"A", "A">>), Rule("A", <<"A", "S">>), Rule("A", <<>>)>>, {"a"}, {None})
\* Statements that end with a semicolon, and an error rule that waits for one.
Statements == Of(<<Rule("L", <<"L", "I">>), Rule("L", <<"I">>), Rule("I", <<"x", ";">>), Rule("I", <<"x", "x", "x", ";">>),
                   Rule("I", <<"error", ";">>)>>, {"x", ";", "error"},
                 {User("return", {3}, 5), User("errok", {}, 5)})

\* A statement whose rule raises when nothing but a semicolon can follow, so that its
\* state does not look; and empty rules that raise, in front of a token, behind one, and
\* where the state does not look.
Unseen == Of(<<Rule("L", <<"L", "I">>), Rule("L", <<"I">>), Rule("I", <<"X", ";">>), Rule("X", <<"x", "x">>),
               Rule("I", <<"error", ";">>)>>, {"x", ";", "error"}, {User("return", {4}, 5), User("errok", {4}, 5)})
Early == Of(<<Rule("L", <<"L", "I">>), Rule("L", <<"I">>), Rule("I", <<"M", "x", ";">>), Rule("M", <<>>),
              Rule("I", <<"error", ";">>)>>, {"x", ";", "error"}, {User("return", {4}, 5)})
Later == Of(<<Rule("L", <<"L", "I">>), Rule("L", <<"I">>), Rule("I", <<"x", "M", ";">>), Rule("M", <<"x">>), Rule("M", <<>>),
               Rule("I", <<"error", ";">>)>>, {"x", ";", "error"}, {User("return", {5}, 5)})
EmptyUnseen == Of(<<Rule("L", <<"L", "I">>), Rule("L", <<"I">>), Rule("I", <<"x", "M", ";">>), Rule("M", <<>>),
                    Rule("I", <<"error", ";">>)>>, {"x", ";", "error"}, {User("return", {4}, 5)})

\* Two rules that end alike, on any lines: copies made of one function share theirs.
Copied ==
    {[IfElse EXCEPT !.prods = [k \in 1..4 |-> <<Rule("S", <<"A">>), Rule("S", <<"B">>), Rule("A", <<"x">>), Rule("B", <<"x">>)>>[k]
                                               @@ ("line" :> lines[k])],
                    !.terminals = {"x"}]
     : lines \in [1..4 -> {1, 2}]}

MCGrammars ==
    Tabled \cup Parsed \cup Exprs \cup Copied
    \cup {IfElse, Wide, Twice, Statements, Unseen, Early, Later, EmptyUnseen}

grammarVars ==
    <<Productions, Terminals, NonterminalUses, UsedPrecedence, StartSymbol, errors, pass, terminates,
      FirstSets, FollowSets>>
vars == <<part, grammarVars, tables, parser>>

Init ==
    /\ part \in {"grammar", "parser"} /\ G!Init /\ PInit
    /\ part = "grammar" => g = Twice

GStep == part = "grammar" /\ G!Next /\ UNCHANGED <<part, tables, parser>>
Making == part = "parser" /\ TNext /\ UNCHANGED <<part, grammarVars, parser>>
Parsing == part = "parser" /\ Parse /\ UNCHANGED <<part, grammarVars>>
Next == GStep \/ Making \/ Parsing

\* Both are loops of one thread. The user may stop adding rules.
Spec == Init /\ [][Next]_vars /\ WF_vars(pass # "rules" /\ GStep) /\ WF_vars(Parsing)

-----------------------------------------------------------------------------
\* What the checks and passes find of a grammar is what the reference definitions say
\* of it: the rules noted for a symbol mention it, refused or not; what is warned of
\* as unused is unreachable; a grammar is refused exactly for a symbol that derives
\* nothing; FIRST holds nothing too much at any time and all at the end, and FOLLOW of
\* each name what can stand behind it.
SetsExact ==
    /\ G!TypeOK /\ G!UsesExact /\ G!UnusedIsUnreachable /\ G!CyclesExact
    /\ G!FirstSound /\ G!FirstExact /\ G!FollowExact

\* The LR(0) states are the closed sets that the rules lead to, each once, and the
\* lookaheads of a rule are what can follow it there: all of it, and nothing that
\* cannot follow its name.
TablesExact == TTypeOK /\ StatesClosed /\ GotosExact /\ LookaheadsEnough /\ LookaheadsFollow

\* Of two actions for a token the table keeps the one that precedence and the lines of
\* the rules choose, whichever is met first; the parser then groups expressions as the
\* declarations say.
ConflictsByPrecedence ==
    /\ ShiftReduceByPrecedence /\ ReduceReduceByOrder /\ RaisedOverAccept
    /\ GroupedByPrecedence

\* The parser accepts what the grammar derives and stops at the first token that
\* nothing derivable goes on with, also where it took the reduction of a state
\* without a look at the token; each token is read once and in order. Recovery keeps
\* the stacks in step and loses no token that it was not to discard, but for two
\* defects that are told exactly: a rule that raises in such a state makes an end of
\* the input, and an empty rule that raises leaves a symbol that no state stands for.
ParsesExactly ==
    /\ PTypeOK /\ StacksInStep /\ NothingLost /\ RejectsOnlyWrong /\ TokensInOrder
    /\ EndIsEnd

\* Grammars are built or refused and parses end, those that recover from errors too,
\* unless an error token meets a state that takes an empty rule without a look at it.
LoopsEnd == G!TablesEnd /\ ParseEnds
=============================================================================
