------------------------------- MODULE Grammar -------------------------------
(* class Grammar of ply/yacc.py and the part of yacc() that drives it: the     *)
(* rules of a grammar are added one by one, checked, and its FIRST and FOLLOW  *)
(* sets grown rule by rule until none adds to them. The code's passes visit    *)
(* the rules in one order; here any rule that still adds may be next.          *)
EXTENDS GrammarRef, Functions

CONSTANTS
    Tokens,         \* the tokens that are declared
    Literals,       \* symbols written in quotes: terminals from their first use
    Precs,          \* Precedence: [terms -> <<associativity, level>>]
    Rules,          \* the rules to choose from: [name, rhs, prec]
    MaxRules,       \* bound: rules in a grammar
    GivenStart,     \* start, or None
    None

VARIABLES
    Productions,    \* Productions[1:]: [name, rhs, prec]
    Terminals,      \* [terminals -> rules that use them]
    Nonterminals,   \* [names -> rules that use them, 0 for S']
    UsedPrecedence,
    Start,
    errors,         \* yacc()'s: a rule was refused or the grammar is no good
    stage,          \* "rules", "cycles", "first", "follow", "done" or "failed"
    terminates,     \* names found to derive a string of terminals
    First, Follow

rules == <<Productions, Terminals, Nonterminals, UsedPrecedence>>
vars == <<rules, Start, errors, stage, terminates, First, Follow>>

Empty == "<empty>"
Names == {Productions[i].name : i \in DOMAIN Productions}
NoSets == [s \in {} |-> {}]
Init ==
    /\ Productions = <<>> /\ Terminals = [t \in Tokens \cup {"error"} |-> {}]
    /\ Nonterminals = NoSets /\ UsedPrecedence = {} /\ Start = None
    /\ errors = FALSE /\ stage = "rules" /\ terminates = {}
    /\ First = NoSets /\ Follow = NoSets

-------------------------------------------------------------------------------
\* f with n added to its entry for each symbol of syms, a new one if need be.
Used(f, syms, n) ==
    [s \in DOMAIN f \cup syms |-> (IF s \in DOMAIN f THEN f[s] ELSE {}) \cup (IF s \in syms THEN n ELSE {})]

\* What GrammarError is raised for, the rule's literals being terminals by then.
Duplicate(r) == \E i \in DOMAIN Productions : Productions[i].name = r.name /\ Productions[i].rhs = r.rhs
BadPrec(r) == r.prec # None /\ r.prec \notin DOMAIN Precs
BadName(r) == r.name \in DOMAIN Terminals \cup {"error"}

rightmost_terminal(syms, terminals) ==
    LET at == {k \in DOMAIN syms : syms[k] \in terminals}
    IN IF at = {} THEN None ELSE syms[CHOOSE k \in at : \A j \in at : j <= k]
PrecOf(r, terminals) ==
    LET name == IF r.prec # None THEN r.prec ELSE rightmost_terminal(r.rhs, terminals)
    IN IF name \in DOMAIN Precs THEN Precs[name] ELSE <<"right", 0>>

\* A rule refused for its precedence or as a duplicate leaves its literals, and its
\* precedence as used.
add_production(r) ==
    LET syms == Range(r.rhs)
        n == Len(Productions) + 1
        known == Used(Terminals, syms \cap Literals, {})
    IN /\ stage = "rules" /\ n <= MaxRules
       /\ IF BadName(r)
          THEN errors' = TRUE /\ UNCHANGED rules
          ELSE /\ UsedPrecedence' = UsedPrecedence \cup ({r.prec} \cap DOMAIN Precs)
               /\ IF BadPrec(r) \/ Duplicate(r)
                  THEN errors' = TRUE /\ Terminals' = known /\ UNCHANGED <<Productions, Nonterminals>>
                  ELSE /\ Productions' = Append(Productions, [name |-> r.name, rhs |-> r.rhs, prec |-> PrecOf(r, DOMAIN known)])
                       /\ Terminals' = Used(known, syms \cap DOMAIN known, {n})
                       /\ Nonterminals' = Used(Used(Nonterminals, {r.name}, {}), syms \ DOMAIN known, {n})
                       /\ UNCHANGED errors
       /\ UNCHANGED <<Start, stage, terminates, First, Follow>>

\* The start symbol, and yacc() stops if any rule was refused.
set_start ==
    LET start == IF GivenStart = None THEN Productions[1].name ELSE GivenStart
    IN /\ stage = "rules" /\ Productions # <<>>
       /\ IF start \in DOMAIN Nonterminals
          THEN /\ Start' = start /\ Nonterminals' = [Nonterminals EXCEPT ![start] = @ \cup {0}]
               /\ stage' = IF errors THEN "failed" ELSE "cycles"
          ELSE stage' = "failed" /\ UNCHANGED <<Start, Nonterminals>>
       /\ UNCHANGED <<Productions, Terminals, UsedPrecedence, errors, terminates, First, Follow>>

-------------------------------------------------------------------------------
undefined_symbols ==
    UNION {Range(Productions[i].rhs) : i \in DOMAIN Productions} \ (Names \cup DOMAIN Terminals)
unused_rules == {s \in DOMAIN Nonterminals : Nonterminals[s] = {}}
unused_precedence == DOMAIN Precs \ (DOMAIN Terminals \cup UsedPrecedence)
find_unreachable == DOMAIN Nonterminals \ Reachable(Productions, Start)

\* Production i has only symbols that terminate, and its name was not known to.
Terminating(i) ==
    /\ Range(Productions[i].rhs) \subseteq DOMAIN Terminals \cup terminates
    /\ Productions[i].name \notin terminates
Terminate(i) ==
    /\ stage = "cycles" /\ Terminating(i)
    /\ terminates' = terminates \cup {Productions[i].name}
    /\ UNCHANGED <<rules, Start, errors, stage, First, Follow>>

\* Names that are not defined were reported already.
infinite_cycles == Names \ terminates
verify ==
    /\ stage = "cycles" /\ \A i \in DOMAIN Productions : ~Terminating(i)
    /\ errors' = (undefined_symbols # {} \/ infinite_cycles # {} \/ unused_precedence # {})
    /\ IF errors'
       THEN stage' = "failed" /\ UNCHANGED First
       ELSE /\ stage' = "first"
            /\ First' = [s \in DOMAIN Terminals \cup {End} \cup DOMAIN Nonterminals |->
                            IF s \in DOMAIN Nonterminals THEN {} ELSE {s}]
    /\ UNCHANGED <<rules, Start, terminates, Follow>>

-------------------------------------------------------------------------------
\* The loop over beta stops behind the first symbol that does not produce empty.
_first(beta) ==
    LET passed(k) == \A j \in 1..k - 1 : Empty \in First[beta[j]]
    IN UNION {First[beta[k]] \ {Empty} : k \in {k \in DOMAIN beta : passed(k)}}
       \cup (IF passed(Len(beta) + 1) THEN {Empty} ELSE {})

compute_first(i) ==
    LET name == Productions[i].name  new == _first(Productions[i].rhs)
    IN /\ stage = "first" /\ ~(new \subseteq First[name])
       /\ First' = [First EXCEPT ![name] = @ \cup new]
       /\ UNCHANGED <<rules, Start, errors, stage, terminates, Follow>>

\* LRGeneratedTable asks for the FOLLOW sets without naming the start symbol.
start_follow ==
    /\ stage = "first"
    /\ \A i \in DOMAIN Productions : _first(Productions[i].rhs) \subseteq First[Productions[i].name]
    /\ Follow' = [s \in DOMAIN Nonterminals |-> IF s = Productions[1].name THEN {End} ELSE {}]
    /\ stage' = "follow"
    /\ UNCHANGED <<rules, Start, errors, terminates, First>>

\* Mutant: the name of the rule counts for its last symbol only.
FollowAtLast(i, k) ==
    LET p == Productions[i]  fst == _first(SubSeq(p.rhs, k + 1, Len(p.rhs)))
    IN (fst \ {Empty}) \cup (IF k = Len(p.rhs) THEN Follow[p.name] ELSE {})
\* What the symbol at k of production i may be followed by there.
FollowAt(i, k) ==
    LET p == Productions[i]  fst == _first(SubSeq(p.rhs, k + 1, Len(p.rhs)))
    IN (fst \ {Empty}) \cup (IF Empty \in fst THEN Follow[p.name] ELSE {})
Adds(i, k) ==
    /\ Productions[i].rhs[k] \in DOMAIN Nonterminals
    /\ ~(FollowAt(i, k) \subseteq Follow[Productions[i].rhs[k]])
compute_follow(i, k) ==
    /\ stage = "follow" /\ Adds(i, k)
    /\ Follow' = [Follow EXCEPT ![Productions[i].rhs[k]] = @ \cup FollowAt(i, k)]
    /\ UNCHANGED <<rules, Start, errors, stage, terminates, First>>
follow_done ==
    /\ stage = "follow" /\ \A i \in DOMAIN Productions : \A k \in DOMAIN Productions[i].rhs : ~Adds(i, k)
    /\ stage' = "done" /\ UNCHANGED <<rules, Start, errors, terminates, First, Follow>>

Next ==
    \/ \E r \in Rules : add_production(r)
    \/ set_start \/ verify \/ start_follow \/ follow_done
    \/ \E i \in DOMAIN Productions : Terminate(i) \/ compute_first(i)
    \/ \E i \in DOMAIN Productions : \E k \in DOMAIN Productions[i].rhs : compute_follow(i, k)

-------------------------------------------------------------------------------
TypeOK ==
    /\ stage \in {"rules", "cycles", "first", "follow", "done", "failed"} /\ errors \in BOOLEAN
    /\ Productions \in Seq([name : STRING, rhs : Seq(STRING), prec : {"left", "right", "nonassoc"} \X Nat])
    /\ DOMAIN Terminals \cap DOMAIN Nonterminals = {} /\ terminates \subseteq Names
    /\ \A s \in DOMAIN First : First[s] \subseteq DOMAIN Terminals \cup {End, Empty}
    /\ \A s \in DOMAIN Follow : Follow[s] \subseteq DOMAIN Terminals \cup {End}

\* The rules noted for a symbol are those that mention it, whatever was refused on
\* the way (a literal before its first use, a duplicate): the unused warnings rest
\* on these lists.
UsesExact ==
    \A s \in DOMAIN Terminals \cup DOMAIN Nonterminals :
        LET uses == IF s \in DOMAIN Terminals THEN Terminals[s] ELSE Nonterminals[s]
        IN uses \ {0} = {i \in DOMAIN Productions : s \in Range(Productions[i].rhs)}

\* A rule warned of as unused is also unreachable, and no grammar is accepted with a
\* symbol that derives nothing: the loop of infinite_cycles misses none, in whatever
\* order the rules come.
UnusedIsUnreachable == stage = "cycles" => unused_rules \subseteq find_unreachable
CyclesExact ==
    stage \in {"first", "follow", "done"} => SymbolsOf(Productions) \subseteq Names \cup DOMAIN Terminals
        /\ Names = Productive(Productions, DOMAIN Terminals)

\* FIRST never holds what a symbol cannot begin with, and holds all of it when the
\* passes end, empty for the symbols that may vanish: the loop stops at the
\* least solution, left recursion and empty rules included.
FirstSound ==
    \A s \in DOMAIN First \cap SymbolsOf(Productions) :
        First[s] \subseteq FirstOf(Productions)[s] \cup (IF s \in Nullable(Productions) THEN {Empty} ELSE {})
FirstExact ==
    stage \in {"follow", "done"} =>
        \A s \in DOMAIN Nonterminals :
            FirstOf(Productions)[s] \subseteq First[s] /\ (s \in Nullable(Productions) => Empty \in First[s])

\* FOLLOW of each name is what can stand behind it, $end included where the start
\* symbol may end with it.
FollowExact == stage = "done" => Follow = FollowOf(Productions, Start)

\* The passes end: every grammar is built or refused, once its start is set.
TablesEnd == []<>(stage \in {"rules", "done", "failed"})
=============================================================================
