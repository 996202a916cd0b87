------------------------------ MODULE LRParser -------------------------------
(* class LRParser of ply/yacc.py (parseopt_notrack, the engine that c_parser   *)
(* runs) on the tables of LRTable, with a lexer that hands out any tokens, a   *)
(* p_error that the user may have written in one of the usual ways, and rules  *)
(* whose functions may raise SyntaxError.                                      *)
EXTENDS LRTable

VARIABLES
    user,           \* [error, raising, max], or None: only the tables are made
    statestack, symstack, lookahead, lookaheadstack, errorcount, errorok,
    input,          \* tokens the lexer has handed out
    ended,          \* the lexer has returned None
    result,         \* "running", "accepted", "failed" or "crashed"
    blind,          \* ghost: None was kept as a token, by a rule that raised without a look at one
    unpopped        \* ghost: how often an empty rule raised, of which one state is popped and no symbol

ghosts == <<blind, unpopped>>
parser == <<user, statestack, symstack, lookahead, lookaheadstack, errorcount, errorok, input, ended, result, ghosts>>

\* What p_error does ("raise", "return", or "errok" unless at the end), the rules whose
\* functions may raise SyntaxError, and a bound: the tokens before the lexer ends.
ErrorFunc == user.error
Raising == user.raising
MaxInput == user.max

\* A symbol: its type, the rule it was reduced by and the children, or the place of
\* the token in the input.
Token(t, at) == [type |-> t, rule |-> 0, kids |-> <<>>, at |-> at]
EndSym == Token(End, 0)
ErrSym == Token("error", 0)
error_count == 3

PInit ==
    /\ TInit /\ user \in g.users
    /\ statestack = <<1>> /\ symstack = <<EndSym>>
    /\ lookahead = None /\ lookaheadstack = <<>>
    /\ errorcount = 0 /\ errorok = TRUE
    /\ input = <<>> /\ ended = FALSE /\ result = "running"
    /\ blind = FALSE /\ unpopped = 0

-------------------------------------------------------------------------------
state == Last(statestack)
\* The only action of the state is a reduction: no token is needed.
Defaulted ==
    Cardinality(DOMAIN action[state]) = 1
    /\ \E a \in DOMAIN action[state] : action[state][a] # <<None>> /\ action[state][a][1] < 0

Running == stage = "done" /\ user # None /\ result = "running"
get_token ==
    /\ Running /\ ~Defaulted /\ lookahead = None
    /\ IF lookaheadstack # <<>>
       THEN /\ lookahead' = IF Last(lookaheadstack) = None THEN EndSym ELSE Last(lookaheadstack)
            /\ lookaheadstack' = Front(lookaheadstack) /\ UNCHANGED <<input, ended>>
       ELSE /\ \/ /\ ended' = TRUE /\ lookahead' = EndSym /\ UNCHANGED input
               \/ /\ ~ended /\ Len(input) < MaxInput
                  /\ \E t \in g.terminals \ {"error"} :
                        input' = Append(input, t) /\ lookahead' = Token(t, Len(input'))
                  /\ UNCHANGED ended
            /\ UNCHANGED lookaheadstack
    /\ UNCHANGED <<tables, user, statestack, symstack, errorcount, errorok, result, ghosts>>

\* The entry of the table that is next, as <<t>>.
Entry ==
    IF Defaulted THEN action[state][CHOOSE a \in DOMAIN action[state] : TRUE]
    ELSE IF lookahead.type \in DOMAIN action[state] THEN action[state][lookahead.type]
    ELSE <<None>>
Ready == Running /\ (Defaulted \/ lookahead # None)
IsError == Ready /\ Entry = <<None>>
IsAction == Ready /\ Entry # <<None>>

shift ==
    /\ IsAction /\ Entry[1] > 0
    /\ statestack' = Append(statestack, Entry[1])
    /\ symstack' = Append(symstack, lookahead) /\ lookahead' = None
    /\ errorcount' = IF errorcount > 0 THEN errorcount - 1 ELSE 0
    /\ UNCHANGED <<tables, user, lookaheadstack, errorok, input, ended, result, ghosts>>

reduce ==
    /\ IsAction /\ Entry[1] < 0
    /\ LET p == -Entry[1]
           plen == Len(RhsOf(p))
           below == SubSeq(statestack, 1, Len(statestack) - plen)
           sym == [type |-> NameOf(p), rule |-> p, at |-> 0,
                   kids |-> SubSeq(symstack, Len(symstack) - plen + 1, Len(symstack))]
       IN /\ symstack' = Append(SubSeq(symstack, 1, Len(symstack) - plen), sym)
          /\ statestack' = Append(below, goto[<<Last(below), NameOf(p)>>])
    /\ UNCHANGED <<tables, user, lookahead, lookaheadstack, errorcount, errorok, input, ended, result, ghosts>>

\* Mutant: nothing is kept for later.
rule_raisesBlind ==
    /\ IsAction /\ Entry[1] < 0 /\ -Entry[1] \in Raising
    /\ symstack' = IF RhsOf(-Entry[1]) = <<>> THEN symstack ELSE Front(symstack)
    /\ statestack' = Front(statestack)
    /\ result' = IF statestack' = <<>> THEN "crashed" ELSE result
    /\ lookaheadstack' = Append(lookaheadstack, None) /\ lookahead' = ErrSym
    /\ errorcount' = error_count /\ errorok' = FALSE
    /\ blind' = (blind \/ lookahead = None)
    /\ unpopped' = IF RhsOf(-Entry[1]) = <<>> THEN unpopped + 1 ELSE unpopped
    /\ UNCHANGED <<tables, user, input, ended>>
\* The rule's function raises: its last symbol is dropped and a state popped, of an
\* empty rule a state alone. The lookahead is kept for later, and None for it where the
\* state did not look at one.
rule_raises ==
    /\ IsAction /\ Entry[1] < 0 /\ -Entry[1] \in Raising
    /\ symstack' = IF RhsOf(-Entry[1]) = <<>> THEN symstack ELSE Front(symstack)
    /\ statestack' = Front(statestack)
    /\ result' = IF statestack' = <<>> THEN "crashed" ELSE result
    /\ lookaheadstack' = Append(lookaheadstack, lookahead) /\ lookahead' = ErrSym
    /\ errorcount' = error_count /\ errorok' = FALSE
    /\ blind' = (blind \/ lookahead = None)
    /\ unpopped' = IF RhsOf(-Entry[1]) = <<>> THEN unpopped + 1 ELSE unpopped
    /\ UNCHANGED <<tables, user, input, ended>>

accept ==
    /\ IsAction /\ Entry[1] = 0
    /\ result' = "accepted"
    /\ UNCHANGED <<tables, user, statestack, symstack, lookahead, lookaheadstack, errorcount, errorok, input, ended, ghosts>>

-------------------------------------------------------------------------------
First == errorcount = 0 \/ errorok
AtEndOfInput == lookahead.type = End

\* The parse ends: p_error raises, or there is nothing left to recover with.
give_up ==
    /\ IsError
    /\ \/ First /\ ErrorFunc = "raise"
       \/ AtEndOfInput
    /\ result' = "failed"
    /\ UNCHANGED <<tables, user, statestack, symstack, lookahead, lookaheadstack, errorcount, errorok, input, ended, ghosts>>
\* p_error reads on by itself and says so: the token it returns is next.
panic ==
    /\ IsError /\ First /\ ErrorFunc = "errok" /\ ~AtEndOfInput
    /\ errorcount' = error_count /\ errorok' = TRUE
    /\ \/ ended' = TRUE /\ lookahead' = None /\ UNCHANGED input
       \/ /\ ~ended /\ Len(input) < MaxInput
          /\ \E t \in g.terminals \ {"error"} :
                input' = Append(input, t) /\ lookahead' = Token(t, Len(input'))
          /\ UNCHANGED ended
    /\ UNCHANGED <<tables, user, statestack, symstack, lookaheadstack, result, ghosts>>

Recovering ==
    /\ IsError /\ ~(First /\ ErrorFunc \in {"raise", "errok"}) /\ ~AtEndOfInput
    /\ errorcount' = error_count /\ errorok' = (errorok /\ ~First)
    /\ UNCHANGED <<tables, user, input, ended, result>>
\* Everything is rolled back: the token goes, and what was pushed back.
drop_token ==
    /\ Recovering /\ Len(statestack) <= 1
    /\ lookahead' = None /\ lookaheadstack' = <<>> /\ blind' = FALSE
    /\ UNCHANGED <<statestack, symstack, unpopped>>
\* Mutant: input is not skipped behind an error token.
insert_errorAgain ==
    /\ Recovering /\ Len(statestack) > 1 /\ lookahead.type # "error"
    /\ lookahead' = ErrSym /\ lookaheadstack' = Append(lookaheadstack, lookahead)
    /\ UNCHANGED <<statestack, symstack, ghosts>>
\* The error token takes the place of the token, or input is skipped behind one.
insert_error ==
    /\ Recovering /\ Len(statestack) > 1 /\ lookahead.type # "error"
    /\ IF Last(symstack).type = "error" THEN lookahead' = None /\ UNCHANGED lookaheadstack
       ELSE lookahead' = ErrSym /\ lookaheadstack' = Append(lookaheadstack, lookahead)
    /\ UNCHANGED <<statestack, symstack, ghosts>>
pop_state ==
    /\ Recovering /\ Len(statestack) > 1 /\ lookahead.type = "error"
    /\ symstack' = Front(symstack) /\ statestack' = Front(statestack)
    /\ UNCHANGED <<lookahead, lookaheadstack, ghosts>>

Parse ==
    get_token \/ shift \/ reduce \/ rule_raises \/ accept \/ give_up \/ panic
    \/ drop_token \/ insert_error \/ pop_state

-------------------------------------------------------------------------------
PTypeOK ==
    /\ result \in {"running", "accepted", "failed", "crashed"} /\ errorcount \in 0..error_count
    /\ errorok \in BOOLEAN /\ ended \in BOOLEAN /\ Range(input) \subseteq g.terminals
    /\ Range(statestack) \subseteq DOMAIN C /\ blind \in BOOLEAN /\ unpopped \in Nat

Types(syms) == [k \in DOMAIN syms |-> syms[k].type]

\* The two stacks tell the same story: the states are those the automaton goes
\* through on the symbols, whatever was popped in a recovery. Only an empty rule that
\* raises leaves a symbol too many for ever, and ends in an exception where no state
\* is left under it.
StacksInStep ==
    stage = "done" =>
        /\ unpopped = 0 => statestack = Path(1, Types(Tail(symstack)))
        /\ Len(symstack) = Len(statestack) + unpopped
        /\ result = "crashed" <=> statestack = <<>>

\* Tokens stay in order and none is parsed twice: those under the stack, then the
\* lookahead, then what was pushed back.
RECURSIVE Leaves(_)
Leaves(sym) ==
    IF sym.rule = 0 THEN IF sym.at = 0 THEN <<>> ELSE <<sym>>
    ELSE FlattenSeq([k \in DOMAIN sym.kids |-> Leaves(sym.kids[k])])
Ahead == SelectSeq(<<lookahead>> \o Reverse(lookaheadstack), LAMBDA s : s # None /\ s \notin {EndSym, ErrSym})
Held == FlattenSeq([k \in DOMAIN symstack |-> Leaves(symstack[k])]) \o Ahead
TokensInOrder == \A j, k \in DOMAIN Held : j < k => Held[j].at < Held[k].at

\* Until an error every token handed out is held, and each node was made by its rule
\* from the symbols the rule names.
RECURSIVE Derived(_)
Derived(sym) ==
    sym.rule = 0 \/ (Types(sym.kids) = RhsOf(sym.rule) /\ sym.type = NameOf(sym.rule)
                     /\ \A k \in DOMAIN sym.kids : Derived(sym.kids[k]))
NothingLost ==
    user # None /\ ErrorFunc = "raise" /\ Raising = {} =>
        /\ Types(Held) = input
        /\ \A k \in DOMAIN symstack : Derived(symstack[k])
        /\ result = "accepted" => Types(Tail(symstack)) = <<Start>>

\* The sentences of each name up to a length.
RECURSIVE Strings(_, _, _)
Strings(lang, rhs, n) ==
    IF rhs = <<>> THEN {<<>>}
    ELSE {w \in {u \o v : u \in IF Head(rhs) \in DOMAIN lang THEN lang[Head(rhs)] ELSE {<<Head(rhs)>>},
                          v \in Strings(lang, Tail(rhs), n)} : Len(w) <= n}
RECURSIVE Grow(_, _)
Grow(lang, n) ==
    LET more == [s \in Nonterminals |-> UNION {Strings(lang, RhsOf(p), n) : p \in {p \in DOMAIN g.prods : NameOf(p) = s}}]
    IN IF more = lang THEN lang ELSE Grow(more, n)
Sentences(n) == Grow([s \in Nonterminals |-> {}], n)[Start]

Unambiguous ==
    \A s \in DOMAIN action : \A a \in g.terminals \cup {End} :
        /\ Cardinality(Reductions(s, a)) <= 1
        /\ Reductions(s, a) # {} => Shifts(s, a) = {}

\* p_error is only called where no sentence goes on: without conflicts the tables
\* reject nothing of the language.
RejectsOnlyWrong ==
    result = "failed" /\ ErrorFunc = "raise" /\ Raising = {} /\ Unambiguous =>
        \A w \in Sentences(MaxInput + 1) : IF ended THEN w # input ELSE ~IsPrefix(input, w)

\* $end is only seen when the lexer has ended: no token that was put back is lost. The
\* exception is the None that a rule puts there which raises in a defaulted state: it
\* comes back as an end, and what the lexer still has is never read.
EndIsEnd == lookahead # None /\ lookahead.type = End => ended \/ blind

\* Operators group by their precedence: an operand that is an operation binds tighter,
\* or as tight on the side its operator associates to, and never two nonassoc in a row.
Operation(sym) == sym.rule # 0 /\ Len(sym.kids) = 3 /\ sym.kids[2].type \in DOMAIN g.precs
RECURSIVE Grouped(_)
Grouped(sym) ==
    /\ Operation(sym) =>
         LET op == g.precs[sym.kids[2].type]
             Fits(k, side) == Operation(sym.kids[k]) =>
                LET sub == g.precs[sym.kids[k].kids[2].type]
                IN sub[2] > op[2] \/ (sub[2] = op[2] /\ op[1] = side /\ sub[1] = side)
         IN Fits(1, "left") /\ Fits(3, "right")
    /\ \A k \in DOMAIN sym.kids : Grouped(sym.kids[k])
GroupedByPrecedence == \A k \in DOMAIN symstack : Grouped(symstack[k])

\* An error token comes to a state that reduces an empty rule whatever is next: the name
\* is pushed, cannot be followed by the error, and is popped again.
SpinsOnError ==
    /\ Ready /\ Defaulted /\ lookahead # None /\ lookahead.type = "error"
    /\ Entry[1] < 0 /\ RhsOf(-Entry[1]) = <<>>

\* Every parse ends: an empty rule is not reduced for ever, and a recovery reads on,
\* except where it spins on its own error token.
ParseEnds == []<>(stage # "done" \/ user = None \/ result # "running" \/ SpinsOnError)
=============================================================================
