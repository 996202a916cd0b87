------------------------------- MODULE MCText -------------------------------
(* C between the parser and the generator, one of two views of it chosen at    *)
(* the start: the classes of the syntax tree and the order of a visit, and     *)
(* trees of any kind printed and parsed again.                                 *)
EXTENDS RoundTrip

VARIABLES part, cls, fill, later, walked      \* part is "classes" or "trees"

A == INSTANCE CAst WITH MaxItems <- 2
classVars == <<cls, fill, later, walked>>
vars == <<part, treeVars, classVars>>

ExprStarts == {<<"expr", ID("x")>>, <<"expr", Constant("1")>>}
TypeStarts == {<<"type", IntType>>, <<"type", Var("x")>>,
               <<"type", [Var("x") EXCEPT !.a = <<"x", "const">>, !.c[1].a = <<"T">>]>>}
StmtStarts == {<<"stmt", EmptyStatement>>, <<"stmt", Call>>, <<"stmt", Jump("break", "")>>}
CaseStarts == {<<"stmt", Call>>, <<"stmt", EmptyStatement>>, <<"stmt", Case(Constant("1"), <<Default(<<Call>>)>>)>>}

\* Trees of a sort or of several, grown by a number of productions.
Trees(starts, sorts, productions) ==
    [starts |-> starts, sorts |-> sorts, depth |-> productions, binary |-> {"+"}, unary |-> {"-"},
     bodies |-> "any", reduce |-> FALSE, patched |-> FALSE]
MCPlans ==
    [expressions |-> [Trees(ExprStarts, {"expr"}, 3) EXCEPT !.binary = {"+", "*", "<<"}, !.unary = {"-", "&", "p++"}],
     reduced |-> [Trees(ExprStarts, {"expr"}, 3) EXCEPT !.binary = {"+", "-", "*", "<"}, !.reduce = TRUE],
     declarations |-> Trees(TypeStarts, {"type", "decl", "stmt"}, 3),
     statements |-> Trees(CaseStarts, {"stmt"}, 4),
     mixed |-> Trees(ExprStarts \cup TypeStarts \cup StmtStarts, {"expr", "type", "decl", "stmt"}, 3),
     patched |-> [Trees(StmtStarts, {"stmt"}, 4) EXCEPT !.bodies = "compound", !.patched = TRUE]]

\* The view that was not chosen has nothing to look at.
NoTrees == plan = "mixed" /\ sort = "expr" /\ tree = x /\ depth = 0
NoClasses == cls = "Break" /\ fill = <<>> /\ later = FALSE /\ walked = <<>>
Init ==
    \/ part = "classes" /\ A!Init /\ NoTrees
    \/ part = "trees" /\ RInit /\ NoClasses
Next ==
    \/ part = "classes" /\ A!Next /\ UNCHANGED <<part, treeVars>>
    \/ part = "trees" /\ RNext /\ UNCHANGED <<part, classVars>>
Spec == Init /\ [][Next]_vars

-----------------------------------------------------------------------------
\* The classes checked in are what the configuration generates, and a visit meets
\* exactly the sub-nodes that the text shows, in the order of the text, but for those
\* named in CAst.
VisitsText == A!ATypeOK /\ A!AsGenerated /\ A!VisitsThePrinted /\ A!InTextOrder

\* A tree that is printed and parsed again is the same tree, whatever sorts of nodes
\* it is grown from, but for exactly the forms that RoundTrip names as misprinted; and
\* the statements of a case are its own.
ReadBack == RTypeOK /\ CasesAreSiblings /\ RoundTrip
=============================================================================
