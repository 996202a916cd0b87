---- MODULE CGenerate ----
(***************************************************************************)
(* The C generator (c_generator.py and the PatchedCGenerator of            *)
(* ast_util.py): the tokens of the text of a syntax tree.  Blanks,         *)
(* indentation and line ends are left out; where the generator puts no     *)
(* blank between two tokens that would read as one, they are one here.     *)
(***************************************************************************)
EXTENDS CNodes, SequencesExt, TLC

CONSTANT Plans     \* by name, what is printed and by which of the generator's variants
VARIABLE plan      \* the name of one

ReduceParentheses == Plans[plan].reduce
Patched == Plans[plan].patched

RECURSIVE G(_), GType(_, _, _), GStatement(_)

(* The texts of nodes one after another, with sep between them. *)
RECURSIVE Join(_, _)
Join(texts, sep) ==
  IF texts = <<>> THEN <<>>
  ELSE IF Len(texts) = 1 THEN texts[1]
  ELSE texts[1] \o sep \o Join(Tail(texts), sep)
Each(nodes, gen(_)) == [i \in DOMAIN nodes |-> gen(nodes[i])]
Parens(text) == <<"(">> \o text \o <<")">>
Present(node, text) == IF node.k = "None" THEN <<>> ELSE text

Glued == ("-" :> "--") @@ ("+" :> "++") @@ ("&" :> "&&")
Glue(op, text) == IF op \in DOMAIN Glued /\ text[1] = op THEN <<Glued[op]>> \o Tail(text)
                  ELSE <<op>> \o text

---------------------------------------------------------------------------
(* Expressions. *)

(* _visit_expr: braces and parentheses of lists and compounds. *)
V(n) == CASE n.k = "InitList" -> <<"{">> \o G(n) \o <<"}">>
          [] n.k \in {"ExprList", "Compound"} -> Parens(G(n))
          [] OTHER -> G(n)

Simple == {"Constant", "ID", "ArrayRef", "StructRef", "FuncCall"}
ParenthesizeUnlessSimple(n) == IF n.k \in Simple THEN V(n) ELSE Parens(V(n))

precedence_map ==
  [op \in {"||", "&&", "|", "^", "&", "==", "!=", "<", ">", "<<", ">>",
           "+", "-", "*", "/"} |->
     CASE op = "||" -> 0 [] op = "&&" -> 1 [] op = "|" -> 2 [] op = "^" -> 3
       [] op = "&" -> 4 [] op \in {"==", "!="} -> 5 [] op \in {"<", ">"} -> 6
       [] op \in {"<<", ">>"} -> 7 [] op \in {"+", "-"} -> 8 [] OTHER -> 9]

GOperand(n, op, strong(_, _)) ==
  IF /\ ReduceParentheses
     /\ n.k = "BinaryOp"
     /\ strong(precedence_map[n.a[1]], precedence_map[op])
  THEN V(n) ELSE ParenthesizeUnlessSimple(n)

GBinaryOp(n) ==
  GOperand(n.c[1], n.a[1], >=) \o n.a \o GOperand(n.c[2], n.a[1], >)

GUnaryOp(n) ==
  CASE n.a[1] = "sizeof" -> <<"sizeof">> \o Parens(G(n.c[1]))
    [] n.a[1] = "p++" -> ParenthesizeUnlessSimple(n.c[1]) \o <<"++">>
    [] n.a[1] = "p--" -> ParenthesizeUnlessSimple(n.c[1]) \o <<"--">>
    [] OTHER -> Glue(n.a[1], ParenthesizeUnlessSimple(n.c[1]))

GAssignment(n) ==
  G(n.c[1]) \o n.a \o (IF n.c[2].k = "Assignment" THEN Parens(V(n.c[2])) ELSE V(n.c[2]))

GTernaryOp(n) ==
  Parens(V(n.c[1])) \o <<"?">> \o Parens(V(n.c[2])) \o <<":">> \o Parens(V(n.c[3]))

(* A designator that is an identifier is taken for the name of a member. *)
GNamedInitializer(n) ==
  Join(Each(n.c[1].c, LAMBDA d : IF d.k = "ID" THEN <<".">> \o d.a
                                 ELSE <<"[">> \o G(d) \o <<"]">>), <<>>)
    \o <<"=">> \o V(n.c[2])

GExpression(n) ==
  CASE n.k \in {"Constant", "ID"} -> n.a
    [] n.k = "UnaryOp" -> GUnaryOp(n)
    [] n.k = "BinaryOp" -> GBinaryOp(n)
    [] n.k = "Assignment" -> GAssignment(n)
    [] n.k = "TernaryOp" -> GTernaryOp(n)
    [] n.k = "Cast" -> Parens(GType(n.c[1], <<>>, FALSE)) \o ParenthesizeUnlessSimple(n.c[2])
    [] n.k = "ArrayRef" -> ParenthesizeUnlessSimple(n.c[1]) \o <<"[">> \o G(n.c[2]) \o <<"]">>
    [] n.k = "StructRef" -> ParenthesizeUnlessSimple(n.c[1]) \o n.a \o G(n.c[2])
    [] n.k = "FuncCall" -> ParenthesizeUnlessSimple(n.c[1]) \o Parens(G(n.c[2]))
    [] n.k \in {"ExprList", "InitList"} -> Join(Each(n.c, V), <<",">>)
    [] n.k = "NamedInitializer" -> GNamedInitializer(n)
    [] n.k = "CompoundLiteral" -> Parens(G(n.c[1])) \o <<"{">> \o G(n.c[2]) \o <<"}">>
    [] OTHER -> G(n.c[1]) \o <<"...">> \o G(n.c[2])

---------------------------------------------------------------------------
(* Types and declarations. *)

GAttributes(attrs) ==
  IF attrs = <<>> THEN <<>>
  ELSE <<"__attribute__">> \o Parens(Parens(Join(Each(attrs, G), <<",">>)))

(* A pointer to an array or to a function needs parentheses. *)
\* Mutant: it gets them only around an array.
NearestArray(name, mods, i) ==
  IF i > 1 /\ mods[i - 1].k = "PtrDecl" /\ mods[i].k = "ArrayDecl" THEN Parens(name) ELSE name
Nearest(name, mods, i) ==
  IF i > 1 /\ mods[i - 1].k = "PtrDecl" THEN Parens(name) ELSE name

(* The modifiers around a name, from the one nearest to it on. *)
RECURSIVE Wrap(_, _, _)
Wrap(name, mods, i) ==
  IF i > Len(mods) THEN name
  ELSE LET m == mods[i]
           inner == Nearest(name, mods, i)
       IN  Wrap(CASE m.k = "ArrayDecl" -> inner \o <<"[">> \o m.a \o G(m.c[2]) \o <<"]">>
                  [] m.k = "FuncDecl" -> inner \o Parens(G(m.c[2]))
                  [] OTHER -> <<"*">> \o m.a \o name,
                mods, i + 1)

GDecl(n) ==
  n.a \o (IF n.c[4].c = <<>> THEN <<>> ELSE G(n.c[4].c[1])) \o GType(n.c[1], <<>>, TRUE)

GType(n, mods, emit) ==
  CASE n.k = "TypeDecl" ->
         Tail(n.a) \o G(n.c[1])
           \o Wrap(IF emit /\ n.a[1] # "" THEN <<n.a[1]>> ELSE <<>>, mods, 1)
    [] n.k = "Decl" -> GDecl(n.c[1])
    [] n.k = "Typename" -> GType(n.c[1], <<>>, emit)
    [] n.k \in {"ArrayDecl", "PtrDecl", "FuncDecl"} -> GType(n.c[1], Append(mods, n), emit)
    [] OTHER -> G(n)

(* visit_Decl; the later ones of a DeclList show their name alone. *)
GDeclaration(n, no_type) ==
  LET attrs == GAttributes(n.c[5].c)
  IN  (IF no_type THEN <<DeclName(n.c[1])>> \o attrs ELSE attrs \o GDecl(n))
        \o Present(n.c[3], <<":">> \o G(n.c[3]))
        \o Present(n.c[2], <<"=">> \o V(n.c[2]))

GDeclList(ds) ==
  Join(<<G(ds[1])>> \o Each(Tail(ds), LAMBDA d : GDeclaration(d, TRUE)), <<",">>)

GEnumerator(n) == n.a \o GAttributes(n.c[2].c) \o Present(n.c[1], <<"=">> \o G(n.c[1]))

GTag(n) ==
  LET body == IF n.a[1] = "enum" THEN Join(Each(n.c[2].c, GEnumerator), <<",">>)
              ELSE Join(Each(n.c[2].c, GStatement), <<>>)
  IN  <<n.a[1]>> \o GAttributes(n.c[1].c) \o (IF n.a[2] = "" THEN <<>> ELSE <<n.a[2]>>)
        \o Present(n.c[2], <<"{">> \o body \o <<"}">>)

GFuncDef(n) ==
  G(n.c[1]) \o Join(Each(n.c[2].c, LAMBDA d : G(d) \o <<";">>), <<>>) \o G(n.c[3])

GExternal(n) == IF n.k \in {"FuncDef", "Pragma"} THEN G(n) ELSE G(n) \o <<";">>

GDeclarative(n) ==
  CASE n.k = "Decl" -> GDeclaration(n, FALSE)
    [] n.k = "DeclList" -> GDeclList(n.c)
    [] n.k = "Typedef" -> n.a \o GType(n.c[1], <<>>, TRUE)
    [] n.k = "IdentifierType" -> n.a
    [] n.k = "Tag" -> GTag(n)
    [] n.k = "Typeof" -> <<"typeof">> \o Parens(G(n.c[1]))
    [] n.k = "Alignas" -> <<"_Alignas">> \o Parens(G(n.c[1]))
    [] n.k = "GccAttribute" -> n.a \o Present(n.c[1], Parens(Join(Each(n.c[1].c, G), <<",">>)))
    [] n.k = "ParamList" -> Join(Each(n.c, G), <<",">>)
    [] n.k = "EllipsisParam" -> <<"...">>
    [] n.k = "FuncDef" -> GFuncDef(n)
    [] n.k = "FileAST" -> Join(Each(n.c, GExternal), <<>>)
    [] n.k = "Typename" -> GType(n.c[1], <<>>, TRUE)
    [] n.k = "FuncDecl" -> GType(n, <<>>, TRUE)
    [] OTHER -> GType(n, <<>>, FALSE)

---------------------------------------------------------------------------
(* Statements. *)

(* visit_If of PatchedCGenerator: an else of one if alone in a compound is
   printed as else if. *)
Else(n) ==
  LET no == n.c[3] IN
  IF Patched /\ no.k = "Compound" /\ Len(no.c) = 1
  THEN IF no.c[1].k = "If" THEN no.c[1] ELSE no
  ELSE no

GIf(n) ==
  <<"if">> \o Parens(G(n.c[1])) \o GStatement(n.c[2])
    \o Present(n.c[3], <<"else">> \o GStatement(Else(n)))

GFor(n) ==
  <<"for">> \o Parens(G(n.c[1]) \o <<";">> \o G(n.c[2]) \o <<";">> \o G(n.c[3]))
    \o GStatement(n.c[4])

GStatements(ss) == Join(Each(ss, GStatement), <<>>)

GVisitStatement(n) ==
  CASE n.k = "Compound" -> <<"{">> \o GStatements(n.c) \o <<"}">>
    [] n.k = "EmptyStatement" -> <<";">>
    [] n.k = "If" -> GIf(n)
    [] n.k = "While" -> <<"while">> \o Parens(G(n.c[1])) \o GStatement(n.c[2])
    [] n.k = "Switch" -> <<"switch">> \o Parens(G(n.c[1])) \o GStatement(n.c[2])
    [] n.k = "DoWhile" -> <<"do">> \o GStatement(n.c[2])
                            \o <<"while">> \o Parens(G(n.c[1])) \o <<";">>
    [] n.k = "For" -> GFor(n)
    [] n.k = "Case" -> <<"case">> \o G(n.c[1]) \o <<":">> \o GStatements(Tail(n.c))
    [] n.k = "Default" -> <<"default", ":">> \o GStatements(Tail(n.c))
    [] n.k = "Label" -> n.a \o <<":">> \o GStatement(n.c[1])
    [] n.k = "Return" -> <<"return">> \o G(n.c[1]) \o <<";">>
    [] n.k = "Jump" -> (IF n.a[2] = "" THEN <<n.a[1]>> ELSE n.a) \o <<";">>
    [] n.k = "GccAttributeStatement" -> GAttributes(n.c) \o <<";">>
    [] OTHER -> n.a

(* _generate_stmt: what may also stand in an expression gets its semicolon
   here. *)
Unended ==
  {"Decl", "Assignment", "Cast", "UnaryOp", "BinaryOp", "TernaryOp", "FuncCall",
   "ArrayRef", "StructRef", "Constant", "ID", "Typedef", "ExprList"}
GStatement(n) == IF n.k \in Unended THEN G(n) \o <<";">> ELSE G(n)

Expressions ==
  {"Constant", "ID", "UnaryOp", "BinaryOp", "Assignment", "TernaryOp", "Cast", "ArrayRef",
   "StructRef", "FuncCall", "ExprList", "InitList", "NamedInitializer", "CompoundLiteral",
   "Range"}
Statements ==
  {"Compound", "EmptyStatement", "If", "While", "Switch", "DoWhile", "For", "Case",
   "Default", "Label", "Return", "Jump", "Pragma", "GccAttributeStatement"}

(* The visit of a node; that of None is empty. *)
G(n) ==
  CASE n.k = "None" -> <<>>
    [] n.k \in Expressions -> GExpression(n)
    [] n.k \in Statements -> GVisitStatement(n)
    [] OTHER -> GDeclarative(n)
====
