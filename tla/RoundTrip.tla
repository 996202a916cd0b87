---- MODULE RoundTrip ----
(***************************************************************************)
(* The permuter parses a C function once, and from then on every candidate *)
(* is a tree printed by the generator and read by a compiler.  Here a tree *)
(* is grown the way the parser builds one, a production at a time, and     *)
(* what the generator prints for it is parsed again.                       *)
(*                                                                         *)
(* sort says what tree is: an expression (expr), a declarator with its     *)
(* type (type), a declaration (decl), a statement (stmt).                  *)
(***************************************************************************)
EXTENDS CParse, CGenerate

CONSTANT Read(_, _)     \* the parser: the tree of a text of some kind (Parse)

VARIABLES tree, sort, depth
treeVars == <<plan, tree, sort, depth>>

Depth == Plans[plan].depth                  \* how many productions a tree is grown by
Sorts == Plans[plan].sorts                  \* the sorts grown
Starts == Plans[plan].starts                \* the trees growing starts from, with their sorts
BinaryOps == Plans[plan].binary             \* the operators used
UnaryOps1 == Plans[plan].unary
Bodies == Plans[plan].bodies                \* whether bodies of statements are "any" or "compound"s

x == ID("x")
IntType == [TypeDecl("") EXCEPT !.c[1] = T("IdentifierType", <<"int">>, <<>>)]
IntName == Typename(IntType, <<>>)
Var(name) == [IntType EXCEPT !.a = <<name>>]

Call == FuncCall(ID("f"), None)
Block == Compound(<<Call>>)

Grow(s, t) ==
  /\ depth < Depth
  /\ s \in Sorts
  /\ tree' = t
  /\ sort' = s
  /\ depth' = depth + 1
  /\ UNCHANGED plan

Expr == sort = "expr" /\ tree.k # "InitList"
Stmt == sort = "stmt"

---------------------------------------------------------------------------
(* Expressions. *)

Binary ==
  /\ Expr
  /\ \E op \in BinaryOps : \E t \in {BinaryOp(op, tree, x), BinaryOp(op, x, tree)} : Grow("expr", t)

Unary ==
  /\ Expr
  /\ \E op \in UnaryOps1 : Grow("expr", UnaryOp(op, tree))

SizeOf == Expr /\ Grow("expr", UnaryOp("sizeof", tree))

(* What is assigned to is a unary_expression, so any expression in parentheses. *)
Assign ==
  /\ Expr
  /\ \E t \in {Assignment("=", tree, x), Assignment("+=", x, tree)} : Grow("expr", t)

Ternary ==
  /\ Expr
  /\ \E t \in {TernaryOp(tree, x, x), TernaryOp(x, tree, x), TernaryOp(x, x, tree)} :
       Grow("expr", t)

CastOrLiteral ==
  /\ Expr
  /\ \E t \in {Cast(IntName, tree), CompoundLiteral(IntName, InitList(<<tree>>))} : Grow("expr", t)

Subscript == Expr /\ Grow("expr", ArrayRef(x, tree))
Postfix ==
  /\ Expr
  /\ \E t \in {ArrayRef(tree, x), StructRef(tree, ".", "m"), StructRef(tree, "->", "m"),
               FuncCall(tree, None), FuncCall(x, ExprList(<<x, tree>>))} : Grow("expr", t)

(* A comma adds to a list on its left. *)
Comma ==
  /\ Expr
  /\ \/ tree.k # "ExprList" /\ Grow("expr", ExprList(<<tree, x>>))
     \/ tree.k = "ExprList" /\ Grow("expr", ExprList(Append(tree.c, x)))
     \/ Grow("expr", ExprList(<<x, tree>>))

StatementExpression == sort = "stmt" /\ tree.k = "Compound" /\ Grow("expr", tree)

---------------------------------------------------------------------------
(* Types and declarations. *)

Declarator ==
  /\ sort = "type"
  /\ \E t \in {PtrDecl(<<>>, tree), PtrDecl(<<"const">>, tree),
               ArrayDecl(<<>>, tree, Constant("1")), ArrayDecl(<<>>, tree, None),
               FuncDecl(tree, None), FuncDecl(tree, T("ParamList", <<>>, <<IntName>>))} :
       Grow("type", t)

(* An array of a length not given in a declaration; of a star that nothing precedes
   the parser keeps the bracket behind it. *)
Star ==
  /\ sort = "type"
  /\ LET star == ArrayDecl(<<>>, tree, ID("*")) IN
     IF DeclName(tree) # "" THEN Grow("type", star)
     ELSE \E t \in {ArrayDecl(<<>>, tree, ID("]")), PtrDecl(<<>>, star), FuncDecl(star, None)} :
            Grow("type", t)

(* A declarator in the parameters of a function. *)
Parameter ==
  /\ sort = "type"
  /\ LET p == IF DeclName(tree) = "" THEN Typename(tree, <<>>)
              ELSE Decl(<<>>, tree, None, None, <<>>, <<>>)
     IN  \E more \in {<<>>, <<T("EllipsisParam", <<>>, <<>>)>>} :
           Grow("type", FuncDecl(Var("f"), T("ParamList", <<>>, <<p>> \o more)))

TypeUsed ==
  /\ sort = "type"
  /\ DeclName(tree) = ""
  /\ \E t \in {Cast(Typename(tree, <<>>), x), UnaryOp("sizeof", Typename(tree, <<>>)),
               CompoundLiteral(Typename(tree, <<>>), InitList(<<x>>))} : Grow("expr", t)

Attribute == T("GccAttribute", <<"m">>, <<None>>)
OfInt == T("Alignas", <<>>, <<IntName>>)
OfX == T("Alignas", <<>>, <<x>>)
Declare ==
  /\ sort = "type"
  /\ DeclName(tree) # ""
  /\ \E alignment \in {<<>>, <<OfInt>>, <<OfInt, OfX>>} : \E attrs \in {<<>>, <<Attribute>>} :
     \E t \in {Decl(<<"static">>, tree, x, None, alignment, attrs), Typedef(<<"typedef">>, tree, attrs)} :
       Grow("decl", t)

Function ==
  /\ sort = "type"
  /\ DeclName(tree) # ""
  /\ tree.k = "FuncDecl"
  /\ Grow("decl", T("FuncDef", <<>>, <<Decl(<<"inline">>, tree, None, None, <<>>, <<>>),
                                       List(<<>>), Compound(<<>>)>>))

(* A struct with a member, or one of a bit field; an enum. *)
Tagged ==
  /\ sort = "type"
  /\ DeclName(tree) # ""
  /\ \E bits \in {None, Constant("2")} : \E name \in {"", "m"} :
       LET tag == T("Tag", <<"struct", name>>,
                    <<List(<<>>), List(<<Decl(<<>>, tree, None, bits, <<>>, <<>>)>>)>>)
       IN  Grow("type", [Var("y") EXCEPT !.c[1] = tag])

(* An initializer, a member of one, or a named one of an aggregate. *)
Initializer ==
  /\ sort = "expr"
  /\ \E t \in {InitList(<<tree, x>>), InitList(<<NamedInitializer(<<ID("m"), Constant("1")>>, tree)>>)} :
       Grow("expr", t)
Initialized ==
  /\ sort = "expr"
  /\ Grow("decl", Decl(<<>>, Var("y"), tree, None, <<>>, <<>>))

(* Where the grammar has a constant_expression or an assignment_expression. *)
Placed ==
  /\ Expr
  /\ \/ \E t \in {ArrayDecl(<<>>, Var("y"), tree),
                  [Var("y") EXCEPT !.c[1] = T("Typeof", <<>>, <<tree>>)],
                  [Var("y") EXCEPT !.c[1] = T("Tag", <<"struct", "m">>,
                       <<List(<<>>), List(<<Decl(<<>>, Var("x"), None, tree, <<>>, <<>>)>>)>>)]} : Grow("type", t)
     \/ Grow("decl", Decl(<<>>, Var("y"), None, None, <<T("Alignas", <<>>, <<tree>>)>>, <<>>))
     \/ tree.k # "ID" /\ Grow("expr", InitList(<<NamedInitializer(<<tree>>, x)>>))
     \/ Grow("stmt", Case(tree, <<Call>>))

---------------------------------------------------------------------------
(* Statements. *)

(* What the parser makes of a body: pragmas are taken into a compound. *)
IsBody(b) == b.k # "Pragma" /\ (Bodies = "compound" => b.k = "Compound")
(* A statement that a following else would be taken into. *)
RECURSIVE Dangling(_)
Dangling(b) ==
  CASE b.k = "If" -> b.c[3].k = "None" \/ Dangling(b.c[3])
    [] b.k \in {"While", "Switch", "For", "Label", "Case", "Default"} -> Dangling(b.c[Len(b.c)])
    [] OTHER -> FALSE
ExpressionStatement == Expr /\ Grow("stmt", tree)
Condition ==
  /\ Expr
  /\ \E t \in {If(tree, Block, None), While(tree, Block), DoWhile(tree, Block),
               For(tree, tree, None, Block), Switch(tree, Block), Return(tree)} : Grow("stmt", t)

(* The name and the type the declarator is of. *)
RECURSIVE Base(_)
Base(d) == IF d.k = "TypeDecl" THEN d ELSE Base(d.c[1])

(* A loop that declares two names of one type. *)
ForDeclares ==
  /\ sort = "type"
  /\ DeclName(tree) # ""
  /\ LET first == Decl(<<>>, [Base(tree) EXCEPT !.a[1] = "y"], x, None, <<>>, <<>>)
         later == Decl(<<>>, tree, Constant("1"), None, <<>>, <<>>)
     IN  Grow("stmt", For(T("DeclList", <<>>, <<first, later>>), x, None, Block))

IfStatement ==
  /\ Stmt
  /\ IsBody(tree)
  /\ \/ Grow("stmt", If(x, tree, None))
     \/ ~Dangling(tree) /\ Grow("stmt", If(x, tree, Block))
     \/ Grow("stmt", If(x, Block, tree))

Loop ==
  /\ Stmt
  /\ IsBody(tree)
  /\ \E t \in {While(x, tree), DoWhile(x, tree), For(None, x, None, tree)} : Grow("stmt", t)

Labelled ==
  /\ Stmt
  /\ tree.k # "Pragma"
  /\ \E t \in {Label("y", tree), Case(Constant("1"), <<tree>>), Default(<<tree>>)} : Grow("stmt", t)

(* A block: the statement before or after another, alone, or after a pragma. *)
InBlock ==
  /\ Stmt
  /\ \E items \in {<<tree>>, <<tree, Call>>, <<Decl(<<>>, Var("y"), None, None, <<>>, <<Attribute>>), tree>>,
                   <<Pragma("#pragma"), tree>>} : Grow("stmt", Compound(items))

Switched ==
  /\ Stmt
  /\ IsBody(tree)
  /\ Grow("stmt", Switch(x, Fixed(tree)))

RInit ==
  /\ plan \in DOMAIN Plans /\ depth = 0
  /\ \E start \in Starts : sort = start[1] /\ tree = start[2]
RNext ==
  \/ Binary \/ Unary \/ SizeOf \/ Assign \/ Ternary \/ CastOrLiteral \/ Subscript \/ Postfix
  \/ Comma \/ StatementExpression \/ Declarator \/ Star \/ Parameter \/ TypeUsed \/ Declare \/ Function
  \/ Tagged \/ Placed \/ Initializer \/ Initialized \/ ExpressionStatement \/ Condition
  \/ ForDeclares \/ IfStatement \/ Loop \/ Labelled \/ InBlock \/ Switched

---------------------------------------------------------------------------
(* A tree that has a text of its own: a type is put where one may stand. *)
Subject ==
  CASE sort # "type" -> tree
    [] DeclName(tree) = "" -> UnaryOp("sizeof", Typename(tree, <<>>))
    [] OTHER -> Decl(<<>>, tree, None, None, <<>>, <<>>)

(* What the parser reads of what the generator prints. *)
File(t) == T("FileAST", <<>>, <<t>>)
Reread(t) ==
  CASE t.k = "InitList" -> Read("initializer", V(t))
    [] t.k \in {"Decl", "Typedef", "FuncDef"} ->
         LET f == Read("file", G(File(t))) IN IF f = File(Head(f.c \o <<None>>)) THEN f.c[1] ELSE None
    [] sort = "stmt" -> Read("statement", GStatement(t))
    [] OTHER -> Read("expression", V(t))

(* The tree with an else of one if alone made an else if, where the
   generator does so. *)
RECURSIVE ElseIfs(_)
ElseIfs(n) ==
  LET m == [n EXCEPT !.c = [i \in DOMAIN n.c |-> ElseIfs(n.c[i])]]
      alone == m.k = "If" /\ m.c[3].k = "Compound" /\ Len(m.c[3].c) = 1
  IN  IF ~Patched \/ ~alone THEN m
      ELSE IF m.c[3].c[1].k = "If" THEN [m EXCEPT !.c[3] = @.c[1]] ELSE m

RECURSIVE Nodes(_)
Nodes(n) == {n} \cup UNION {Nodes(n.c[i]) : i \in DOMAIN n.c}

(* The sub-nodes that are statements, and the expressions printed without
   parentheses whatever they are, with what the grammar takes there only in some. *)
Substatements(n) ==
  CASE n.k = "Compound" -> Range(n.c)
    [] n.k \in {"If", "Case", "Default"} -> Range(Tail(n.c))
    [] n.k \in {"While", "DoWhile", "Switch", "For", "Label"} -> {Last(n.c)}
    [] OTHER -> {}
Loose == {"ExprList", "Compound"}
LooseIn(n) ==
  CASE n.k = "Assignment" -> n.c[1].k \in Loose \cup {"Assignment", "TernaryOp", "BinaryOp"}
    [] n.k \in {"Case", "Alignas"} -> n.c[1].k \in Loose \cup {"Assignment"}
    [] n.k = "Decl" -> n.c[3].k \in Loose \cup {"Assignment"}
    [] n.k = "NamedInitializer" -> \E i \in DOMAIN n.c[1].c : n.c[1].c[i].k \in Loose \cup {"Assignment"}
    [] n.k = "ArrayDecl" -> n.c[2].k \in Loose
    [] n.k = "UnaryOp" -> n.a = <<"sizeof">> /\ n.c[1].k = "Compound"
    [] n.k \in {"If", "While", "DoWhile", "Switch", "Return", "Typeof"} -> n.c[1].k = "Compound"
    [] n.k = "For" -> \E i \in 1 .. 3 : n.c[i].k = "Compound"
    [] n.k = "ArrayRef" -> n.c[2].k = "Compound"
    [] OTHER -> FALSE
(* What else the generator has no text for: attributes of a typedef, a second
   alignment, later declarators that are not names, a star kept as a bracket, a
   label with nothing behind it. *)
Unprintable(n) ==
  CASE n.k = "Typedef" -> n.c[2].c # <<>>
    [] n.k = "Decl" -> Len(n.c[4].c) > 1
    [] n.k = "DeclList" -> \E i \in 2 .. Len(n.c) : n.c[i].c[1].k # "TypeDecl"
    [] n.k = "ArrayDecl" -> n.c[2] = ID("]")
    [] n.k \in {"Label", "Case", "Default"} -> EmptyStatement \in Substatements(n)
    [] OTHER -> FALSE
(* A literal that is a statement gets no semicolon. *)
Misprinted ==
  \/ sort = "stmt" /\ tree.k = "CompoundLiteral"
  \/ \E n \in Nodes(tree) :
       LooseIn(n) \/ Unprintable(n) \/ \E s \in Substatements(n) : s.k = "CompoundLiteral"

(* "C code generator from pycparser AST nodes" (c_generator.py:4): the text
   of a tree the parser can build is parsed to that tree, no operator, no
   declarator, no else changes sides, and nothing is lost, exactly if the tree
   has none of the forms above. *)
RoundTrip == Misprinted <=> Reread(Subject) # ElseIfs(Subject)

RTypeOK == sort \in {"expr", "type", "decl", "stmt"} /\ depth \in 0 .. Depth

(* The end of fix_switch_cases's mess (ast_transforms.py:37): in the body of
   a switch nothing but cases comes after the first of them, and a case that
   falls through to the next is its sibling, not its parent. *)
IsCase(n) == n.k \in {"Case", "Default"}
CasesAreSiblings ==
  \A n \in {n \in Nodes(tree) : n.k = "Switch" /\ n.c[2].k = "Compound"} :
    LET items == n.c[2].c IN
    \A i \in DOMAIN items :
      IsCase(items[i]) => /\ Len(items[i].c) > 1 => ~IsCase(items[i].c[2])
                          /\ \A j \in i .. Len(items) : IsCase(items[j])
=============================================================================
