---- MODULE CParse ----
(***************************************************************************)
(* The parser of perm_pycparser (c_parser.py, ast_transforms.py): the      *)
(* syntax tree of a sequence of tokens.  Each function reads one           *)
(* nonterminal from place i of the tokens s, and returns its node t and    *)
(* the place after it; place 0 is an error, and no token is there, so that *)
(* an error stays one to the end.                                          *)
(*                                                                         *)
(* The grammar's conflicts are settled as yacc settles them, by shifting:  *)
(* an else goes to the nearest if, an operator waits for the stronger one  *)
(* to its right.  Which names are types is given (TypeIds), and none of    *)
(* them is declared anew.  Some texts that no tree is printed as, the      *)
(* specifiers of a type in an odd order, are parsed here and refused there.*)
(***************************************************************************)
EXTENDS CNodes, SequencesExt

Ids == {"x", "y", "f", "m"}
TypeIds == {"T"}
Constants == {"1", "2", "'s'"}
TypeWords == {"int", "char", "void"}
TypeQualifiers == {"const", "volatile"}
StorageClasses == {"static", "extern", "typedef"}
FunctionSpecifiers == {"inline"}
Pragmas == {"#pragma"}

TypeStart ==
  TypeIds \cup TypeWords \cup TypeQualifiers \cup StorageClasses
    \cup FunctionSpecifiers \cup {"struct", "union", "enum", "typeof", "_Alignas"}
NameStart == TypeStart \ (StorageClasses \cup FunctionSpecifiers)

At(s, i) == IF i \in DOMAIN s THEN s[i] ELSE "end"
Take(s, i, token) == IF At(s, i) = token THEN i + 1 ELSE 0
R(t, i) == [t |-> t, i |-> i]
Fail == R(None, 0)

(* The nonterminal named, where it is needed before it is defined. *)
RECURSIVE P(_, _, _)

---------------------------------------------------------------------------
(* Expressions. *)

AssignOps == {"=", "+=", "<<="}
UnaryOps == {"&", "*", "+", "-", "~", "!"}

(* The binary operators, weakest first, all left associative. *)
Precedence ==
  [op \in {"||", "&&", "|", "^", "&", "==", "!=", "<", ">", "<<", ">>",
           "+", "-", "*", "/"} |->
     CASE op = "||" -> 0 [] op = "&&" -> 1 [] op = "|" -> 2 [] op = "^" -> 3
       [] op = "&" -> 4 [] op \in {"==", "!="} -> 5 [] op \in {"<", ">"} -> 6
       [] op \in {"<<", ">>"} -> 7 [] op \in {"+", "-"} -> 8 [] OTHER -> 9]

(* The operators of at least strength m that follow what is read. *)
RECURSIVE PBinary(_, _, _)
PBinary(s, l, m) ==
  LET op == At(s, l.i) IN
  IF op \notin DOMAIN Precedence THEN l
  ELSE IF Precedence[op] < m THEN l
  ELSE LET r == PBinary(s, P("unary", s, l.i + 1), Precedence[op] + 1)
       IN  PBinary(s, R(BinaryOp(op, l.t, r.t), r.i), m)

(* conditional_expression, from its first operand on. *)
RECURSIVE PConditional(_, _)
PConditional(s, u) ==
  LET b == PBinary(s, u, 0) IN
  IF At(s, b.i) # "?" THEN b
  ELSE LET y == P("expression", s, b.i + 1)
           z == PConditional(s, P("unary", s, Take(s, y.i, ":")))
       IN  R(TernaryOp(b.t, y.t, z.t), z.i)

PConstantExpression(s, i) == PConditional(s, P("unary", s, i))

(* A parenthesized compound is an assignment_expression and nothing less. *)
PAssignment(s, i) ==
  IF At(s, i) = "(" /\ At(s, i + 1) = "{"
  THEN LET b == P("compound", s, i + 1) IN R(b.t, Take(s, b.i, ")"))
  ELSE LET u == P("unary", s, i) IN
       IF At(s, u.i) \in AssignOps
       THEN LET r == P("assignment", s, u.i + 1)
            IN  R(Assignment(At(s, u.i), u.t, r.t), r.i)
       ELSE PConditional(s, u)

(* A comma after a list adds to that list. *)
RECURSIVE PComma(_, _)
PComma(s, l) ==
  IF At(s, l.i) # "," THEN l
  ELSE LET r == P("assignment", s, l.i + 1)
           es == IF l.t.k = "ExprList" THEN l.t.c ELSE <<l.t>>
       IN  PComma(s, R(ExprList(Append(es, r.t)), r.i))
PExpression(s, i) == PComma(s, P("assignment", s, i))

RECURSIVE PArguments(_, _, _)
PArguments(s, i, es) ==
  LET e == P("assignment", s, i)
      all == Append(es, e.t)
  IN  IF At(s, e.i) = "," THEN PArguments(s, e.i + 1, all) ELSE R(ExprList(all), e.i)

RECURSIVE PPostfix(_, _)
PPostfix(s, p) ==
  LET w == At(s, p.i) IN
  CASE w = "[" -> LET e == P("expression", s, p.i + 1)
                  IN  PPostfix(s, R(ArrayRef(p.t, e.t), Take(s, e.i, "]")))
    [] w = "(" -> IF At(s, p.i + 1) = ")" THEN PPostfix(s, R(FuncCall(p.t, None), p.i + 2))
                  ELSE LET e == PArguments(s, p.i + 1, <<>>)
                       IN  PPostfix(s, R(FuncCall(p.t, e.t), Take(s, e.i, ")")))
    [] w \in {".", "->"} ->
         IF At(s, p.i + 1) \in Ids \cup TypeIds
         THEN PPostfix(s, R(StructRef(p.t, w, At(s, p.i + 1)), p.i + 2))
         ELSE Fail
    [] w = "++" -> PPostfix(s, R(UnaryOp("p++", p.t), p.i + 1))
    [] w = "--" -> PPostfix(s, R(UnaryOp("p--", p.t), p.i + 1))
    [] OTHER -> p

PPrimary(s, i) ==
  LET w == At(s, i) IN
  CASE w \in Ids -> R(ID(w), i + 1)
    [] w \in Constants -> R(Constant(w), i + 1)
    [] w = "(" -> LET e == P("expression", s, i + 1) IN R(e.t, Take(s, e.i, ")"))
    [] OTHER -> Fail

RECURSIVE PInitializers(_, _, _)

PCast(s, type, i) == LET u == P("unary", s, i) IN R(Cast(type, u.t), u.i)

UnaryStart == Ids \cup Constants \cup UnaryOps \cup {"++", "--", "sizeof", "("}

(* What begins with a type in parentheses: a literal or a cast; after sizeof a type
   too, which is that of a cast if anything to be cast may follow. *)
PTyped(s, i, sized) ==
  LET n == P("type", s, i + 1)
      j == Take(s, n.i, ")")
  IN  IF At(s, j) = "{"
      THEN LET v == PInitializers(s, j + 1, <<>>)
           IN  PPostfix(s, R(CompoundLiteral(n.t, v.t), v.i))
      ELSE IF sized /\ At(s, j) \notin UnaryStart THEN R(n.t, j) ELSE PCast(s, n.t, j)

PSizeOf(s, i) ==
  LET u == IF At(s, i) = "(" /\ At(s, i + 1) \in NameStart THEN PTyped(s, i, TRUE)
           ELSE P("unary", s, i)
  IN  R(UnaryOp("sizeof", u.t), u.i)

PUnary(s, i) ==
  LET w == At(s, i)
      u == P("unary", s, i + 1)
  IN
  CASE w \in UnaryOps \cup {"++", "--"} -> R(UnaryOp(w, u.t), u.i)
    [] w = "sizeof" -> PSizeOf(s, i + 1)
    [] w = "(" /\ At(s, i + 1) \in NameStart -> PTyped(s, i, FALSE)
    [] OTHER -> PPostfix(s, PPrimary(s, i))

---------------------------------------------------------------------------
(* Initializers. *)

RECURSIVE PDesignators(_, _)
PDesignators(s, l) ==
  CASE At(s, l.i) = "." ->
         PDesignators(s, R(Append(l.t, ID(At(s, l.i + 1))),
                           IF At(s, l.i + 1) \in Ids THEN l.i + 2 ELSE 0))
    [] At(s, l.i) = "[" ->
         LET e == PConstantExpression(s, l.i + 1)
             z == PConstantExpression(s, e.i + 1)
         IN  IF At(s, e.i) = "..."
             THEN PDesignators(s, R(Append(l.t, T("Range", <<>>, <<e.t, z.t>>)), Take(s, z.i, "]")))
             ELSE PDesignators(s, R(Append(l.t, e.t), Take(s, e.i, "]")))
    [] OTHER -> l

(* initializer_list and its closing brace, with or without a comma. *)
PInitializers(s, i, es) ==
  LET d == PDesignators(s, R(<<>>, i))
      v == P("initializer", s, IF d.t = <<>> THEN i ELSE Take(s, d.i, "="))
      all == Append(es, IF d.t = <<>> THEN v.t ELSE NamedInitializer(d.t, v.t))
  IN  CASE At(s, v.i) = "," /\ At(s, v.i + 1) = "}" -> R(InitList(all), v.i + 2)
        [] At(s, v.i) = "," -> PInitializers(s, v.i + 1, all)
        [] OTHER -> R(InitList(all), Take(s, v.i, "}"))

PInitializer(s, i) ==
  CASE At(s, i) = "{" /\ At(s, i + 1) = "}" -> R(InitList(<<>>), i + 2)
    [] At(s, i) = "{" -> PInitializers(s, i + 1, <<>>)
    [] OTHER -> P("assignment", s, i)

---------------------------------------------------------------------------
(* Declaration specifiers: words of each kind in the order of the text. *)

Specs(i) == [i |-> i, qual |-> <<>>, storage |-> <<>>, function |-> <<>>,
             type |-> <<>>, alignment |-> <<>>, attr |-> <<>>]

RECURSIVE PAttributeItems(_, _)
PAttributeItems(s, l) ==
  LET w == At(s, l.i)
      more(r) == IF At(s, r.i) = "," THEN PAttributeItems(s, R(r.t, r.i + 1)) ELSE r
  IN  IF w \notin Ids \cup TypeIds \cup {"const"} THEN more(l)
      ELSE IF At(s, l.i + 1) # "("
      THEN more(R(Append(l.t, T("GccAttribute", <<w>>, <<None>>)), l.i + 1))
      ELSE LET e == PArguments(s, l.i + 2, <<>>)
           IN  more(R(Append(l.t, T("GccAttribute", <<w>>, <<e.t>>)), Take(s, e.i, ")")))

(* gcc_attributes_opt: any number of attributes, as one list of nodes. *)
RECURSIVE PAttributes(_, _)
PAttributes(s, l) ==
  IF At(s, l.i) # "__attribute__" THEN l
  ELSE LET a == PAttributeItems(s, R(l.t, Take(s, Take(s, l.i + 1, "("), "(")))
       IN  PAttributes(s, R(a.t, Take(s, Take(s, a.i, ")"), ")")))

(* The type of the specifiers: one struct, union, enum or typeof, or the
   words of a basic type, or int for a function that names none. *)
TypeOf(sp) ==
  IF \E j \in DOMAIN sp.type : sp.type[j].k # "IdentifierType" THEN sp.type[1]
  ELSE IF sp.type = <<>> THEN T("IdentifierType", <<"int">>, <<>>)
  ELSE T("IdentifierType", [j \in DOMAIN sp.type |-> sp.type[j].a[1]], <<>>)
IsStored(sp) == sp.storage # <<>> \/ sp.function # <<>>
BadType(sp, d) ==
  \/ Len(sp.type) > 1 /\ \E j \in DOMAIN sp.type : sp.type[j].k # "IdentifierType"
  \/ sp.type = <<>> /\ d.k # "FuncDecl"

(* _fix_decl_name_type: the type goes below the innermost declarator. *)
RECURSIVE Fix(_, _)
Fix(d, sp) ==
  CASE d.k = "TypeDecl" -> [d EXCEPT !.a = @ \o sp.qual, !.c[1] = TypeOf(sp)]
    [] d.k = "None" -> d
    [] OTHER -> [d EXCEPT !.c[1] = Fix(@, sp)]

(* One declaration of _build_declarations. *)
Build(sp, d, init, bitsize, attrs) ==
  IF \E j \in DOMAIN sp.storage : sp.storage[j] = "typedef"
  THEN Typedef(sp.storage, Fix(d, sp), sp.attr \o attrs)
  ELSE Decl(sp.function \o sp.storage, Fix(d, sp), init, bitsize,
            sp.alignment, sp.attr \o attrs)
BuildTag(sp) ==
  Decl(sp.function \o sp.storage, TypeOf(sp), None, None, sp.alignment, sp.attr)

(* The members of a struct, as declarations, up to the closing brace. *)
RECURSIVE PMemberDeclarators(_, _, _, _)
PMemberDeclarators(s, sp, i, ms) ==
  LET unnamed == At(s, i) = ":"
      d == IF unnamed THEN R(TypeDecl(""), i) ELSE P("named", s, i)
      a == PAttributes(s, R(<<>>, d.i))
      b == IF At(s, a.i) = ":" THEN PConstantExpression(s, a.i + 1) ELSE R(None, a.i)
      all == Append(ms, Build(sp, d.t, None, b.t, a.t))
  IN  IF BadType(sp, d.t) THEN Fail
      ELSE IF At(s, b.i) = "," THEN PMemberDeclarators(s, sp, b.i + 1, all)
      ELSE R(all, Take(s, b.i, ";"))

RECURSIVE PMembers(_, _, _)
PMembers(s, i, ms) ==
  LET w == At(s, i) IN
  CASE w = "}" -> R(ms, i + 1)
    [] w = ";" -> PMembers(s, i + 1, ms)
    [] w \in Pragmas -> PMembers(s, i + 1, Append(ms, Pragma(w)))
    [] OTHER -> LET sp == P("specifiers", s, i) IN
                IF sp.type = <<>> \/ IsStored(sp) THEN Fail
                ELSE IF At(s, sp.i) = ";"
                THEN IF Len(sp.type) > 1 \/ sp.type[1].k = "Typeof" THEN Fail
                     ELSE PMembers(s, sp.i + 1, Append(ms, BuildTag(sp)))
                ELSE LET d == PMemberDeclarators(s, sp, sp.i, ms) IN PMembers(s, d.i, d.t)

RECURSIVE PEnumerators(_, _, _)
PEnumerators(s, i, es) ==
  LET a == PAttributes(s, R(<<>>, IF At(s, i) \in Ids THEN i + 1 ELSE 0))
      v == IF At(s, a.i) = "=" THEN PConstantExpression(s, a.i + 1) ELSE R(None, a.i)
      all == Append(es, T("Enumerator", <<At(s, i)>>, <<v.t, List(a.t)>>))
  IN  CASE es # <<>> /\ At(s, i) = "}" -> R(es, i + 1)
        [] es # <<>> /\ At(s, i) = "," -> PEnumerators(s, i + 1, es)
        [] At(s, v.i) \in {",", "}"} -> PEnumerators(s, v.i, all)
        [] OTHER -> Fail

(* struct_or_union_specifier and enum_specifier, from the keyword on.  A tag
   may be the name of a type. *)
PTag(s, i) ==
  LET a == PAttributes(s, R(<<>>, i + 1))
      named == At(s, a.i) \in Ids \cup TypeIds
      name == IF named THEN At(s, a.i) ELSE ""
      j == IF named THEN a.i + 1 ELSE a.i
      b == IF At(s, i) = "enum" THEN PEnumerators(s, j + 1, <<>>) ELSE PMembers(s, j + 1, <<>>)
      z == PAttributes(s, R(a.t, b.i))
      tag(attrs, body) == T("Tag", <<At(s, i), name>>, <<List(attrs), body>>)
  IN  CASE At(s, j) = "{" -> R(tag(z.t, List(b.t)), z.i)
        [] named /\ a.t = <<>> -> R(tag(<<>>, None), j)
        [] OTHER -> Fail

PTypeof(s, i) ==
  LET e == IF At(s, i + 2) \in NameStart THEN P("type", s, i + 2) ELSE P("expression", s, i + 2)
  IN  R(T("Typeof", <<>>, <<e.t>>), IF At(s, i + 1) = "(" THEN Take(s, e.i, ")") ELSE 0)

PAlignas(s, i) ==
  LET e == IF At(s, i + 2) \in NameStart THEN P("type", s, i + 2)
           ELSE PConstantExpression(s, i + 2)
  IN  R(T("Alignas", <<>>, <<e.t>>), IF At(s, i + 1) = "(" THEN Take(s, e.i, ")") ELSE 0)

(* A type's name is taken for one only before any other type. *)
RECURSIVE PSpecs(_, _)
PSpecs(s, sp) ==
  LET w == At(s, sp.i)
      add(r, kind) == PSpecs(s, [sp EXCEPT ![kind] = Append(@, r.t), !.i = r.i])
      word(kind) == add(R(w, sp.i + 1), kind)
  IN
  CASE w \in TypeQualifiers -> word("qual")
    [] w \in StorageClasses -> word("storage")
    [] w \in FunctionSpecifiers -> word("function")
    [] w \in TypeWords \/ (w \in TypeIds /\ sp.type = <<>>) ->
         add(R(T("IdentifierType", <<w>>, <<>>), sp.i + 1), "type")
    [] w \in {"struct", "union", "enum"} -> add(PTag(s, sp.i), "type")
    [] w = "typeof" -> add(PTypeof(s, sp.i), "type")
    [] w = "_Alignas" -> add(PAlignas(s, sp.i), "alignment")
    [] w = "__attribute__" -> LET a == PAttributes(s, R(sp.attr, sp.i))
                              IN  PSpecs(s, [sp EXCEPT !.attr = a.t, !.i = a.i])
    [] OTHER -> sp

---------------------------------------------------------------------------
(* Declarators. *)

(* The declarator below the last of the modifiers m. *)
RECURSIVE Below(_, _)
Below(m, d) == IF m.c[1] = None THEN [m EXCEPT !.c[1] = d] ELSE [m EXCEPT !.c[1] = Below(@, d)]

(* _type_modify_decl: modifiers go right above the TypeDecl. *)
RECURSIVE Modify(_, _)
Modify(d, m) ==
  CASE None \in {d, m} -> None
    [] d.k = "TypeDecl" -> Below(m, d)
    [] OTHER -> [d EXCEPT !.c[1] = Modify(@, m)]

RECURSIVE PQualifiers(_, _, _)
PQualifiers(s, l, words) ==
  IF At(s, l.i) \in words
  THEN PQualifiers(s, R(Append(l.t, At(s, l.i)), l.i + 1), words) ELSE l

(* The leftmost pointer is the innermost. *)
RECURSIVE PPointer(_, _)
PPointer(s, i) ==
  LET q == PQualifiers(s, R(<<>>, i + 1), TypeQualifiers)
      p == PtrDecl(q.t, None)
      r == PPointer(s, q.i)
  IN  IF At(s, q.i) = "*" THEN R(Below(r.t, p), r.i) ELSE R(p, q.i)

PDimension(s, i) ==
  LET q == PQualifiers(s, R(<<>>, i), TypeQualifiers \cup {"static"})
      d == CASE At(s, q.i) = "]" -> R(None, q.i)
             [] At(s, q.i) = "*" /\ At(s, q.i + 1) = "]" -> R(ID("*"), q.i + 1)
             [] OTHER -> P("assignment", s, q.i)
      static == {k \in DOMAIN q.t : q.t[k] = "static"}
  IN  IF static # {} /\ (d.t \in {None, ID("*")} \/ static \notin {{1}, {Len(q.t)}}) THEN Fail
      ELSE R(ArrayDecl(q.t, None, d.t), Take(s, d.i, "]"))

RECURSIVE PIdentifiers(_, _, _)
PIdentifiers(s, i, ps) ==
  IF At(s, i) \notin Ids THEN Fail
  ELSE IF At(s, i + 1) = "," THEN PIdentifiers(s, i + 2, Append(ps, ID(At(s, i))))
  ELSE R(T("ParamList", <<>>, Append(ps, ID(At(s, i)))), i + 1)

RECURSIVE PSuffixes(_, _)
PSuffixes(s, d) ==
  LET mod(r) == PSuffixes(s, R(Modify(d.t, r.t), r.i))
      function(args) == mod(R(FuncDecl(None, args.t), Take(s, args.i, ")")))
      w == At(s, d.i + 1)
      named == DeclName(d.t) # ""
  IN
  CASE At(s, d.i) = "[" /\ ~named /\ d.t.k # "TypeDecl"
         /\ w \in TypeQualifiers \cup {"static"} -> Fail
    [] At(s, d.i) = "[" -> mod(PDimension(s, d.i + 1))
    [] At(s, d.i) = "(" -> function(CASE w = ")" -> R(None, d.i + 1)
                                      [] named /\ w \in Ids -> PIdentifiers(s, d.i + 1, <<>>)
                                      [] OTHER -> P("parameters", s, d.i + 1))
    [] OTHER -> d

(* An unnamed declarator that begins with [*] has the bracket in place of
   the star. *)
PUnnamed(s, i) ==
  IF At(s, i) = "[" /\ At(s, i + 1) = "*" /\ At(s, i + 2) = "]"
  THEN R(ArrayDecl(<<>>, TypeDecl(""), ID("]")), i + 3)
  ELSE R(TypeDecl(""), i)

(* The declarator of a declaration (named), of a type name (abstract) or of
   a parameter (either); a type's name after a parenthesis begins the
   parameters of an abstract one. *)
PDirect(s, i, mode) ==
  LET w == At(s, i + 1)
      nested == CASE mode = "named" -> TRUE
                  [] mode = "abstract" -> w \in {"*", "(", "["}
                  [] OTHER -> w \in {"*", "(", "["} \cup Ids
      d == P(mode, s, i + 1)
  IN
  CASE At(s, i) \in Ids /\ mode # "abstract" -> PSuffixes(s, R(TypeDecl(At(s, i)), i + 1))
    [] At(s, i) = "(" /\ nested -> PSuffixes(s, R(d.t, Take(s, d.i, ")")))
    [] mode # "named" -> PSuffixes(s, PUnnamed(s, i))
    [] OTHER -> Fail

PDeclarator(s, i, mode) ==
  IF At(s, i) # "*" THEN PDirect(s, i, mode)
  ELSE LET p == PPointer(s, i)
           d == PDirect(s, p.i, mode)
       IN  R(Modify(d.t, p.t), d.i)

PParameter(s, i) ==
  LET sp == P("specifiers", s, i)
      d == P("either", s, sp.i)
      a == PAttributes(s, R(<<>>, d.i))
      all == [sp EXCEPT !.attr = @ \o a.t]
  IN  CASE sp.type = <<>> \/ d.i = 0 \/ BadType(all, d.t) -> Fail
        [] DeclName(d.t) = "" -> R(Typename(Fix(d.t, all), all.attr), a.i)
        [] OTHER -> R(Build(all, d.t, None, None, <<>>), a.i)

RECURSIVE PParameters(_, _, _)
PParameters(s, i, ps) ==
  IF At(s, i) = "..." /\ ps # <<>>
  THEN R(T("ParamList", <<>>, Append(ps, T("EllipsisParam", <<>>, <<>>))), i + 1)
  ELSE LET p == PParameter(s, i)
           all == Append(ps, p.t)
       IN  IF At(s, p.i) = "," THEN PParameters(s, p.i + 1, all)
           ELSE R(T("ParamList", <<>>, all), p.i)

PTypeName(s, i) ==
  LET sp == P("specifiers", s, i)
      d == P("abstract", s, sp.i)
  IN  IF sp.type = <<>> \/ IsStored(sp) \/ BadType(sp, d.t) THEN Fail
      ELSE R(Typename(Fix(d.t, sp), sp.attr), d.i)

---------------------------------------------------------------------------
(* Declarations: lists, since one may declare several names.  What is after
   a colon is parsed and forgotten. *)

RECURSIVE PInitDeclarators(_, _, _, _)
PInitDeclarators(s, sp, i, ds) ==
  LET d == P("named", s, i)
      a == PAttributes(s, R(<<>>, d.i))
      v == CASE At(s, a.i) = "=" -> P("initializer", s, a.i + 1)
             [] At(s, a.i) = ":" -> R(None, PConstantExpression(s, a.i + 1).i)
             [] OTHER -> R(None, a.i)
      all == Append(ds, Build(sp, d.t, v.t, None, a.t))
  IN  IF d.i = 0 \/ BadType(sp, d.t) THEN Fail
      ELSE IF At(s, v.i) = "," THEN PInitDeclarators(s, sp, v.i + 1, all)
      ELSE R(List(all), v.i)

PDeclaration(s, i) ==
  LET sp == P("specifiers", s, i)
      ds == IF At(s, sp.i) # ";" THEN PInitDeclarators(s, sp, sp.i, <<>>)
            ELSE IF Len(sp.type) = 1 /\ sp.type[1].k = "Tag" THEN R(List(<<BuildTag(sp)>>), sp.i)
            ELSE Fail
  IN  IF sp.i = i THEN Fail ELSE R(ds.t, Take(s, ds.i, ";"))

RECURSIVE PDeclarations(_, _)
PDeclarations(s, l) ==
  IF At(s, l.i) \notin TypeStart THEN l
  ELSE LET d == P("declaration", s, l.i) IN PDeclarations(s, R(l.t \o d.t.c, d.i))

(* A declaration, or a function with its K&R declarations and its body. *)
PExternal(s, i) ==
  LET sp == P("specifiers", s, i)
      d == P("named", s, sp.i)
      ks == PDeclarations(s, R(<<>>, d.i))
      b == P("compound", s, ks.i)
      none == sp.i # i /\ BadType(sp, d.t)
  IN  IF At(s, ks.i) # "{" THEN LET ds == P("declaration", s, i) IN R(ds.t.c, ds.i)
      ELSE IF none \/ \E j \in DOMAIN sp.storage : sp.storage[j] = "typedef" THEN Fail
      ELSE R(<<T("FuncDef", <<>>, <<Build(sp, d.t, None, None, <<>>), List(ks.t), b.t>>)>>, b.i)

RECURSIVE PFile(_, _)
PFile(s, l) ==
  CASE l.i = 0 -> Fail
    [] l.i = Len(s) + 1 -> R(T("FileAST", <<>>, l.t), l.i)
    [] At(s, l.i) = ";" -> PFile(s, R(l.t, l.i + 1))
    [] At(s, l.i) \in Pragmas -> PFile(s, R(Append(l.t, Pragma(At(s, l.i))), l.i + 1))
    [] OTHER -> LET e == PExternal(s, l.i)
                IN  IF e.i = 0 THEN Fail ELSE PFile(s, R(l.t \o e.t, e.i))

---------------------------------------------------------------------------
(* Statements. *)

(* _extract_nested_case: a case right below the last one becomes its
   sibling, and so on down. *)
RECURSIVE Promote(_)
Promote(items) ==
  LET last == items[Len(items)] IN
  IF last.c[2].k \notin {"Case", "Default"} THEN items
  ELSE Promote(Append([items EXCEPT ![Len(items)].c = Front(@)], last.c[Len(last.c)]))

(* fix_switch_cases: the statements after a case go below it. *)
RECURSIVE FixSwitch(_, _, _)
FixSwitch(items, out, open) ==
  IF items = <<>> THEN out
  ELSE IF Head(items).k \in {"Case", "Default"}
  THEN FixSwitch(Tail(items), Promote(Append(out, Head(items))), TRUE)
  ELSE FixSwitch(Tail(items),
                 IF open THEN [out EXCEPT ![Len(out)].c = Append(@, Head(items))]
                 ELSE Append(out, Head(items)), open)

Fixed(body) == IF body.k = "Compound" THEN Compound(FixSwitch(body.c, <<>>, FALSE)) ELSE body

RECURSIVE PPragmas(_, _)
PPragmas(s, l) ==
  IF At(s, l.i) \in Pragmas THEN PPragmas(s, R(Append(l.t, Pragma(At(s, l.i))), l.i + 1)) ELSE l

(* pragmacomp_or_statement: pragmas are put in a compound with what they
   precede. *)
PBody(s, i) ==
  LET p == PPragmas(s, R(<<>>, i))
      b == P("statement", s, p.i)
  IN  IF p.t = <<>> THEN b ELSE R(Compound(Append(p.t, b.t)), b.i)

(* What a label or a case stands before, if anything; the name of a type is
   taken for a label, and a semicolon is left for a statement after it. *)
PLabelled(s, i) ==
  IF At(s, i) \in {"}", "else", ";"} \cup (TypeStart \ TypeIds) THEN R(EmptyStatement, i)
  ELSE PBody(s, i)

PCondition(s, i) ==
  LET e == P("expression", s, Take(s, i, "(")) IN R(e.t, Take(s, e.i, ")"))

POptional(s, i, stop) ==
  IF At(s, i) = stop THEN R(None, i + 1)
  ELSE LET e == P("expression", s, i) IN R(e.t, Take(s, e.i, stop))

PIf(s, i) ==
  LET x == PCondition(s, i + 1)
      yes == PBody(s, x.i)
      no == PBody(s, yes.i + 1)
  IN  IF At(s, yes.i) # "else" THEN R(If(x.t, yes.t, None), yes.i)
      ELSE IF At(s, x.i) \in Pragmas THEN Fail
      ELSE R(If(x.t, yes.t, no.t), no.i)

PFor(s, i) ==
  LET j == Take(s, i + 1, "(")
      ds == P("declaration", s, j)
      init == IF At(s, j) \in TypeStart \cup {"__attribute__"} THEN R(T("DeclList", <<>>, ds.t.c), ds.i)
              ELSE POptional(s, j, ";")
      x == POptional(s, init.i, ";")
      next == POptional(s, x.i, ")")
      b == PBody(s, next.i)
  IN  R(For(init.t, x.t, next.t, b.t), b.i)

PDo(s, i) ==
  LET b == PBody(s, i + 1)
      x == PCondition(s, Take(s, b.i, "while"))
  IN  R(DoWhile(x.t, b.t), Take(s, x.i, ";"))

PCase(s, i) ==
  LET e == PConstantExpression(s, i + 1)
      z == PConstantExpression(s, e.i + 1)
      x == IF At(s, e.i) = "..." THEN R(T("Range", <<>>, <<e.t, z.t>>), z.i) ELSE e
      b == PLabelled(s, Take(s, x.i, ":"))
  IN  R(Case(x.t, <<b.t>>), b.i)

PStatement(s, i) ==
  LET w == At(s, i)
      x == PCondition(s, i + 1)
      b == PBody(s, x.i)
  IN
  CASE w = "{" -> P("compound", s, i)
    [] w = "if" -> PIf(s, i)
    [] w = "while" -> R(While(x.t, b.t), b.i)
    [] w = "switch" -> R(Switch(x.t, Fixed(b.t)), b.i)
    [] w = "do" -> PDo(s, i)
    [] w = "for" -> PFor(s, i)
    [] w = "case" -> PCase(s, i)
    [] w = "default" -> LET l == PLabelled(s, Take(s, i + 1, ":")) IN R(Default(<<l.t>>), l.i)
    [] w \in Ids \cup TypeIds /\ At(s, i + 1) = ":" ->
         LET l == PLabelled(s, i + 2) IN R(Label(w, l.t), l.i)
    [] w = "goto" -> R(Jump(w, At(s, i + 1)), Take(s, i + 2, ";"))
    [] w \in {"break", "continue"} -> R(Jump(w, ""), Take(s, i + 1, ";"))
    [] w = "return" -> LET e == POptional(s, i + 1, ";") IN R(Return(e.t), e.i)
    [] w \in Pragmas -> R(Pragma(w), i + 1)
    [] w = "__attribute__" -> LET a == PAttributes(s, R(<<>>, i))
                              IN  R(T("GccAttributeStatement", <<>>, a.t), Take(s, a.i, ";"))
    [] OTHER -> LET e == POptional(s, i, ";")
                IN  R(IF e.t = None THEN EmptyStatement ELSE e.t, e.i)

RECURSIVE PItems(_, _, _)
PItems(s, i, items) ==
  IF i = 0 THEN Fail
  ELSE IF At(s, i) = "}" THEN R(Compound(items), i + 1)
  ELSE IF \/ At(s, i) \in TypeStart /\ At(s, i + 1) # ":"
          \/ At(s, i) = "__attribute__" /\ At(s, PAttributes(s, R(<<>>, i)).i) # ";"
  THEN LET d == P("declaration", s, i) IN PItems(s, d.i, items \o d.t.c)
  ELSE LET b == P("statement", s, i) IN PItems(s, b.i, Append(items, b.t))
PCompound(s, i) == IF At(s, i) = "{" THEN PItems(s, i + 1, <<>>) ELSE Fail

---------------------------------------------------------------------------
P(nonterminal, s, i) ==
  CASE nonterminal = "expression" -> PExpression(s, i)
    [] nonterminal = "assignment" -> PAssignment(s, i)
    [] nonterminal = "unary" -> PUnary(s, i)
    [] nonterminal = "type" -> PTypeName(s, i)
    [] nonterminal = "initializer" -> PInitializer(s, i)
    [] nonterminal = "specifiers" -> PSpecs(s, Specs(i))
    [] nonterminal = "parameters" -> PParameters(s, i, <<>>)
    [] nonterminal = "compound" -> PCompound(s, i)
    [] nonterminal = "statement" -> PStatement(s, i)
    [] nonterminal = "declaration" -> PDeclaration(s, i)
    [] OTHER -> PDeclarator(s, i, nonterminal)

(* A whole text as a "file", an "initializer" or what P reads; None if it is none. *)
Parse(kind, s) ==
  LET r == CASE kind = "file" -> PFile(s, R(<<>>, 1))
             [] kind = "initializer" -> PInitializer(s, 1)
             [] OTHER -> P(kind, s, 1)
  IN  IF r.i = Len(s) + 1 THEN r.t ELSE None
====
