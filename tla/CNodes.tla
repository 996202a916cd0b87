---- MODULE CNodes ----
(***************************************************************************)
(* Nodes of the C syntax tree as the parser builds them and the generator  *)
(* prints them.  A node is [k, a, c]: its class, the words it holds, its   *)
(* sub-nodes in a fixed order.  None is a missing sub-node, List a list of *)
(* them.  A declared name is kept in the innermost TypeDecl alone, where   *)
(* _fix_decl_name_type takes Decl.name and Decl.quals from, and places in  *)
(* the source are left out.                                                *)
(***************************************************************************)
EXTENDS Naturals, Sequences

T(k, a, c) == [k |-> k, a |-> a, c |-> c]
None == T("None", <<>>, <<>>)
List(nodes) == T("List", <<>>, nodes)

ID(name) == T("ID", <<name>>, <<>>)
Constant(value) == T("Constant", <<value>>, <<>>)
UnaryOp(op, e) == T("UnaryOp", <<op>>, <<e>>)
BinaryOp(op, l, r) == T("BinaryOp", <<op>>, <<l, r>>)
Assignment(op, l, r) == T("Assignment", <<op>>, <<l, r>>)
TernaryOp(x, y, z) == T("TernaryOp", <<>>, <<x, y, z>>)
Cast(type, e) == T("Cast", <<>>, <<type, e>>)
ArrayRef(e, sub) == T("ArrayRef", <<>>, <<e, sub>>)
StructRef(e, op, name) == T("StructRef", <<op>>, <<e, ID(name)>>)
FuncCall(f, args) == T("FuncCall", <<>>, <<f, args>>)
ExprList(es) == T("ExprList", <<>>, es)
InitList(es) == T("InitList", <<>>, es)
NamedInitializer(names, e) == T("NamedInitializer", <<>>, <<List(names), e>>)
CompoundLiteral(type, init) == T("CompoundLiteral", <<>>, <<type, init>>)

(* The sub-node of a declarator that leads to its TypeDecl comes first. *)
TypeDecl(name) == T("TypeDecl", <<name>>, <<None>>)
PtrDecl(quals, type) == T("PtrDecl", quals, <<type>>)
ArrayDecl(quals, type, dim) == T("ArrayDecl", quals, <<type, dim>>)
FuncDecl(type, args) == T("FuncDecl", <<>>, <<type, args>>)
Typename(type, attrs) == T("Typename", <<>>, <<type, List(attrs)>>)
Typedef(storage, type, attrs) == T("Typedef", storage, <<type, List(attrs)>>)
Decl(specs, type, init, bitsize, align, attrs) ==
  T("Decl", specs, <<type, init, bitsize, List(align), List(attrs)>>)

Compound(items) == T("Compound", <<>>, items)
EmptyStatement == T("EmptyStatement", <<>>, <<>>)
If(x, yes, no) == T("If", <<>>, <<x, yes, no>>)
While(x, body) == T("While", <<>>, <<x, body>>)
DoWhile(x, body) == T("DoWhile", <<>>, <<x, body>>)
For(init, x, next, body) == T("For", <<>>, <<init, x, next, body>>)
Switch(x, body) == T("Switch", <<>>, <<x, body>>)
Case(x, stmts) == T("Case", <<>>, <<x>> \o stmts)
Default(stmts) == T("Default", <<>>, <<None>> \o stmts)
Label(name, body) == T("Label", <<name>>, <<body>>)
Return(e) == T("Return", <<>>, <<e>>)
Jump(word, label) == T("Jump", <<word, label>>, <<>>)
Pragma(text) == T("Pragma", <<text>>, <<>>)

(* The name a declarator declares, "" if none. *)
RECURSIVE DeclName(_)
DeclName(d) ==
  CASE d.k = "TypeDecl" -> d.a[1]
    [] d.k = "None" -> ""
    [] OTHER -> DeclName(d.c[1])
====
