---- MODULE CAst ----
(***************************************************************************)
(* The classes of the C syntax tree (perm_pycparser/c_ast.py), the         *)
(* configuration they are generated from (_c_ast.cfg, _ast_gen.py), and    *)
(* the order in which a NodeVisitor meets the sub-nodes of a node.  The    *)
(* permuter numbers the nodes of a function in that order and reads the    *)
(* numbers as positions in the text, and the C generator alone decides     *)
(* what the text is.                                                       *)
(*                                                                         *)
(* One behaviour visits one node: cls is its class, fill says how many     *)
(* sub-nodes each field that holds some has (0 is None or an empty list),  *)
(* later whether the generator prints it as a later declaration of a       *)
(* DeclList, and walked is what __iter__ has yielded so far.               *)
(***************************************************************************)
EXTENDS Naturals, Sequences, SequencesExt, FiniteSets, TLC

CONSTANT MaxItems                 \* the longest list held by a node

VARIABLES cls, fill, later, walked
vars == <<cls, fill, later, walked>>

(* A class: its slots, the fields __iter__ yields one by one, those it goes
   through as lists, and attr_names. *)
Class(slots, child, seq, attr) ==
  [slots |-> slots, child |-> child, seq |-> seq, attr |-> attr]

NodesArrayDeclToAlignas ==
  [ ArrayDecl |-> Class(<<"type", "dim", "dim_quals">>, <<"type", "dim">>, <<>>,
         <<"dim_quals">>),
    ArrayRef |-> Class(<<"name", "subscript">>, <<"name", "subscript">>, <<>>, <<>>),
  
    Asm |-> Class(<<"quals", "asm", "output_operands", "input_operands", "clobbers", "gotos">>,
         <<"asm">>, <<"output_operands", "input_operands", "clobbers">>, <<"quals", "gotos">>),
    AsmOperand |-> Class(<<"symbolic_name", "constraint", "expr">>, <<"constraint", "expr">>,
         <<>>, <<"symbolic_name">>),
    Assignment |-> Class(<<"op", "lvalue", "rvalue">>, <<"lvalue", "rvalue">>, <<>>, <<"op">>),
    Alignas |-> Class(<<"alignment">>, <<"alignment">>, <<>>, <<>>) ]

NodesBinaryOpToContinue ==
  [ BinaryOp |-> Class(<<"op", "left", "right">>, <<"left", "right">>, <<>>, <<"op">>),
    Break |-> Class(<<>>, <<>>, <<>>, <<>>),
    Case |-> Class(<<"expr", "stmts">>, <<"expr">>, <<"stmts">>, <<>>),
    Cast |-> Class(<<"to_type", "expr">>, <<"to_type", "expr">>, <<>>, <<>>),
    Compound |-> Class(<<"block_items">>, <<>>, <<"block_items">>, <<>>),
    CompoundLiteral |-> Class(<<"type", "init">>, <<"type", "init">>, <<>>, <<>>),
    Constant |-> Class(<<"type", "value">>, <<>>, <<>>, <<"type", "value">>),
    Continue |-> Class(<<>>, <<>>, <<>>, <<>>) ]

NodesDeclToEnum ==
  
  [ Decl |-> Class(<<"name", "quals", "align", "storage", "funcspec", "gcc_attributes",
                     "type", "init", "bitsize", "asmlabel">>,
         <<"type", "init", "bitsize", "asmlabel">>, <<"gcc_attributes">>,
         <<"name", "quals", "align", "storage", "funcspec">>),
    DeclList |-> Class(<<"decls">>, <<>>, <<"decls">>, <<>>),
    Default |-> Class(<<"stmts">>, <<>>, <<"stmts">>, <<>>),
    DoWhile |-> Class(<<"cond", "stmt">>, <<"cond", "stmt">>, <<>>, <<>>),
    EllipsisParam |-> Class(<<>>, <<>>, <<>>, <<>>),
    EmptyStatement |-> Class(<<>>, <<>>, <<>>, <<>>),
    Enum |-> Class(<<"name", "gcc_attributes", "values">>, <<"values">>,
         <<"gcc_attributes">>, <<"name">>) ]

NodesEnumeratorToFuncDecl ==
  [ Enumerator |-> Class(<<"name", "gcc_attributes", "value">>, <<"value">>, <<>>,
         <<"name", "gcc_attributes">>),
    EnumeratorList |-> Class(<<"enumerators">>, <<>>, <<"enumerators">>, <<>>),
    ExprList |-> Class(<<"exprs">>, <<>>, <<"exprs">>, <<>>),
    FileAST |-> Class(<<"ext">>, <<>>, <<"ext">>, <<>>),
    For |-> Class(<<"init", "cond", "next", "stmt">>, <<"init", "cond", "next", "stmt">>,
         <<>>, <<>>),
    FuncCall |-> Class(<<"name", "args">>, <<"name", "args">>, <<>>, <<>>),
    FuncDecl |-> Class(<<"args", "type">>, <<"args", "type">>, <<>>, <<>>) ]

NodesFuncDefToIf ==
  [ FuncDef |-> Class(<<"decl", "param_decls", "body">>, <<"decl", "body">>,
         <<"param_decls">>, <<>>),
    GccAttribute |-> Class(<<"name", "args">>, <<>>, <<"args">>, <<"name">>),
    GccAttributeStatement |-> Class(<<"attrs">>, <<>>, <<"attrs">>, <<>>),
    Goto |-> Class(<<"name">>, <<>>, <<>>, <<"name">>),
    ID |-> Class(<<"name">>, <<>>, <<>>, <<"name">>),
    IdentifierType |-> Class(<<"names">>, <<>>, <<>>, <<"names">>),
    If |-> Class(<<"cond", "iftrue", "iffalse">>, <<"cond", "iftrue", "iffalse">>, <<>>, <<>>) ]

NodesInitListToReturn ==
  [ InitList |-> Class(<<"exprs">>, <<>>, <<"exprs">>, <<>>),
    Label |-> Class(<<"name", "stmt">>, <<"stmt">>, <<>>, <<"name">>),
    NamedInitializer |-> Class(<<"name", "expr">>, <<"expr">>, <<"name">>, <<>>),
    ParamList |-> Class(<<"params">>, <<>>, <<"params">>, <<>>),
    PtrDecl |-> Class(<<"quals", "type">>, <<"type">>, <<>>, <<"quals">>),
    Range |-> Class(<<"first", "last">>, <<"first", "last">>, <<>>, <<>>),
    Return |-> Class(<<"expr">>, <<"expr">>, <<>>, <<>>) ]

NodesStaticAssertToTypeDecl ==
  [ StaticAssert |-> Class(<<"cond", "message">>, <<"cond", "message">>, <<>>, <<>>),
    Struct |-> Class(<<"name", "gcc_attributes", "decls">>, <<>>,
         <<"gcc_attributes", "decls">>, <<"name">>),
    StructRef |-> Class(<<"name", "type", "field">>, <<"name", "field">>, <<>>, <<"type">>),
    Switch |-> Class(<<"cond", "stmt">>, <<"cond", "stmt">>, <<>>, <<>>),
    TernaryOp |-> Class(<<"cond", "iftrue", "iffalse">>, <<"cond", "iftrue", "iffalse">>,
         <<>>, <<>>),
    TypeDecl |-> Class(<<"declname", "quals", "align", "type">>, <<"type">>, <<>>,
         <<"declname", "quals", "align">>) ]

NodesTypedefToPragma ==
  [ Typedef |-> Class(<<"name", "quals", "storage", "gcc_attributes", "type">>, <<"type">>,
         <<"gcc_attributes">>, <<"name", "quals", "storage">>),
    Typename |-> Class(<<"name", "quals", "align", "gcc_attributes", "type">>, <<"type">>,
         <<"gcc_attributes">>, <<"name", "quals", "align">>),
    Typeof |-> Class(<<"expr">>, <<"expr">>, <<>>, <<>>),
    UnaryOp |-> Class(<<"op", "expr">>, <<"expr">>, <<>>, <<"op">>),
    Union |-> Class(<<"name", "gcc_attributes", "decls">>, <<>>,
         <<"gcc_attributes", "decls">>, <<"name">>),
    While |-> Class(<<"cond", "stmt">>, <<"cond", "stmt">>, <<>>, <<>>),
    Pragma |-> Class(<<"string">>, <<>>, <<>>, <<"string">>) ]

Classes ==
  NodesArrayDeclToAlignas @@ NodesBinaryOpToContinue @@ NodesDeclToEnum
    @@ NodesEnumeratorToFuncDecl @@ NodesFuncDefToIf @@ NodesInitListToReturn
    @@ NodesStaticAssertToTypeDecl @@ NodesTypedefToPragma

(* The entries of _c_ast.cfg: an attribute, a child (one star), a list of
   children (two). *)
A(name) == <<name, 0>>
C(name) == <<name, 1>>
S(name) == <<name, 2>>

Config ==
  [ ArrayDecl |-> <<C("type"), C("dim"), A("dim_quals")>>,
    ArrayRef |-> <<C("name"), C("subscript")>>,
    Asm |-> <<A("quals"), C("asm"), S("output_operands"), S("input_operands"), S("clobbers"),
         A("gotos")>>,
    AsmOperand |-> <<A("symbolic_name"), C("constraint"), C("expr")>>,
    Assignment |-> <<A("op"), C("lvalue"), C("rvalue")>>,
    Alignas |-> <<C("alignment")>>,
    BinaryOp |-> <<A("op"), C("left"), C("right")>>,
    Break |-> <<>>,
    Case |-> <<C("expr"), S("stmts")>>,
    Cast |-> <<C("to_type"), C("expr")>>,
    Compound |-> <<S("block_items")>>,
    CompoundLiteral |-> <<C("type"), C("init")>>,
    Constant |-> <<A("type"), A("value")>>,
    Continue |-> <<>>,
    Decl |-> <<A("name"), A("quals"), A("align"), A("storage"), A("funcspec"),
         S("gcc_attributes"), C("type"), C("init"), C("bitsize"), C("asmlabel")>>,
    DeclList |-> <<S("decls")>>,
    Default |-> <<S("stmts")>>,
    DoWhile |-> <<C("cond"), C("stmt")>>,
    EllipsisParam |-> <<>>,
    EmptyStatement |-> <<>>,
    Enum |-> <<A("name"), S("gcc_attributes"), C("values")>>,
    Enumerator |-> <<A("name"), A("gcc_attributes"), C("value")>>,
    EnumeratorList |-> <<S("enumerators")>>,
    ExprList |-> <<S("exprs")>>,
    FileAST |-> <<S("ext")>>,
    For |-> <<C("init"), C("cond"), C("next"), C("stmt")>>,
    FuncCall |-> <<C("name"), C("args")>>,
    FuncDecl |-> <<C("args"), C("type")>>,
    FuncDef |-> <<C("decl"), S("param_decls"), C("body")>>,
    GccAttribute |-> <<A("name"), S("args")>>,
    GccAttributeStatement |-> <<S("attrs")>>,
    Goto |-> <<A("name")>>,
    ID |-> <<A("name")>>,
    IdentifierType |-> <<A("names")>>,
    If |-> <<C("cond"), C("iftrue"), C("iffalse")>>,
    InitList |-> <<S("exprs")>>,
    Label |-> <<A("name"), C("stmt")>>,
    NamedInitializer |-> <<S("name"), C("expr")>>,
    ParamList |-> <<S("params")>>,
    PtrDecl |-> <<A("quals"), C("type")>>,
    Range |-> <<C("first"), C("last")>>,
    Return |-> <<C("expr")>>,
    StaticAssert |-> <<C("cond"), C("message")>>,
    Struct |-> <<A("name"), S("gcc_attributes"), S("decls")>>,
    StructRef |-> <<C("name"), A("type"), C("field")>>,
    Switch |-> <<C("cond"), C("stmt")>>,
    TernaryOp |-> <<C("cond"), C("iftrue"), C("iffalse")>>,
    TypeDecl |-> <<A("declname"), A("quals"), A("align"), C("type")>>,
    Typedef |-> <<A("name"), A("quals"), A("storage"), S("gcc_attributes"), C("type")>>,
    Typename |-> <<A("name"), A("quals"), A("align"), S("gcc_attributes"), C("type")>>,
    Typeof |-> <<C("expr")>>,
    UnaryOp |-> <<A("op"), C("expr")>>,
    Union |-> <<A("name"), S("gcc_attributes"), S("decls")>>,
    While |-> <<C("cond"), C("stmt")>>,
    Pragma |-> <<A("string")>> ]

(* What the generator writes for an entry: the fields __iter__ yields come
   before the lists, wherever they stand among the slots. *)
NodeCfg(entries) ==
  LET Names(p(_)) == LET es == SelectSeq(entries, p)
                     IN  [i \in DOMAIN es |-> es[i][1]]
  IN  Class(Names(LAMBDA e : TRUE), Names(LAMBDA e : e[2] = 1),
            Names(LAMBDA e : e[2] = 2), Names(LAMBDA e : e[2] = 0))

---------------------------------------------------------------------------
(* The fields c_generator prints, in the order of the text. *)
TextOfExpressions ==
  [ ArrayRef |-> <<"name", "subscript">>, StructRef |-> <<"name", "field">>,
    FuncCall |-> <<"name", "args">>, Typeof |-> <<"expr">>,
    UnaryOp |-> <<"expr">>, BinaryOp |-> <<"left", "right">>,
    Assignment |-> <<"lvalue", "rvalue">> ]

TextOfDeclarations ==
  [ Decl |-> IF later THEN <<"asmlabel", "gcc_attributes", "bitsize", "init">>
             ELSE <<"gcc_attributes", "align", "type", "asmlabel", "bitsize", "init">>,
    DeclList |-> <<"decls">>, Typedef |-> <<"type">>,
    Cast |-> <<"to_type", "expr">>, ExprList |-> <<"exprs">>,
    InitList |-> <<"exprs">>, Enum |-> <<"gcc_attributes", "values">>,
    Alignas |-> <<"alignment">>, Enumerator |-> <<"gcc_attributes", "value">>,
    FuncDef |-> <<"decl", "param_decls", "body">>, FileAST |-> <<"ext">> ]

TextOfStatements ==
  [ Compound |-> <<"block_items">>, CompoundLiteral |-> <<"type", "init">>,
    GccAttributeStatement |-> <<"attrs">>, ParamList |-> <<"params">>,
    Return |-> <<"expr">>, TernaryOp |-> <<"cond", "iftrue", "iffalse">>,
    If |-> <<"cond", "iftrue", "iffalse">>,
    For |-> <<"init", "cond", "next", "stmt">>, While |-> <<"cond", "stmt">>,
    DoWhile |-> <<"stmt", "cond">>, StaticAssert |-> <<"cond", "message">>,
    Switch |-> <<"cond", "stmt">>, Case |-> <<"expr", "stmts">>,
    Default |-> <<"stmts">>, Label |-> <<"stmt">> ]

TextOfTypes ==
  [ Struct |-> <<"gcc_attributes", "decls">>, Typename |-> <<"type">>,
    Union |-> <<"gcc_attributes", "decls">>,
    NamedInitializer |-> <<"name", "expr">>, FuncDecl |-> <<"type", "args">>,
    ArrayDecl |-> <<"type", "dim">>, TypeDecl |-> <<"type">>,
    PtrDecl |-> <<"type">>, Range |-> <<"first", "last">>,
    GccAttribute |-> <<"args">>,
    Asm |-> <<"asm", "output_operands", "input_operands", "clobbers">>,
    AsmOperand |-> <<"constraint", "expr">> ]

(* A class without a visit function of its own prints its children. *)
TextOf(c) ==
  LET own == TextOfExpressions @@ TextOfDeclarations @@ TextOfStatements @@ TextOfTypes
  IN  IF c \in DOMAIN own THEN own[c] ELSE Classes[c].child \o Classes[c].seq

---------------------------------------------------------------------------
(* The attributes the parser fills with lists of nodes. *)
HiddenNodes(c) ==
  CASE c \in {"Decl", "TypeDecl"} -> {"align"}
    [] c = "Enumerator" -> {"gcc_attributes"}
    [] OTHER -> {}

Lists(c) == Range(Classes[c].seq) \cup HiddenNodes(c)
NodeFields(c) == Range(Classes[c].child) \cup Lists(c)

(* One field after another, an item of a list after another. *)
Spread(fields) ==
  FlattenSeq([i \in DOMAIN fields |-> [j \in 1 .. fill[fields[i]] |-> <<fields[i], j>>]])

(* As it would be with the lists first. *)
IterListsFirst(c) == Spread(Classes[c].seq \o Classes[c].child)

Iter(c) == Spread(Classes[c].child \o Classes[c].seq)
(* Of several alignments of a declaration one is printed. *)
Text(c) == SelectSeq(Spread(TextOf(c)), LAMBDA p : p[1] = "align" => p[2] = 1)

Init ==
  /\ cls \in DOMAIN Classes
  /\ fill \in {f \in [NodeFields(cls) -> 0 .. MaxItems] :
                 \A x \in NodeFields(cls) \ Lists(cls) : f[x] <= 1}
  /\ later \in (IF cls = "Decl" THEN BOOLEAN ELSE {FALSE})
  /\ walked = <<>>

(* generic_visit goes on to the next sub-node. *)
Visit ==
  /\ Len(walked) < Len(Iter(cls))
  /\ walked' = Append(walked, Iter(cls)[Len(walked) + 1])
  /\ UNCHANGED <<cls, fill, later>>

Next == Visit

---------------------------------------------------------------------------
Done == Len(walked) = Len(Iter(cls))
Printed(x) == x \in Range(Text(cls))
Place(x) == CHOOSE i \in DOMAIN Text(cls) : Text(cls)[i] = x

(* What was yielded is a prefix of the sub-nodes of the node. *)
ATypeOK ==
  /\ cls \in DOMAIN Config
  /\ DOMAIN Classes = DOMAIN Config
  /\ \A i \in DOMAIN walked : walked[i][2] \in 1 .. fill[walked[i][1]]

(* c_ast.py is what the generator writes for _c_ast.cfg today: slots,
   children and attributes of every class. *)
AsGenerated == Classes[cls] = NodeCfg(Config[cls])

(* A visit meets exactly the sub-nodes the text shows, but for the attributes
   of a typedef and of a type name, which are printed nowhere, and the type
   of a later declaration, which is taken to be that of the first. *)
Silent ==
  {<<"Typedef", "gcc_attributes">>, <<"Typename", "gcc_attributes">>}
  \cup IF later THEN {<<"Decl", "type">>} ELSE {}
VisitsThePrinted ==
  Done => /\ \A x \in Range(walked) : Printed(x) \/ <<cls, x[1]>> \in Silent
          /\ \A x \in Range(Text(cls)) : x \in Range(walked) \/ x[1] \in HiddenNodes(cls)

(* A visit meets the sub-nodes in the order of the text, which the randomizer
   takes its order for, but for exactly these pairs: above all the condition of
   a do-while is numbered before its body. *)
Crossing ==
  {<<"DoWhile", "cond", "stmt">>, <<"FuncDecl", "args", "type">>,
   <<"FuncDef", "body", "param_decls">>, <<"Enum", "values", "gcc_attributes">>,
   <<"NamedInitializer", "expr", "name">>, <<"Decl", "init", "bitsize">>,
   <<"Decl", "init", "asmlabel">>, <<"Decl", "bitsize", "asmlabel">>}
  \cup {<<"Decl", f, "gcc_attributes">> : f \in {"type", "init", "bitsize"} \cup IF later THEN {} ELSE {"asmlabel"}}
InTextOrder ==
  \A i, j \in DOMAIN walked :
    (i < j /\ Printed(walked[i]) /\ Printed(walked[j]))
      => (Place(walked[i]) < Place(walked[j]) <=> <<cls, walked[i][1], walked[j][1]>> \notin Crossing)
=============================================================================
