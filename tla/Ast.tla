-------------------------------- MODULE Ast --------------------------------
(***************************************************************************)
(* The syntax tree the parser hands to the interpreter: include/           *)
(* program.hpp, statement.hpp and expression.hpp.  Positions are left out. *)
(* The field "do" names the node, for the machine that visits it.          *)
(***************************************************************************)
EXTENDS TypeHandler

(* Expressions.                                                            *)
Literal(v) == [do |-> "Literal", value |-> v]
Identifier(name) == [do |-> "Identifier", name |-> name]
FunctionCall(callee, args) == [do |-> "FunctionCall", callee |-> callee, args |-> args]
TypeCast(expr, target) == [do |-> "TypeCast", expr |-> expr, target |-> target]
Binary(kind, left, right) == [do |-> "Binary", kind |-> kind, left |-> left, right |-> right]
Unary(kind, expr) == [do |-> "Unary", kind |-> kind, expr |-> expr]
BindFront(args, target) == [do |-> "BindFront", args |-> args, target |-> target]

(* Statements; "opt" fields are sequences of at most one element.          *)
CodeBlock(statements) == [do |-> "CodeBlock", statements |-> statements]
VariableDeclaration(name, vt, expr) ==
  [do |-> "VariableDeclaration", name |-> name, vt |-> vt, expr |-> expr]
AssignStatement(name, expr) == [do |-> "AssignStatement", name |-> name, expr |-> expr]
ExpressionStatement(expr) == [do |-> "ExpressionStatement", expr |-> expr]
ReturnStatement(optExpr) == [do |-> "ReturnStatement", optExpr |-> optExpr]
ContinueStatement == [do |-> "ContinueStatement"]
BreakStatement == [do |-> "BreakStatement"]
IfStatement(cond, body, elseIfs, optElse) ==
  [do |-> "IfStatement", cond |-> cond, body |-> body, elseIfs |-> elseIfs, optElse |-> optElse]
ElseIf(cond, body) == [do |-> "ElseIf", cond |-> cond, body |-> body]
ForLoop(decl, cond, update, body) ==
  [do |-> "ForLoop", decl |-> decl, cond |-> cond, update |-> update, body |-> body]

(* The parser makes every loop variable mutable (parser.cpp 294-306).      *)
LoopVarDecl(name, type, expr) == VariableDeclaration(name, VariableType(type, TRUE), expr)

(* Definitions; the type of a function is deduced from its signature.      *)
Param(name, type, mutable) == [name |-> name, vt |-> VariableType(type, mutable)]
FunctionDefinition(name, params, ret, body) ==
  [do |-> "FunctionDefinition", name |-> name, params |-> params, ret |-> ret, body |-> body]

SignatureType(def) ==
  FunctionType([i \in DOMAIN def.params |-> def.params[i].vt], def.ret)

(* GlobalFunction: a definition that can be called.                         *)
GlobalFunction(def) == [type |-> SignatureType(def), val |-> [impl |-> "global", def |-> def]]

ExpressionKinds == {"Literal", "Identifier", "FunctionCall", "TypeCast", "Binary", "Unary", "BindFront"}
BinaryKinds ==
  {"ADDITION", "SUBTRACTION", "MULTIPLICATION", "DIVISION", "LOGICAL_AND", "LOGICAL_OR",
   "EQUAL", "NOT_EQUAL", "LESS", "LESS_EQUAL", "GREATER", "GREATER_EQUAL", "FUNCTION_COMPOSITION"}
StatementKinds ==
  {"CodeBlock", "VariableDeclaration", "AssignStatement", "ExpressionStatement",
   "ReturnStatement", "ContinueStatement", "BreakStatement", "IfStatement", "ForLoop"}
=============================================================================
