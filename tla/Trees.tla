------------------------------- MODULE Trees -------------------------------
(***************************************************************************)
(* What the interpreter may rely on of a program it is given: the trees    *)
(* that the classes of include/expression.hpp, statement.hpp and           *)
(* program.hpp can make, whatever the parser makes of them.                *)
(***************************************************************************)
EXTENDS Interpreter

CONSTANTS
  Expressions, Statements   (* the nodes of the programs                   *)

(* With a node, its children are among the nodes.                           *)
IsExpression(e) ==
  /\ e.do \in ExpressionKinds
  /\ e.do = "Literal" => IsScalar(e.value)
  /\ e.do = "Identifier" => e.name \in Names
  /\ e.do = "FunctionCall" => e.callee \in Expressions /\ e.args \in Seq(Expressions)
  /\ e.do \in {"TypeCast", "Unary"} => e.expr \in Expressions
  /\ e.do = "Binary" => e.kind \in BinaryKinds /\ {e.left, e.right} \subseteq Expressions
  /\ e.do = "BindFront" => e.args \in Seq(Expressions) /\ e.target \in Expressions

Blocks == {s \in Statements : s.do = "CodeBlock"}
ElseIfs == {s \in Statements : s.do = "ElseIf"}
NestedStatements == Statements \ ElseIfs
Declarations == {s \in Statements : s.do = "VariableDeclaration"}
Assignments == {s \in Statements : s.do = "AssignStatement"}
AtMostOne(S) == {<<>>} \cup {<<x>> : x \in S}

IsStatement(s) ==
  /\ s.do \in StatementKinds \cup {"ElseIf"}
  /\ s.do = "CodeBlock" => s.statements \in Seq(NestedStatements)
  /\ s.do \in {"VariableDeclaration", "AssignStatement"} => s.name \in Names
  /\ s.do = "VariableDeclaration" => s.vt.mutable \in BOOLEAN
  /\ s.do \in {"VariableDeclaration", "AssignStatement", "ExpressionStatement"} => s.expr \in Expressions
  /\ s.do = "ReturnStatement" => s.optExpr \in AtMostOne(Expressions)
  /\ s.do \in {"IfStatement", "ElseIf", "ForLoop"} => s.cond \in Expressions /\ s.body \in Blocks
  /\ s.do = "IfStatement" => s.elseIfs \in Seq(ElseIfs) /\ s.optElse \in AtMostOne(Blocks)
  /\ s.do = "ForLoop" => s.decl \in Declarations /\ s.update \in Assignments

IsDefinition(def) ==
  /\ def.do = "FunctionDefinition"
  /\ def.name \in Names
  /\ def.params \in Seq({def.params[i] : i \in DOMAIN def.params})
  /\ \A i \in DOMAIN def.params : def.params[i].name \in Names /\ def.params[i].vt.mutable \in BOOLEAN
  /\ def.body \in Blocks

ASSUME ProgramsAreTrees ==
  /\ \A e \in Expressions : IsExpression(e)
  /\ \A s \in Statements : IsStatement(s)
  /\ \A prog \in Programs : prog \in Seq({def \in {prog[i] : i \in DOMAIN prog} : IsDefinition(def)})
=============================================================================
