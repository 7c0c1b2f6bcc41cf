------------------------------ MODULE MCCalls ------------------------------
(* Calls: variables passed by reference and values passed as temporaries, to *)
(* functions that assign, shadow, recurse, loop and pass on.                 *)
EXTENDS MCPrograms, Trees

CallG(e) == C("g", <<e>>)
CallH(e) == C("h", <<e>>)

BodiesOfG ==
  {<<Inc("x")>>,
   <<Do(CallH(V("x"))), Show(V("x"))>>,
   <<LetMut("x", IntType, I(2)), Inc("x")>>,
   <<LetMut("y", IntType, CallH(V("x"))), Inc("y"), Inc("x")>>,
   <<If(Less(V("x"), I(2)), <<Inc("x"), Do(CallG(V("x")))>>)>>,
   <<For("i", 2, <<Inc("x"), RetNothing>>)>>,
   <<Set("x", CallH(V("x")))>>,
   <<Let("h", IntType, I(1))>>,
   <<Let("y", IntType, I(1)), Let("y", IntType, I(2))>>}

UsesOfG(mutable) ==
  {<<Do(CallG(V("x")))>>,
   <<Do(CallG(I(1))), Do(CallG(V("x")))>>,
   <<Do(CallG(CallH(V("x"))))>>,
   <<For("i", 2, <<Do(CallG(V("i"))), If(Equals(V("i"), I(5)), <<BreakStatement>>)>>)>>,
   <<Set("x", Plus(CallH(V("x")), V("x")))>>,
   <<Let("f", FunctionType(<<VariableType(IntType, mutable)>>, NoneType), V("g")),
     Do(C("f", <<V("x")>>))>>}

(* g takes x, mutable or not; h increments what it is given; the x of main   *)
(* is a variable or a constant.                                              *)
Program(mutable, own, bodyOfG, use) ==
  <<Def("g", <<Param("x", IntType, mutable)>>, NoneType, bodyOfG),
    Def("h", <<InOut("y", IntType)>>, IntType, <<Inc("y"), Ret(V("y"))>>),
    Main(<<VariableDeclaration("x", VariableType(IntType, own), I(0))>>
         \o use \o <<Show(V("x")), Ret(V("x"))>>)>>

(* f adds two arguments, and the evaluation of the second changes the        *)
(* variable that the first one is.                                          *)
Overtaken(mutable, second) ==
  <<Def("f", <<Param("x", IntType, mutable), In("y", IntType)>>, IntType, <<Ret(Plus(V("x"), V("y")))>>),
    Def("h", <<InOut("y", IntType)>>, IntType, <<Inc("y"), Ret(V("y"))>>),
    Main(<<LetMut("x", IntType, I(0)), Set("x", C("f", <<V("x"), second>>)), Show(V("x")), Ret(V("x"))>>)>>

MCProgs ==
  {Overtaken(mutable, second) : mutable \in BOOLEAN,
      second \in {CallH(V("x")), Plus(CallH(V("x")), V("x")), C("f", <<V("x"), CallH(V("x"))>>)}} \cup
  UNION {{Program(mutable, own, body, use) : own \in BOOLEAN, body \in BodiesOfG, use \in UsesOfG(mutable)}
           : mutable \in BOOLEAN}

(* The nodes of the programs: with a node, those below it.                  *)
Below(node) ==
  CASE node.do \in {"Literal", "Identifier", "ContinueStatement", "BreakStatement"} -> {}
    [] node.do = "FunctionCall" -> {node.callee} \cup ToSet(node.args)
    [] node.do = "BindFront" -> {node.target} \cup ToSet(node.args)
    [] node.do = "Binary" -> {node.left, node.right}
    [] node.do = "CodeBlock" -> ToSet(node.statements)
    [] node.do = "ReturnStatement" -> ToSet(node.optExpr)
    [] node.do = "ElseIf" -> {node.cond, node.body}
    [] node.do = "IfStatement" -> {node.cond, node.body} \cup ToSet(node.elseIfs) \cup ToSet(node.optElse)
    [] node.do = "ForLoop" -> {node.decl, node.cond, node.update, node.body}
    [] OTHER -> {node.expr}

RECURSIVE AllBelow(_, _)
AllBelow(nodes, last) ==
  LET more == UNION {Below(n) : n \in last} \ nodes
  IN  IF more = {} THEN nodes ELSE AllBelow(nodes \cup more, more)

Bodies == {def.body : def \in UNION {ToSet(prog) : prog \in MCProgs}}
Nodes == AllBelow(Bodies, Bodies)
MCExpressions == {n \in Nodes : n.do \in ExpressionKinds}
MCStatements == Nodes \ MCExpressions

(* No built-in function but print is called, and no int exceeds 5.           *)
CallNames == BuiltinNames \cup {"main", "f", "g", "h", "i", "x", "y"}

(* What the environment is given while these programs run.                   *)
MCFunctions ==
  {GlobalFunction(def) : def \in UNION {ToSet(prog) : prog \in MCProgs}}
    \cup {BuiltinTable[name] : name \in BuiltinNames}
MCValues == {Int32(n) : n \in 0..5} \cup MCFunctions
MCTypes == {v.type : v \in MCValues}
=============================================================================
