------------------------------ MODULE MCLanguage -----------------------------
(* The programs of MCControl, MCHigherOrder and MCJumps, programs that misuse *)
(* the language in one place, and the data operators on every pair of         *)
(* operands of a sample: each construct and each error of the interpreter.   *)
EXTENDS MCControl, MCHigherOrder, MCJumps

Hello == Say("a")
Void == C("g", <<>>)
G == Def("g", <<>>, NoneType, <<Hello>>)

(* A function that ends without the int it promises, wherever a value is      *)
(* asked for but in a composition (type_handler.cpp 52).                     *)
H == Def("h", <<>>, IntType, <<Hello>>)
Missing == C("h", <<>>)
UsesOfMissing ==
  {<<Do(Missing)>>, <<Ret(Missing)>>, <<Let("j", IntType, Missing)>>, <<Set("x", Missing)>>, <<Set("x", Plus(V("x"), Missing))>>,
   <<Show(Missing)>>, <<Do(C("print", <<Missing>>))>>, <<Do(FunctionCall(Missing, <<>>))>>, <<If(Missing, <<Hello>>)>>,
   <<Show(Unary("UNARY_MINUS", Missing))>>, <<Show(Plus(Missing, I(1)))>>, <<Do(BindFront(<<Missing>>, V("h")))>>,
   <<Do(BindFront(<<I(1)>>, Missing))>>, <<Do(C("f", <<I(1), Missing>>))>>, <<Do(FunctionCall(BindFront(<<I(1)>>, V("f")), <<>>))>>,
   <<Do(FunctionCall(Compose(V("g"), V("h")), <<>>))>>, <<Do(Missing), Do(Missing), Ret(I(1))>>}
F == Def("f", <<In("i", IntType)>>, IntType, <<If(Equals(V("i"), I(1)), <<Hello>>)>>)

(* In the body of main, after "let mut x: int = 0; let y: int = 0;".                   *)
Faults ==
  {<<Set("i", I(1))>>, <<Set("y", I(1))>>, <<Set("x", T)>>, <<Set("x", Void)>>, <<Do(V("i"))>>,
   <<Let("x", IntType, I(1))>>, <<Let("g", IntType, I(1))>>, <<Let("print", IntType, I(1))>>,
   <<Let("j", BoolType, I(1))>>, <<Let("j", IntType, Void)>>, <<Let("j", IntType, V("g"))>>,
   <<If(I(1), <<Hello>>)>>, <<If(Void, <<Hello>>)>>,
   <<IfStatement(Equals(I(0), I(1)), Block(<<Hello>>), <<Elif(I(1), <<Hello>>)>>, <<>>)>>,
   <<ForLoop(LoopVarDecl("i", IntType, I(0)), V("i"), Inc("i"), Block(<<Hello>>))>>,
   <<ForLoop(LoopVarDecl("i", IntType, I(0)), T, Set("i", T), Block(<<Hello>>))>>,
   <<BreakStatement>>, <<ContinueStatement>>, <<RetNothing>>, <<Ret(T)>>, <<Ret(Void)>>,
   <<Do(C("g", <<I(1)>>))>>, <<Do(C("print", <<V("x")>>))>>, <<Do(C("print", <<Void>>))>>, <<Do(C("x", <<>>))>>,
   <<Show(Void)>>, <<Show(Unary("UNARY_MINUS", Void))>>, <<Show(Plus(Void, I(1)))>>, <<Show(Plus(I(1), Void))>>,
   <<Show(V("g"))>>, <<Show(TypeCast(S("a"), IntType))>>, <<Show(TypeCast(S("a"), FloatType))>>,
   <<Show(TypeCast(V("g"), BoolType))>>, <<Show(TypeCast(I(1), NoneType))>>,
   <<Show(Unary("LOGICAL_NOT", I(1)))>>, <<Show(Unary("UNARY_MINUS", T))>>}

Operands == {I(0), I(9), S("1.5"), S("a"), T, V("g"), Literal(Float(3, 2)), Literal(Float(0, 1)), C("input", <<>>)}
Kinds == {"ADDITION", "SUBTRACTION", "MULTIPLICATION", "DIVISION", "LOGICAL_AND", "LOGICAL_OR",
          "EQUAL", "NOT_EQUAL", "LESS", "LESS_EQUAL", "GREATER", "GREATER_EQUAL", "FUNCTION_COMPOSITION"}

Samples ==
  {Binary(k, l, r) : k \in Kinds, l, r \in Operands} \cup
  {Unary(k, e) : k \in {"LOGICAL_NOT", "UNARY_MINUS"}, e \in Operands} \cup
  {TypeCast(e, t) : e \in Operands, t \in {IntType, FloatType, BoolType}} \cup
  {C(name, <<e>>) : name \in BuiltinNames, e \in Operands} \cup
  {C("round", <<e, I(p)>>) : e \in Operands, p \in {-1, 0, 1}}

InMain(body) == <<G, Main(<<LetMut("x", IntType, I(0)), Let("y", IntType, I(0))>> \o body \o <<Ret(I(0))>>)>>

MCProgs ==
  Control \cup HigherOrder \cup Jumping \cup {InMain(body) : body \in Faults}
    \cup {<<F, H>> \o InMain(body) : body \in UsesOfMissing} \cup {<<G, Main(<<Show(e), Ret(I(0))>>)>> : e \in Samples} \cup
  {<<G>>, <<G, G>>, <<Def("input", <<>>, StringType, <<>>)>>,
   <<Def("main", <<>>, NoneType, <<>>)>>, <<Def("main", <<In("x", IntType)>>, IntType, <<Ret(V("x"))>>)>>}

(* Programs without the jumps of MCJumps, which go where the interpreter     *)
(* departs from its documentation, do what the documentation says            *)
(* (AgreesWithReference), and each of their statements finds _tmp_result     *)
(* empty (NothingLeftBehind; interpreter.cpp 138-152).                       *)
AgreesUnlessJumping == program \notin Jumping => AgreesWithReference
NothingLeftUnlessJumping == program \notin Jumping => NothingLeftBehind
=============================================================================
