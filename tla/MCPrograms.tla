----------------------------- MODULE MCPrograms -----------------------------
(* A concrete syntax for programs, the constants that every instance of      *)
(* Interpreter shares, and the agreement of a run with its reference.        *)
EXTENDS Interpreter

Ref == INSTANCE Reference

MCStringOrder == <<"", "1.5", "A", "a", "b">>
MCIntStrings == [s \in {ToString(i) : i \in -9..9} |-> CHOOSE i \in -9..9 : ToString(i) = s]
MCFloatStrings == ("1.5" :> <<3, 2>>) @@ [s \in DOMAIN MCIntStrings |-> <<MCIntStrings[s], 1>>]
MCCaseTable ==
  [lower       |-> [s \in ToSet(MCStringOrder) |-> IF s = "A" THEN "a" ELSE s],
   upper       |-> [s \in ToSet(MCStringOrder) |-> IF s = "a" THEN "A" ELSE s],
   capitalized |-> [s \in ToSet(MCStringOrder) |-> IF s = "a" THEN "A" ELSE s]]

(* Expressions: an int, a string or a bool; a name; a call of a function.    *)
I(n) == Literal(Int32(n))
S(s) == Literal(Str(s))
T == Literal(Bool(TRUE))
V(name) == Identifier(name)
C(name, args) == FunctionCall(Identifier(name), args)
Plus(l, r) == Binary("ADDITION", l, r)
Less(l, r) == Binary("LESS", l, r)
Equals(l, r) == Binary("EQUAL", l, r)
Compose(l, r) == Binary("FUNCTION_COMPOSITION", l, r)
AsText(e) == TypeCast(e, StringType)

(* Statements: let declares a constant, let mut a variable.                  *)
Block(statements) == CodeBlock(statements)
Do(e) == ExpressionStatement(e)
Say(s) == Do(C("print", <<S(s)>>))
Show(e) == Do(C("print", <<AsText(e)>>))
Let(name, type, e) == VariableDeclaration(name, VariableType(type, FALSE), e)
LetMut(name, type, e) == VariableDeclaration(name, VariableType(type, TRUE), e)
Set(name, e) == AssignStatement(name, e)
Inc(name) == Set(name, Plus(V(name), I(1)))
Ret(e) == ReturnStatement(<<e>>)
RetNothing == ReturnStatement(<<>>)
If(cond, body) == IfStatement(cond, Block(body), <<>>, <<>>)
IfElse(cond, body, other) == IfStatement(cond, Block(body), <<>>, <<Block(other)>>)
Elif(cond, body) == ElseIf(cond, Block(body))

(* for (i: int = 0; i < n; i = i + 1) { body }                               *)
For(i, n, body) == ForLoop(LoopVarDecl(i, IntType, I(0)), Less(V(i), I(n)), Inc(i), Block(body))

(* Definitions.                                                              *)
Def(name, params, ret, body) == FunctionDefinition(name, params, ret, Block(body))
In(name, type) == Param(name, type, FALSE)
InOut(name, type) == Param(name, type, TRUE)
Main(body) == Def("main", <<>>, IntType, body)

BuiltinNames == DOMAIN BuiltinTable
MCNames == BuiltinNames \cup {"main", "f", "g", "h", "i", "j", "x", "y"}

(* A run of a program ends as the semantics of the language says: with the    *)
(* same output, and normally or with the same error (interpreter.cpp, the     *)
(* flags of interpreter.hpp 180-212 against docs/TKOM-dokumentacja-końcowa.md *)
(* 200-260).                                                                  *)
AgreesWithReference ==
  status # "running" =>
    LET meaning == Ref!Meaning(program)
    IN  /\ output = meaning.state.output
        /\ status = IF meaning.how = "error" THEN meaning.result ELSE "finished"
=============================================================================
