------------------------------- MODULE Parser -------------------------------
(***************************************************************************)
(* From tokens to the syntax tree: src/parser/parser.cpp.                  *)
(*                                                                         *)
(* A parsing function is a sequence of steps (its Body), each of which is  *)
(* one of the few things these functions do: test the token ahead, read    *)
(* the next one, call another parsing function and look at what it gave.   *)
(* The stack holds the calls in progress, the last one first.  A function  *)
(* gives <<x>>, or <<>> for nullptr and nullopt.                           *)
(***************************************************************************)
EXTENDS Ast, SequencesExt

CONSTANTS
  Tokens,     (* the tokens: a type, and a value where the type has one    *)
  Sources,    (* what the lexer may have to give at the start              *)
  Gives(_)    (* what it may do then: pairs of a token and what it has     *)
              (* left to give                                              *)

VARIABLES
  feed,       (* what the lexer has left to give                           *)
  tokens,     (* the tokens it gave                                        *)
  awaiting,   (* whether a call of ILexer::get_next_token is in progress   *)
  stack,
  program,    (* the result: a sequence of function definitions            *)
  status      (* "running", "parsed" or the exception                      *)

vars == <<feed, tokens, awaiting, stack, program, status>>

-----------------------------------------------------------------------------
(* The steps of parsing functions.                                         *)

Digest == [op |-> "digest"]                       (* _get_next_token        *)
Keep == [op |-> "keep"]                           (* note the token, digest *)
Break == [op |-> "break"]                         (* go to the end          *)
GiveUp == [op |-> "giveUp"]                       (* return nothing         *)
Throw(exception) == [op |-> "throw", exception |-> exception]

Choose(types, yes, no) == [op |-> "choose", types |-> types, yes |-> yes, no |-> no]
While(types, body) == [op |-> "while", types |-> types, body |-> body]
Start(types) == Choose(types, <<>>, <<GiveUp>>)
MustBe(type, exception) == Choose({type}, <<>>, <<Throw(exception)>>)
Advance(type, exception) == Choose({type}, <<Digest>>, <<Throw(exception)>>)

(* A call notes what it is given; the caller goes on with "yes", or with     *)
(* "no" when that is nothing.  Every calls again until it is given nothing. *)
Call(rule, yes, no) == [op |-> "call", rule |-> rule, yes |-> yes, no |-> no]
Try(rule) == Call(rule, <<>>, <<>>)
Want(rule) == Call(rule, <<>>, <<GiveUp>>)
Demand(rule, exception) == Call(rule, <<>>, <<Throw(exception)>>)
Else(rule) == Call(rule, <<Break>>, <<>>)
Every(rule) == [op |-> "every", rule |-> rule]

(* The steps that look at what was parsed before.                          *)
Combine == [op |-> "combine"]
NoteTarget == [op |-> "noteTarget"]
CheckTarget == [op |-> "checkTarget"]
BindOrCall == [op |-> "bindOrCall"]
MakeVariableType == [op |-> "makeVariableType"]

Semicolon == Advance(";", "ExpectedSemicolon")

-----------------------------------------------------------------------------
(* Definitions.                                                            *)

Program == <<Every("FunctionDefinition"), MustBe("EOF", "ExpectedFuncOrEOF")>>

FunctionDefinitionSteps == <<Want("FunctionSignature"), Demand("CodeBlock", "ExpectedFunctionBody")>>

FunctionSignature ==
  <<Start({"def"}), Digest, MustBe("IDENTIFIER", "ExpectedFuncIdent"), Keep,
    Demand("FunctionParams", "ExpectedArgList"), Advance("->", "ExpectedArrow"), Want("ReturnType")>>

ReturnType == <<Choose({"none"}, <<Digest>>, <<Demand("Type", "ExpectedTypeSpec")>>)>>

FunctionParams ==
  <<Start({"("}), Digest,
    Call("TypedIdentifier",
         <<While({","}, <<Digest, Demand("TypedIdentifier", "ExpectedTypedIdentifier")>>)>>, <<>>),
    Advance(")", "ExpectedRParen")>>

TypedIdentifier ==
  <<Choose({"mut"}, <<Keep, MustBe("IDENTIFIER", "ExpectedIdentifier")>>, <<Start({"IDENTIFIER"})>>),
    Keep, Advance(":", "ExpectedCol"), Demand("Type", "ExpectedType"), MakeVariableType>>

(* Types.                                                                  *)
ScalarTypes ==
  [int |-> IntType, float |-> FloatType, string |-> StringType, bool |-> BoolType]

Type == <<Start(DOMAIN ScalarTypes \cup {"function"}),
          Choose({"function"}, <<Digest, Want("FunctionTypeInfo")>>, <<Keep>>)>>

FunctionTypeInfo ==
  LET OneParam == Demand("FunctionParamType", "InvalidFunctionParamType")
  IN  <<Advance("<", "ExpectedLess"),
        Choose({"none"}, <<Digest>>, <<OneParam, While({","}, <<Digest, OneParam>>)>>),
        Advance(":", "ExpectedCol"), Want("ReturnType"), Advance(">", "ExpectedGreater")>>

(* Slip: after mut, nothing is given instead of an exception.               *)
FunctionParamTypeOrNothing == <<Choose({"mut"}, <<Keep>>, <<>>), Want("Type"), MakeVariableType>>

FunctionParamType ==
  <<Choose({"mut"}, <<Keep, Demand("Type", "ExpectedType")>>, <<Want("Type")>>), MakeVariableType>>

-----------------------------------------------------------------------------
(* Statements.                                                             *)

Statement ==
  <<Else("Continue"), Else("Break"), Else("Return"), Else("VariableDeclaration"), Else("CodeBlock"),
    Else("IfStatement"), Else("ForLoop"), Want("AssignmentOrExpression")>>

Continue == <<Start({"continue"}), Digest, Semicolon>>
BreakSteps == <<Start({"break"}), Digest, Semicolon>>
Return == <<Start({"return"}), Digest, Try("Expression"), Semicolon>>

TypedAssignment ==
  <<Demand("TypedIdentifier", "ExpectedTypedIdentifier"), Demand("AssignedExpression", "ExpectedAssignment")>>

VariableDeclarationSteps == <<Start({"let"}), Digest>> \o TypedAssignment \o <<Semicolon>>

CodeBlockSteps == <<Start({"{"}), Digest, Every("Statement"), Advance("}", "ExpectedRBrace")>>

Conditional ==
  <<Demand("Condition", "ExpectedIfCondition"), Demand("CodeBlock", "ExpectedConditionalStatementBody")>>

IfStatementSteps == <<Start({"if"}), Digest>> \o Conditional \o <<Want("ElseIfs")>>

ElseIfs ==
  <<While({"else"}, <<Digest, Choose({"if"}, <<Digest>> \o Conditional,
                                     <<Demand("CodeBlock", "ExpectedConditionalStatementBody"), Break>>)>>)>>

ForLoopSteps ==
  <<Start({"for"}), Digest, Advance("(", "ExpectedLParen"),
    Demand("LoopVarDeclaration", "ExpectedLoopVarDecl"), Semicolon,
    Demand("Expression", "ExpectedLoopCondition"), Semicolon,
    MustBe("IDENTIFIER", "ExpectedLoopVarUpdate"), Keep,
    Demand("AssignedExpression", "ExpectedAssignment"), Advance(")", "ExpectedRParen"),
    Demand("CodeBlock", "ExpectedLoopBody")>>

AssignmentOrExpression ==
  <<NoteTarget, Want("Expression"),
    Choose({"="}, <<CheckTarget, Try("AssignedExpression")>>, <<>>), Semicolon>>

AssignedExpression == <<Start({"="}), Digest, Demand("Expression", "ExpectedExpr")>>

-----------------------------------------------------------------------------
(* Expressions.                                                            *)

Condition == <<Start({"("}), Digest, Try("Expression"), Advance(")", "ExpectedRParen")>>

(* _try_parse_chained_binary_expression and _single_: any number of operators,*)
(* or at most one.                                                         *)
Chained(sub, types, exception) ==
  <<Want(sub), While(types, <<Keep, Demand(sub, exception), Combine>>)>>
Single(sub, types, exception) ==
  <<Want(sub), Choose(types, <<Keep, Demand(sub, exception), Combine>>, <<>>)>>

Expression == Chained("LogicalAnd", {"or"}, "ExpectedExprAfterOr")
LogicalAnd == Chained("Equality", {"and"}, "ExpectedExprAfterAnd")
Equality == Single("Comparison", {"==", "!="}, "ExpectedExprAfterEquality")
Comparison == Single("Additive", {"<", "<=", ">", ">="}, "ExpectedExprAfterComparison")

(* Slip: the right operand is the rest.                                     *)
AdditiveOfTheRest ==
  <<Want("Multiplicative"),
    Choose({"+", "-"}, <<Keep, Demand("Additive", "ExpectedExprAfterAdditive"), Combine>>, <<>>)>>

Additive == Chained("Multiplicative", {"+", "-"}, "ExpectedExprAfterAdditive")
Multiplicative == Chained("TypeCast", {"*", "/"}, "ExpectedExprAfterMultiplicative")
Composition == Chained("BindFrontOrCall", {"&"}, "ExpectedExprAfterFuncComp")

BinaryKind == [type \in {"or", "and", "==", "!=", "<", "<=", ">", ">=", "+", "-", "*", "/", "&"} |->
  CASE type = "or" -> "LOGICAL_OR" [] type = "and" -> "LOGICAL_AND"
    [] type = "==" -> "EQUAL" [] type = "!=" -> "NOT_EQUAL"
    [] type = "<" -> "LESS" [] type = "<=" -> "LESS_EQUAL"
    [] type = ">" -> "GREATER" [] type = ">=" -> "GREATER_EQUAL"
    [] type = "+" -> "ADDITION" [] type = "-" -> "SUBTRACTION"
    [] type = "*" -> "MULTIPLICATION" [] type = "/" -> "DIVISION" [] OTHER -> "FUNCTION_COMPOSITION"]

TypeCastSteps ==
  <<Want("Unary"), Choose({"as"}, <<Digest, Demand("Type", "ExpectedTypeForTypeCast")>>, <<>>)>>

(* Slip: the operand of a unary operator takes the cast.                    *)
UnaryOfCast ==
  <<Choose({"not", "-"}, <<Keep, Demand("TypeCast", "ExpectedExprAfterUnary")>>, <<Want("Composition")>>)>>

UnarySteps ==
  <<Choose({"not", "-"}, <<Keep, Demand("Composition", "ExpectedExprAfterUnary")>>, <<Want("Composition")>>)>>

BindFrontOrCall == <<Call("ArgumentList", <<BindOrCall>>, <<Want("FunctionCall")>>)>>

(* Slip: what a call gives is not called.                                   *)
OneFunctionCall == <<Want("Primary"), Try("ArgumentList")>>

FunctionCallSteps == <<Want("Primary"), Every("ArgumentList")>>
Primary == <<Else("ParenExpr"), Else("Literal"), Want("Identifier")>>

LiteralTypes == {"LITERAL_INT", "LITERAL_FLOAT", "LITERAL_STRING", "LITERAL_BOOL"}
LiteralSteps == <<Start(LiteralTypes), Keep>>
IdentifierSteps == <<Start({"IDENTIFIER"}), Keep>>
ParenExpr == <<Start({"("}), Digest, Demand("Expression", "ExpectedExpr"), Advance(")", "ExpectedRParen")>>

ArgumentList ==
  <<Start({"("}), Digest,
    Call("Expression", <<While({","}, <<Digest, Demand("Expression", "ExpectedExpr")>>)>>, <<>>),
    Advance(")", "ExpectedRParen")>>

-----------------------------------------------------------------------------
(* What a function does, and what it makes of what it noted.                *)

Steps ==
  [Program |-> Program, FunctionDefinition |-> FunctionDefinitionSteps,
   FunctionSignature |-> FunctionSignature, ReturnType |-> ReturnType, FunctionParams |-> FunctionParams,
   TypedIdentifier |-> TypedIdentifier,
   Type |-> Type, FunctionTypeInfo |-> FunctionTypeInfo, FunctionParamType |-> FunctionParamType,
   Statement |-> Statement, Continue |-> Continue, Break |-> BreakSteps, Return |-> Return,
   VariableDeclaration |-> VariableDeclarationSteps, CodeBlock |-> CodeBlockSteps,
   IfStatement |-> IfStatementSteps, ElseIfs |-> ElseIfs, ForLoop |-> ForLoopSteps,
   LoopVarDeclaration |-> TypedAssignment, AssignmentOrExpression |-> AssignmentOrExpression,
   AssignedExpression |-> AssignedExpression, Condition |-> Condition, Expression |-> Expression,
   LogicalAnd |-> LogicalAnd, Equality |-> Equality, Comparison |-> Comparison, Additive |-> Additive,
   Multiplicative |-> Multiplicative, TypeCast |-> TypeCastSteps, Unary |-> UnarySteps,
   Composition |-> Composition, BindFrontOrCall |-> BindFrontOrCall, FunctionCall |-> FunctionCallSteps,
   Primary |-> Primary, Literal |-> LiteralSteps, Identifier |-> IdentifierSteps, ParenExpr |-> ParenExpr,
   ArgumentList |-> ArgumentList]

(* got: the type, the name before it if it is that of a name and, before     *)
(* them, mut.                                                               *)
Mutable(got) == "type" \in DOMAIN Head(got) /\ Head(got).type = "mut"
ParamType(got) == VariableType(Last(got), Mutable(got))
TypedName(got) == Param(got[Len(got) - 1].value, Last(got), Mutable(got))

(* Conditions and their bodies by turns, then the body of the else.         *)
Alternatives(got) ==
  [elseIfs |-> [i \in 1..(Len(got) \div 2) |-> ElseIf(got[2 * i - 1], got[2 * i])],
   optElse |-> IF Len(got) % 2 = 1 THEN <<Last(got)>> ELSE <<>>]

Calls(callee, lists) == FoldLeft(FunctionCall, callee, lists)

Node(rule, got) ==
  CASE rule \in {"Program", "FunctionParams", "ArgumentList"} -> got
    [] rule = "FunctionDefinition" -> FunctionDefinition(got[1].name, got[1].params, got[1].ret, got[2])
    [] rule = "FunctionSignature" -> [name |-> got[1].value, params |-> got[2], ret |-> got[3]]
    [] rule = "ReturnType" -> IF got = <<>> THEN NoneType ELSE got[1]
    [] rule = "TypedIdentifier" -> TypedName(got)
    [] rule = "Type" -> IF "kind" \in DOMAIN got[1] THEN got[1] ELSE ScalarTypes[got[1].type]
    [] rule = "FunctionTypeInfo" -> FunctionType(Front(got), Last(got))
    [] rule = "FunctionParamType" -> ParamType(got)
    [] rule = "Continue" -> ContinueStatement
    [] rule = "Break" -> BreakStatement
    [] rule = "Return" -> ReturnStatement(got)
    [] rule = "VariableDeclaration" -> VariableDeclaration(got[1].name, got[1].vt, got[2])
    [] rule = "CodeBlock" -> CodeBlock(got)
    [] rule = "IfStatement" -> IfStatement(got[1], got[2], got[3].elseIfs, got[3].optElse)
    [] rule = "ElseIfs" -> Alternatives(got)
    [] rule = "ForLoop" -> ForLoop(got[1], got[2], AssignStatement(got[3].value, got[4]), got[5])
    [] rule = "LoopVarDeclaration" -> LoopVarDecl(got[1].name, got[1].vt.type, got[2])
    [] rule = "AssignmentOrExpression" ->
         IF Len(got) = 2 THEN ExpressionStatement(got[2]) ELSE AssignStatement(got[1], got[3])
    [] rule = "TypeCast" /\ Len(got) = 2 -> TypeCast(got[1], got[2])
    [] rule = "Unary" /\ Len(got) = 2 ->
         Unary(IF got[1].type = "not" THEN "LOGICAL_NOT" ELSE "UNARY_MINUS", got[2])
    [] rule = "BindFrontOrCall" /\ Len(got) = 2 -> BindFront(got[1], got[2])
    [] rule = "FunctionCall" -> Calls(got[1], Tail(got))
    [] rule = "Literal" -> Literal(got[1].value)
    [] rule = "Identifier" -> Identifier(got[1].value)
    [] OTHER -> got[1]

(* A condition of nothing, "()", is nothing.                                *)
Result(rule, got) == IF rule = "Condition" THEN got ELSE <<Node(rule, got)>>

-----------------------------------------------------------------------------
(* The lexer, seen from the parser.                                         *)

(* Slip: comments are not skipped.                                          *)
ReceiveAny(t) ==
  /\ awaiting
  /\ tokens' = Append(tokens, t)
  /\ awaiting' = FALSE
  /\ UNCHANGED <<stack, program, status>>

(* Comments are skipped, but for one that comes first: the constructor takes  *)
(* its token from the lexer itself.                                         *)
Receive(t) ==
  /\ awaiting
  /\ tokens' = Append(tokens, t)
  /\ awaiting' = (t.type = "COMMENT" /\ tokens # <<>>)
  /\ UNCHANGED <<stack, program, status>>

-----------------------------------------------------------------------------
(* The steps.                                                               *)

Ahead == Last(tokens)
Current == Head(stack)
Step == Head(Current.todo)
Does(op) == status = "running" /\ ~awaiting /\ Current.todo # <<>> /\ Step.op = op

Entered(rule) == [rule |-> rule, at |-> Len(tokens), todo |-> Steps[rule], got |-> <<>>]

Goes(todo, got) ==
  /\ stack' = <<[Current EXCEPT !.todo = todo, !.got = got]>> \o Tail(stack)
  /\ UNCHANGED <<feed, tokens, program, status>>

Fails(exception) ==
  /\ status' = exception
  /\ UNCHANGED <<feed, tokens, awaiting, stack, program>>

Rest == Tail(Current.todo)

DigestToken ==
  /\ Does("digest")
  /\ awaiting' = TRUE
  /\ Goes(Rest, Current.got)

KeepToken ==
  /\ Does("keep")
  /\ awaiting' = TRUE
  /\ Goes(Rest, Append(Current.got, Ahead))

TestToken ==
  /\ Does("choose")
  /\ Goes((IF Ahead.type \in Step.types THEN Step.yes ELSE Step.no) \o Rest, Current.got)
  /\ UNCHANGED awaiting

TestLoop ==
  /\ Does("while")
  /\ Goes(IF Ahead.type \in Step.types THEN Step.body \o Current.todo ELSE Rest, Current.got)
  /\ UNCHANGED awaiting

BreakLoop ==
  /\ Does("break")
  /\ Goes(<<>>, Current.got)
  /\ UNCHANGED awaiting

ThrowException ==
  /\ Does("throw")
  /\ Fails(Step.exception)

CallFunction ==
  /\ Does("call") \/ Does("every")
  /\ stack' = <<Entered(Step.rule)>> \o stack
  /\ UNCHANGED <<feed, tokens, awaiting, program, status>>

(* Slip: a repetition does not end.                                         *)
AnsweredForEver(caller, result) ==
  LET step == Head(caller.todo)
      rest == Tail(caller.todo)
  IN  [caller EXCEPT
         !.got = @ \o result,
         !.todo = CASE step.op = "every" -> @
                    [] step.op = "call" /\ result # <<>> -> step.yes \o rest
                    [] OTHER -> step.no \o rest]

(* The caller, told what it called for.                                     *)
Answered(caller, result) ==
  LET step == Head(caller.todo)
      rest == Tail(caller.todo)
  IN  [caller EXCEPT
         !.got = @ \o result,
         !.todo = CASE step.op = "every" /\ result # <<>> -> @
                    [] step.op = "every" /\ result = <<>> -> rest
                    [] step.op = "call" /\ result # <<>> -> step.yes \o rest
                    [] OTHER -> step.no \o rest]

GivesBack(result) ==
  /\ stack' = <<Answered(stack[2], result)>> \o Tail(Tail(stack))
  /\ UNCHANGED <<feed, tokens, awaiting, program, status>>

GiveNothing ==
  /\ Does("giveUp")
  /\ GivesBack(<<>>)

Ended == status = "running" /\ ~awaiting /\ Current.todo = <<>>

GiveResult ==
  /\ Ended
  /\ Len(stack) > 1
  /\ GivesBack(Result(Current.rule, Current.got))

GiveProgram ==
  /\ Ended
  /\ Len(stack) = 1
  /\ program' = Current.got
  /\ status' = "parsed"
  /\ UNCHANGED <<feed, tokens, awaiting, stack>>

(* left = BinaryExpression::create(kind, left, right)                        *)
CombineOperands ==
  /\ Does("combine")
  /\ LET got == Current.got
     IN  Goes(Rest, <<Binary(BinaryKind[got[2].type], got[1], got[3])>>)
  /\ UNCHANGED awaiting

(* The name is that of the first token, if it is one.                       *)
NoteTargetName ==
  /\ Does("noteTarget")
  /\ Goes(Rest, <<IF Ahead.type = "IDENTIFIER" THEN Ahead.value ELSE "">>)
  /\ UNCHANGED awaiting

CheckTargetKind ==
  /\ Does("checkTarget")
  /\ IF Current.got[2].do = "Identifier"
     THEN Goes(Rest, Current.got) /\ UNCHANGED awaiting
     ELSE Fails("InvalidAssignTarget")

(* The constructor of VariableType, which may throw.                         *)
ConstructVariableType ==
  /\ Does("makeVariableType")
  /\ IF VariableTypeThrows(Last(Current.got), Mutable(Current.got))
     THEN Fails("std::invalid_argument")
     ELSE Goes(Rest, Current.got) /\ UNCHANGED awaiting

(* After a list of arguments: a bind front, or a parenthesised expression,   *)
(* which may be called.                                                     *)
BindFrontOrFunctionCall ==
  /\ Does("bindOrCall")
  /\ LET arguments == Current.got[1]
     IN  CASE Ahead.type = ">>" ->
                Goes(<<Digest, Demand("FunctionCall", "ExpectedBindFrontTarget")>>, Current.got)
                /\ UNCHANGED awaiting
           [] Ahead.type # ">>" /\ Len(arguments) # 1 -> Fails("ExpectedBindFrontOperator")
           [] OTHER ->
                /\ stack' = <<[Current EXCEPT !.rule = "FunctionCall", !.todo = <<Every("ArgumentList")>>,
                                              !.got = arguments]>> \o Tail(stack)
                /\ UNCHANGED <<feed, tokens, awaiting, program, status>>

-----------------------------------------------------------------------------

Init ==
  /\ feed \in Sources
  /\ tokens = <<>>
  /\ awaiting = TRUE
  /\ stack = <<[rule |-> "Program", at |-> 1, todo |-> Program, got |-> <<>>]>>
  /\ program = <<>>
  /\ status = "running"

Parse ==
  \/ DigestToken \/ KeepToken \/ TestToken \/ TestLoop \/ BreakLoop \/ ThrowException
  \/ CallFunction \/ GiveNothing \/ GiveResult \/ GiveProgram
  \/ CombineOperands \/ NoteTargetName \/ CheckTargetKind \/ ConstructVariableType
  \/ BindFrontOrFunctionCall

LexerGives == \E next \in Gives(feed) : Receive(next[1]) /\ feed' = next[2]

Run == Parse \/ LexerGives

Stopped == status # "running" /\ UNCHANGED vars

Next == Run \/ Stopped

Spec == Init /\ [][Next]_vars

FairSpec == Spec /\ WF_vars(Run)

-----------------------------------------------------------------------------
(* Properties.                                                             *)

Exceptions ==
  {"ExpectedFuncOrEOF", "ExpectedFuncIdent", "ExpectedArgList", "ExpectedArrow", "ExpectedTypeSpec",
   "ExpectedFunctionBody", "ExpectedTypedIdentifier", "ExpectedIdentifier", "ExpectedCol", "ExpectedType",
   "ExpectedLess", "ExpectedGreater", "InvalidFunctionParamType", "ExpectedSemicolon", "ExpectedRBrace",
   "ExpectedLParen", "ExpectedRParen", "ExpectedAssignment", "InvalidAssignTarget", "ExpectedExpr",
   "ExpectedIfCondition", "ExpectedConditionalStatementBody", "ExpectedLoopVarDecl", "ExpectedLoopCondition",
   "ExpectedLoopVarUpdate", "ExpectedLoopBody", "ExpectedExprAfterOr", "ExpectedExprAfterAnd",
   "ExpectedExprAfterEquality", "ExpectedExprAfterComparison", "ExpectedExprAfterAdditive",
   "ExpectedExprAfterMultiplicative", "ExpectedExprAfterUnary", "ExpectedExprAfterFuncComp",
   "ExpectedTypeForTypeCast", "ExpectedBindFrontOperator", "ExpectedBindFrontTarget",
   "std::invalid_argument"}

(* The token ahead is no comment, but for the very first (parser.cpp 3,      *)
(* 751-757); the exception is one of those parser.cpp throws, or the one of  *)
(* the constructor it calls (639, 744, type.cpp 90).                         *)
TypeOK ==
  /\ tokens \in Seq(Tokens)
  /\ awaiting \in BOOLEAN
  /\ ~awaiting => tokens # <<>> /\ (Ahead.type = "COMMENT" => Len(tokens) = 1)
  /\ stack # <<>> /\ Last(stack).rule = "Program"
  /\ \A i \in DOMAIN stack : stack[i].rule \in DOMAIN Steps /\ stack[i].at \in 1..(Len(tokens) + 1)
  /\ status \in Exceptions \cup {"running", "parsed"}

(* A function that gives nothing has taken nothing, for the caller goes on   *)
(* as if it had not been called: with an alternative (parser.cpp 72-91,      *)
(* 462-471, 729-745), or with what follows the last item of a repetition     *)
(* (9, 157, 456).                                                           *)
NothingGivenNothingTaken == Does("giveUp") => Len(tokens) = Current.at

(* Does a part of the text open a bracket, or a type of a function, that it  *)
(* does not close?                                                         *)
Opens(s) ==
  LET Count(type) == Cardinality({i \in DOMAIN s : s[i].type = type})
  IN  Count("(") > Count(")") \/ Count("{") > Count("}") \/ Count("function") > 0

(* A function is called again, before it has returned, only for a part       *)
(* nested in its own: the C++ stack is as deep as the text is nested, and    *)
(* not as it is long, and no function calls itself at the same token         *)
(* (parser.cpp 149-164, 324-460, 518-610).                                  *)
RecursionIsNested ==
  \A i \in 2..Len(stack) :
    stack[i].rule = Current.rule => Opens(SubSeq(tokens, stack[i].at, Current.at - 1))

(* Every text is parsed or refused: no loop goes round without taking a      *)
(* token (parser.cpp 9, 157, 191, 456, 544, 598, 652, 709, 753).             *)
Terminates == <>(status # "running")
=============================================================================
