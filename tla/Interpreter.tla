---------------------------- MODULE Interpreter ----------------------------
(***************************************************************************)
(* The tree-walking interpreter: src/interpreter/interpreter.cpp, with the *)
(* call methods of the callables it invokes (global_function.cpp,          *)
(* composed_function.cpp, bind_front_function.cpp, builtin_functions.cpp). *)
(*                                                                         *)
(* The C++ recursion of visit() and call() is unfolded into a stack of     *)
(* work: its head is the node being visited, or the rest of a method that  *)
(* resumes when what it accepted has returned.  One action is the code of  *)
(* one method between two such points.  An exception leaves every method   *)
(* at once; the status keeps its name and nothing runs any more.           *)
(***************************************************************************)
EXTENDS Conversions, Ast, SequencesExt

CONSTANTS
  Programs,  (* the programs to run, each a sequence of FunctionDefinitions *)
  Names,     (* their identifiers and those of the built-in functions      *)
  Types,     (* the types and                                              *)
  Values     (* the values that Environment is instantiated with           *)

ASSUME BuiltinsAreNamed == DOMAIN BuiltinTable \subseteq Names

VARIABLES
  program,     (* the program under interpretation                         *)
  functions, callFrames, store,   (* the Environment                       *)
  tmpResult,   (* _tmp_result: nothing, a value or a variable holder       *)
  isReturning, conditionMet, insideLoop, onContinue, onBreak,
  stack,       (* the work still to do                                     *)
  status,      (* "running", "finished" or the exception that ended it     *)
  output       (* the lines printed                                        *)

Env == INSTANCE Environment
         WITH Builtins <- BuiltinTable, MaxFrames <- 1000, MaxScopes <- 1000, MaxStore <- 1000

envVars == <<functions, callFrames, store>>
flags == <<isReturning, conditionMet, insideLoop, onContinue, onBreak>>
vars == <<program, envVars, tmpResult, flags, stack, status, output>>

-----------------------------------------------------------------------------
(* Steps of the machine.                                                   *)

Current == Head(stack)

At(what) == status = "running" /\ stack # <<>> /\ Current.do = what

(* Go on with these items, then with what was under the current one.       *)
Goto(items) == stack' = items \o Tail(stack) /\ UNCHANGED <<program, status, output>>

Return == Goto(<<>>)

Throw(exception) ==
  /\ status' = exception
  /\ UNCHANGED <<program, envVars, tmpResult, flags, stack, output>>

(* Slip: the failure of an operator is not noticed.                         *)
DeliverAnything(outcomes) ==
  \E o \in outcomes : tmpResult' = o /\ Return /\ UNCHANGED <<envVars, flags>>

(* An operator leaves its value in _tmp_result or throws.                  *)
Deliver(outcomes) ==
  \E o \in outcomes :
    IF o.tag = "error"
    THEN Throw(o.error)
    ELSE tmpResult' = o /\ Return /\ UNCHANGED <<envVars, flags>>

IsEmpty == tmpResult = Nothing
TmpValue == ExtractValue(tmpResult, store)

Holds(name) == Env!FindVariable(name) # Env!NoHolder

(* Slip: a break does not end the block it is in.                           *)
ShouldExitCodeBlockUnlessBroken == isReturning \/ onContinue

ShouldExitCodeBlock == isReturning \/ onBreak \/ onContinue

(* _evaluate_condition throws unless the condition is a bool.              *)
IsCondition == ~IsEmpty /\ TmpValue.type = BoolType

SetCondition(items) ==
  /\ conditionMet' = TmpValue.val
  /\ tmpResult' = Nothing
  /\ Goto(items)
  /\ UNCHANGED <<envVars, isReturning, insideLoop, onBreak>>

-----------------------------------------------------------------------------
(* Program.                                                                *)

VisitFunctionDefinition ==
  /\ At("FunctionDefinition")
  /\ IF Current.name \in DOMAIN functions
     THEN Throw("AlreadyDefined")
     ELSE /\ Env!RegisterFunction(Current.name, GlobalFunction(Current))
          /\ Return
          /\ UNCHANGED <<tmpResult, flags>>

MainType == FunctionType(<<>>, IntType)

ExecuteMain ==
  /\ At("ExecuteMain")
  /\ CASE "main" \notin DOMAIN functions -> Throw("MissingMainFunc")
       [] "main" \in DOMAIN functions /\ functions["main"].type # MainType -> Throw("InvalidMainFunc")
       [] OTHER ->
            /\ Env!CallingFunction(IntType)
            /\ Goto(<<[do |-> "Call", func |-> functions["main"], args |-> <<>>], [do |-> "CallEnd"]>>)
            /\ UNCHANGED <<tmpResult, flags>>

-----------------------------------------------------------------------------
(* Expressions.                                                            *)

(* Accept a child node first; the current method resumes as "rest".        *)
Visit(node, rest) ==
  /\ Goto(<<node, rest>>)
  /\ UNCHANGED <<envVars, tmpResult, flags>>

VisitLiteral ==
  /\ At("Literal")
  /\ tmpResult' = ValueArg(Current.value)
  /\ Return
  /\ UNCHANGED <<envVars, flags>>

(* A global function comes before a variable of the same name.             *)
VisitIdentifier ==
  /\ At("Identifier")
  /\ IF Current.name \in DOMAIN functions
     THEN tmpResult' = ValueArg(functions[Current.name]) /\ Return /\ UNCHANGED <<envVars, flags>>
     ELSE IF Holds(Current.name)
     THEN tmpResult' = HolderArg(Env!FindVariable(Current.name)) /\ Return /\ UNCHANGED <<envVars, flags>>
     ELSE Throw("UnknownIdentifier")

(* _get_arg_list: evaluate the expressions in turn, then go on with the     *)
(* item "then", whose field args receives what they gave.                   *)
ArgList(exprs, got, then) ==
  IF exprs = <<>>
  THEN <<[then EXCEPT !.args = got]>>
  ELSE <<Head(exprs), [do |-> "Argument", rest |-> Tail(exprs), got |-> got, then |-> then]>>

CollectArgument ==
  /\ At("Argument")
  /\ IF IsEmpty
     THEN Throw("ExpectedEvaluableExpr")
     ELSE /\ Goto(ArgList(Current.rest, Append(Current.got, tmpResult), Current.then))
          /\ UNCHANGED <<envVars, tmpResult, flags>>

VisitFunctionCall ==
  /\ At("FunctionCall")
  /\ Visit(Current.callee, [do |-> "Callee", args |-> Current.args])

GetArguments ==
  /\ At("Callee")
  /\ IF ~IsCallable(tmpResult, store)
     THEN Throw("RequiredFunction")
     ELSE /\ Goto(ArgList(Current.args, <<>>, [do |-> "Invoke", func |-> TmpValue, args |-> <<>>]))
          /\ UNCHANGED <<envVars, tmpResult, flags>>

Invoke ==
  /\ At("Invoke")
  /\ IF ~ArgsMatchParams(Current.args, Current.func.type.params, store)
     THEN Throw("ArgTypesNotMatching")
     ELSE /\ Env!CallingFunction(Current.func.type.ret)
          /\ tmpResult' = Nothing
          /\ Goto(<<[do |-> "Call", func |-> Current.func, args |-> Current.args],
                    [do |-> "CallEnd"]>>)
          /\ UNCHANGED flags

(* Slip: a return is not over with the call.                                *)
EndCallStillReturning ==
  /\ At("CallEnd")
  /\ Env!ExitingFunction
  /\ Return
  /\ UNCHANGED <<tmpResult, flags>>

EndCall ==
  /\ At("CallEnd")
  /\ Env!ExitingFunction
  /\ isReturning' = FALSE
  /\ Return
  /\ UNCHANGED <<tmpResult, conditionMet, insideLoop, onContinue, onBreak>>

VisitTypeCast ==
  /\ At("TypeCast")
  /\ Visit(Current.expr, [do |-> "Cast", target |-> Current.target])

ApplyCast ==
  /\ At("Cast")
  /\ IF IsEmpty THEN Throw("CannotCast") ELSE Deliver(AsType(Current.target, TmpValue))

VisitBinary ==
  /\ At("Binary")
  /\ Visit(Current.left, [do |-> "RightOperand", kind |-> Current.kind, right |-> Current.right])

VisitRightOperand ==
  /\ At("RightOperand")
  /\ IF IsEmpty
     THEN Throw("ExpectedEvaluableExpr")
     ELSE /\ tmpResult' = Nothing
          /\ Goto(<<Current.right, [do |-> "Operator", kind |-> Current.kind, left |-> TmpValue]>>)
          /\ UNCHANGED <<envVars, flags>>

ApplyBinary ==
  /\ At("Operator")
  /\ IF IsEmpty
     THEN Throw("ExpectedEvaluableExpr")
     ELSE Deliver(EvaluateBinary(Current.kind, Current.left, TmpValue))

VisitUnary ==
  /\ At("Unary")
  /\ Visit(Current.expr, [do |-> "UnaryOperator", kind |-> Current.kind])

ApplyUnary ==
  /\ At("UnaryOperator")
  /\ IF IsEmpty
     THEN Throw("ExpectedEvaluableExpr")
     ELSE Deliver(EvaluateUnary(Current.kind, TmpValue))

VisitBindFront ==
  /\ At("BindFront")
  /\ Goto(ArgList(Current.args, <<>>, [do |-> "BindTarget", target |-> Current.target, args |-> <<>>]))
  /\ UNCHANGED <<envVars, tmpResult, flags>>

VisitBindTarget ==
  /\ At("BindTarget")
  /\ Visit(Current.target, [do |-> "Bind", args |-> Current.args])

ApplyBindFront ==
  /\ At("Bind")
  /\ IF ~IsCallable(tmpResult, store)
     THEN Throw("RequiredFunction")
     ELSE Deliver(BindFrontFunction(TmpValue, Current.args, store))

-----------------------------------------------------------------------------
(* Callable::call.                                                         *)

Calling(impl) == At("Call") /\ Current.func.val.impl = impl

CallGlobal ==
  /\ Calling("global")
  /\ LET def == Current.func.val.def
     IN  Goto([i \in DOMAIN Current.args |->
                 [do |-> "Parameter", param |-> def.params[i], arg |-> Current.args[i]]]
              \o <<def.body>>)
  /\ UNCHANGED <<envVars, tmpResult, flags>>

BindParameter ==
  /\ At("Parameter")
  /\ Env!BindParam(Current.param.name, Current.param.vt, Current.arg)
  /\ Return
  /\ UNCHANGED <<tmpResult, flags>>

CallBuiltin ==
  /\ Calling("builtin")
  /\ LET name == Current.func.val.name
         args == [i \in DOMAIN Current.args |-> ExtractValue(Current.args[i], store)]
     IN  /\ tmpResult' \in BuiltinResults(name, args)
         /\ output' = output \o Printed(name, args)
  /\ stack' = Tail(stack)
  /\ UNCHANGED <<program, status, envVars, flags>>

CallBindFront ==
  /\ Calling("bindFront")
  /\ Goto(<<[do |-> "Call", func |-> Current.func.val.target,
             args |-> Current.func.val.bound \o Current.args]>>)
  /\ UNCHANGED <<envVars, tmpResult, flags>>

(* Each half of a composition has a frame of its own, above the frame of    *)
(* the call.                                                                *)
CallComposed ==
  /\ Calling("composed")
  /\ Env!CallingFunction(Current.func.val.first.type.ret)
  /\ Goto(<<[do |-> "Call", func |-> Current.func.val.first, args |-> Current.args],
            [do |-> "HalfEnd"],
            [do |-> "SecondHalf", second |-> Current.func.val.second]>>)
  /\ UNCHANGED <<tmpResult, flags>>

EndHalf ==
  /\ At("HalfEnd")
  /\ Env!ExitingFunction
  /\ Return
  /\ UNCHANGED <<tmpResult, flags>>

CallSecondHalf ==
  /\ At("SecondHalf")
  /\ IF IsEmpty
     THEN Throw("ImplementationError")
     ELSE /\ Env!CallingFunction(Current.second.type.ret)
          /\ tmpResult' = Nothing
          /\ Goto(<<[do |-> "Call", func |-> Current.second, args |-> <<tmpResult>>],
                    [do |-> "HalfEnd"]>>)
          /\ UNCHANGED flags

-----------------------------------------------------------------------------
(* Statements.                                                             *)

NextStatement(statements) ==
  IF statements = <<>>
  THEN <<[do |-> "PopScope"]>>
  ELSE <<Head(statements), [do |-> "StatementEnd", rest |-> Tail(statements)]>>

VisitCodeBlock ==
  /\ At("CodeBlock")
  /\ Env!AddScope
  /\ Goto(NextStatement(Current.statements))
  /\ UNCHANGED <<tmpResult, flags>>

(* Slip: an early exit from a block forgets its scope.                      *)
EndStatementKeepingScope ==
  /\ At("StatementEnd")
  /\ Goto(IF ShouldExitCodeBlock THEN <<>> ELSE NextStatement(Current.rest))
  /\ UNCHANGED <<envVars, tmpResult, flags>>

(* A return, break or continue leaves the rest of the block out.           *)
EndStatement ==
  /\ At("StatementEnd")
  /\ Goto(NextStatement(IF ShouldExitCodeBlock THEN <<>> ELSE Current.rest))
  /\ UNCHANGED <<envVars, tmpResult, flags>>

LeaveCodeBlock ==
  /\ At("PopScope")
  /\ Env!PopScope
  /\ Return
  /\ UNCHANGED <<tmpResult, flags>>

(* Slip: the name is not looked up first.                                   *)
VisitVariableDeclarationOfAnyName ==
  /\ At("VariableDeclaration")
  /\ Visit(Current.expr, [do |-> "Declare", name |-> Current.name, vt |-> Current.vt])

VisitVariableDeclaration ==
  /\ At("VariableDeclaration")
  /\ IF ~Env!CanDefine(Current.name)
     THEN Throw("AlreadyDefined")
     ELSE Visit(Current.expr, [do |-> "Declare", name |-> Current.name, vt |-> Current.vt])

(* The value about to be stored is of the declared type.                   *)
Assignable(type) == ~IsEmpty /\ TmpValue.type = type

DeclareVariable ==
  /\ At("Declare")
  /\ IF ~Assignable(Current.vt.type)
     THEN Throw("AssignTypeMismatch")
     ELSE /\ Env!DeclareVariable(Current.name, Current.vt, TmpValue)
          /\ tmpResult' = Nothing
          /\ Return
          /\ UNCHANGED flags

(* The holder is looked up, and its right checked, before the expression    *)
(* is evaluated.                                                            *)
VisitAssignStatement ==
  /\ At("AssignStatement")
  /\ LET holder == Env!FindVariable(Current.name)
     IN  CASE ~Holds(Current.name) -> Throw("UnknownIdentifier")
           [] Holds(Current.name) /\ ~holder.can -> Throw("CantAssignToImmutable")
           [] OTHER -> Visit(Current.expr, [do |-> "Assign", holder |-> holder])

(* Slip: the result of the expression is not cleared.                       *)
AssignVariableLeavingResult ==
  /\ At("Assign")
  /\ Assignable(store[Current.holder.var].type)
  /\ Env!AssignThrough(Current.holder, TmpValue)
  /\ Return
  /\ UNCHANGED <<tmpResult, flags>>

AssignVariable ==
  /\ At("Assign")
  /\ IF ~Assignable(store[Current.holder.var].type)
     THEN Throw("AssignTypeMismatch")
     ELSE /\ Env!AssignThrough(Current.holder, TmpValue)
          /\ tmpResult' = Nothing
          /\ Return
          /\ UNCHANGED flags

VisitExpressionStatement ==
  /\ At("ExpressionStatement")
  /\ Visit(Current.expr, [do |-> "Discard"])

DiscardResult ==
  /\ At("Discard")
  /\ tmpResult' = Nothing
  /\ Return
  /\ UNCHANGED <<envVars, flags>>

VisitReturnStatement ==
  /\ At("ReturnStatement")
  /\ Goto(Current.optExpr \o <<[do |-> "ReturnResult"]>>)
  /\ UNCHANGED <<envVars, tmpResult, flags>>

(* Slip: a variable is returned by reference.                               *)
ReturnHolder ==
  /\ At("ReturnResult")
  /\ MatchesReturnType(tmpResult, Env!CurFuncRetType, store)
  /\ isReturning' = TRUE
  /\ Return
  /\ UNCHANGED <<envVars, tmpResult, conditionMet, insideLoop, onContinue, onBreak>>

(* A function returns a value, never a reference to a variable.            *)
ReturnResult ==
  /\ At("ReturnResult")
  /\ IF ~MatchesReturnType(tmpResult, Env!CurFuncRetType, store)
     THEN Throw("ReturnTypeMismatch")
     ELSE /\ tmpResult' = IF IsEmpty THEN Nothing ELSE ValueArg(TmpValue)
          /\ isReturning' = TRUE
          /\ Return
          /\ UNCHANGED <<envVars, conditionMet, insideLoop, onContinue, onBreak>>

VisitContinue ==
  /\ At("ContinueStatement")
  /\ IF ~insideLoop
     THEN Throw("LoopStmtOutsideLoop")
     ELSE /\ onContinue' = TRUE
          /\ Return
          /\ UNCHANGED <<envVars, tmpResult, isReturning, conditionMet, insideLoop, onBreak>>

VisitBreak ==
  /\ At("BreakStatement")
  /\ IF ~insideLoop
     THEN Throw("LoopStmtOutsideLoop")
     ELSE /\ onBreak' = TRUE
          /\ Return
          /\ UNCHANGED <<envVars, tmpResult, isReturning, conditionMet, insideLoop, onContinue>>

-----------------------------------------------------------------------------
(* Loops.                                                                  *)

(* Evaluate the condition, then test it.                                   *)
TestLoop(loop) == <<loop.cond, [do |-> "LoopTest", loop |-> loop]>>

VisitForLoop ==
  /\ At("ForLoop")
  /\ Env!AddScope
  /\ insideLoop' = TRUE
  /\ Goto(<<Current.decl>> \o TestLoop(Current))
  /\ UNCHANGED <<tmpResult, isReturning, conditionMet, onContinue, onBreak>>

(* Slip: the continue of the last iteration is still on.                    *)
StartIterationContinuing ==
  /\ At("LoopTest")
  /\ IF ~IsCondition
     THEN Throw("ConditionMustBeBool")
     ELSE /\ SetCondition(IF TmpValue.val
                          THEN <<Current.loop.body, [do |-> "LoopNext", loop |-> Current.loop]>>
                          ELSE <<[do |-> "LoopEnd"]>>)
          /\ UNCHANGED onContinue

StartIteration ==
  /\ At("LoopTest")
  /\ IF ~IsCondition
     THEN Throw("ConditionMustBeBool")
     ELSE IF TmpValue.val
     THEN /\ SetCondition(<<Current.loop.body, [do |-> "LoopNext", loop |-> Current.loop]>>)
          /\ onContinue' = FALSE
     ELSE /\ SetCondition(<<[do |-> "LoopEnd"]>>)
          /\ UNCHANGED onContinue

(* Slip: a continue leaves the update out.                                  *)
EndIterationWithoutUpdate ==
  /\ At("LoopNext")
  /\ Goto(CASE onBreak \/ isReturning -> <<[do |-> "LoopEnd"]>>
            [] ~(onBreak \/ isReturning) /\ onContinue -> TestLoop(Current.loop)
            [] OTHER -> <<Current.loop.update>> \o TestLoop(Current.loop))
  /\ UNCHANGED <<envVars, tmpResult, flags>>

EndIteration ==
  /\ At("LoopNext")
  /\ Goto(IF onBreak \/ isReturning
          THEN <<[do |-> "LoopEnd"]>>
          ELSE <<Current.loop.update>> \o TestLoop(Current.loop))
  /\ UNCHANGED <<envVars, tmpResult, flags>>

(* Slip: the flag stays set.                                                *)
ExitLoopStayingInside ==
  /\ At("LoopEnd")
  /\ Env!PopScope
  /\ onContinue' = FALSE
  /\ onBreak' = FALSE
  /\ Return
  /\ UNCHANGED <<tmpResult, isReturning, conditionMet, insideLoop>>

(* Slip: the break that ended the loop is still on.                         *)
ExitLoopStillBreaking ==
  /\ At("LoopEnd")
  /\ Env!PopScope
  /\ insideLoop' = FALSE
  /\ onContinue' = FALSE
  /\ Return
  /\ UNCHANGED <<tmpResult, isReturning, conditionMet, onBreak>>

(* Slip: the scope of the loop variable stays.                              *)
ExitLoopKeepingScope ==
  /\ At("LoopEnd")
  /\ insideLoop' = FALSE
  /\ onContinue' = FALSE
  /\ onBreak' = FALSE
  /\ Return
  /\ UNCHANGED <<envVars, tmpResult, isReturning, conditionMet>>

ExitLoop ==
  /\ At("LoopEnd")
  /\ Env!PopScope
  /\ insideLoop' = FALSE
  /\ onContinue' = FALSE
  /\ onBreak' = FALSE
  /\ Return
  /\ UNCHANGED <<tmpResult, isReturning, conditionMet>>

-----------------------------------------------------------------------------
(* If, else if, else.                                                      *)

VisitIfStatement ==
  /\ At("IfStatement")
  /\ Visit(Current.cond, [do |-> "IfTest", if |-> Current])

TestIf ==
  /\ At("IfTest")
  /\ IF ~IsCondition
     THEN Throw("ConditionMustBeBool")
     ELSE /\ SetCondition(IF TmpValue.val
                          THEN <<Current.if.body, [do |-> "IfEnd"]>>
                          ELSE <<[do |-> "ElseIfs", rest |-> Current.if.elseIfs,
                                  optElse |-> Current.if.optElse]>>)
          /\ UNCHANGED onContinue

(* Whether a branch ran is read back from _condition_met.                  *)
NextElseIf ==
  /\ At("ElseIfs")
  /\ Goto(CASE conditionMet -> <<[do |-> "IfEnd"]>>
            [] ~conditionMet /\ Current.rest = <<>> -> Current.optElse \o <<[do |-> "IfEnd"]>>
            [] OTHER -> <<Head(Current.rest), [Current EXCEPT !.rest = Tail(@)]>>)
  /\ UNCHANGED <<envVars, tmpResult, flags>>

VisitElseIf ==
  /\ At("ElseIf")
  /\ Visit(Current.cond, [do |-> "ElseIfTest", body |-> Current.body])

TestElseIf ==
  /\ At("ElseIfTest")
  /\ IF ~IsCondition
     THEN Throw("ConditionMustBeBool")
     ELSE SetCondition(IF TmpValue.val THEN <<Current.body>> ELSE <<>>) /\ UNCHANGED onContinue

EndIf ==
  /\ At("IfEnd")
  /\ conditionMet' = FALSE
  /\ Return
  /\ UNCHANGED <<envVars, tmpResult, isReturning, insideLoop, onContinue, onBreak>>

-----------------------------------------------------------------------------

(* The interpreter as constructed.                                         *)
Constructed ==
  /\ Env!Init
  /\ tmpResult = Nothing
  /\ isReturning = FALSE /\ conditionMet = FALSE /\ insideLoop = FALSE
  /\ onContinue = FALSE /\ onBreak = FALSE
  /\ output = <<>>

(* visit(Program): register the functions, then run main.                   *)
VisitProgram(prog) == prog \o <<[do |-> "ExecuteMain"]>>

Init ==
  /\ program \in Programs
  /\ Constructed
  /\ stack = VisitProgram(program)
  /\ status = "running"

Finish ==
  /\ status = "running" /\ stack = <<>>
  /\ status' = "finished"
  /\ UNCHANGED <<program, envVars, tmpResult, flags, stack, output>>

(* The process is over: the interpreter never runs a second program.       *)
Stopped == status # "running" /\ UNCHANGED vars

VisitExpression ==
  \/ VisitLiteral \/ VisitIdentifier \/ VisitFunctionCall \/ GetArguments \/ CollectArgument
  \/ Invoke \/ EndCall \/ VisitTypeCast \/ ApplyCast \/ VisitBinary \/ VisitRightOperand
  \/ ApplyBinary \/ VisitUnary \/ ApplyUnary \/ VisitBindFront \/ VisitBindTarget \/ ApplyBindFront

CallFunction ==
  \/ CallGlobal \/ BindParameter \/ CallBuiltin \/ CallBindFront
  \/ CallComposed \/ EndHalf \/ CallSecondHalf

VisitStatement ==
  \/ VisitCodeBlock \/ EndStatement \/ LeaveCodeBlock
  \/ VisitVariableDeclaration \/ DeclareVariable \/ VisitAssignStatement \/ AssignVariable
  \/ VisitExpressionStatement \/ DiscardResult \/ VisitReturnStatement \/ ReturnResult
  \/ VisitContinue \/ VisitBreak
  \/ VisitForLoop \/ StartIteration \/ EndIteration \/ ExitLoop
  \/ VisitIfStatement \/ TestIf \/ NextElseIf \/ VisitElseIf \/ TestElseIf \/ EndIf

Run == VisitFunctionDefinition \/ ExecuteMain \/ VisitExpression \/ CallFunction \/ VisitStatement \/ Finish

Next == Run \/ Stopped

Spec == Init /\ [][Next]_vars

(* The interpreter is one thread that never waits but for the user's input. *)
FairSpec == Spec /\ WF_vars(Run)
-----------------------------------------------------------------------------
(* Properties.                                                             *)

(* What the items of the stack owe the environment: a call ends by leaving  *)
(* its frame, a block or a loop by dropping its scope.                      *)
FrameOwers == {"CallEnd", "HalfEnd"}
ScopeOwers == {"PopScope", "StatementEnd", "LoopTest", "LoopNext", "LoopEnd"}
LoopOwers == {"LoopTest", "LoopNext", "LoopEnd"}

(* The items of a stack counted from the bottom, where those that wait keep   *)
(* their place, and the call that an item belongs to, by its frame: an item   *)
(* is above the end of its call.                                            *)
Waiting(items, p) == items[Len(items) + 1 - p]
CallOf(items, p) == Cardinality({q \in 1..p : Waiting(items, q).do \in FrameOwers})
Owing(items, k, owers) ==
  {p \in 1..Len(items) : Waiting(items, p).do \in owers /\ CallOf(items, p) = k}

TypeOK ==
  /\ DOMAIN functions \subseteq Names
  /\ tmpResult.tag \in {"nothing", "value", "holder"}
  /\ tmpResult.tag = "value" => WellTyped(tmpResult.value)
  /\ \A a \in DOMAIN store : WellTyped(store[a].value) /\ store[a].value.type = store[a].type
  /\ <<isReturning, conditionMet, insideLoop, onContinue, onBreak>> \in BOOLEAN \X BOOLEAN \X BOOLEAN \X BOOLEAN \X BOOLEAN
  /\ \A i \in DOMAIN callFrames : \A j \in DOMAIN callFrames[i].scopes :
       callFrames[i].scopes[j] \in Env!Scope

(* However a call ends (a return in nested loops and blocks, a break, the    *)
(* end of its body, the first half of a composition), the environment has a  *)
(* frame for each call in progress and, in each of them, a scope for the     *)
(* parameters, each open block and each loop (interpreter.cpp 40-42, 56-65,  *)
(* 168-186, 400-412).                                                        *)
Scopes == [k \in DOMAIN callFrames |-> Len(callFrames[k].scopes)]

Balanced(scopes, items) ==
  /\ Len(scopes) = CallOf(items, Len(items))
  /\ \A k \in DOMAIN scopes : scopes[k] = 1 + Cardinality(Owing(items, k, ScopeOwers))

FramesMatchCalls == status = "running" => Balanced(Scopes, stack)

(* A statement starts with an empty _tmp_result: the "return" without value  *)
(* takes what is there for its result (interpreter.cpp 138-152), and a value *)
(* another statement left behind would be returned.                          *)
NothingLeftBehind ==
  status = "running" /\ stack # <<>> /\ Current.do \in StatementKinds => tmpResult = Nothing

(* What a call leaves in _tmp_result is nothing or a value of its return     *)
(* type, never a holder: the comment of interpreter.cpp 146, for calls of    *)
(* every kind of callable and for every way out of a body.                   *)
ReturnsAreValues ==
  At("CallEnd") =>
    \/ tmpResult = Nothing
    \/ tmpResult.tag = "value" /\ tmpResult.value.type = Env!CurFuncRetType

(* A holder waiting in an argument list or in _tmp_result refers to a        *)
(* variable that exists and has no more rights than its declaration gave,    *)
(* so that arg_matches_param (type_handler.cpp 35-48) judges it rightly.     *)
ArgsOf(item) ==
  CASE item.do = "Argument"                              -> ToSet(item.got)
    [] item.do \in {"Invoke", "Call", "BindTarget", "Bind"} -> ToSet(item.args)
    [] item.do = "Parameter"                             -> {item.arg}
    [] OTHER                                             -> {}

HoldersInFlight ==
  \A arg \in {tmpResult} \cup UNION {ArgsOf(stack[i]) : i \in DOMAIN stack} :
    arg.tag = "holder" => Env!HolderValid(arg.holder, store)

(* A body of a function starts with no return and no break pending: neither  *)
(* flag outlives what it is meant to end (interpreter.cpp 392-394).          *)
NoReturnPending == At("Call") => ~isReturning
NoBreakPending == At("Call") => ~onBreak

(* A return escapes from what it should end: it is pending where a           *)
(* composition calls its second half, or where an if looks for its next      *)
(* branch.                                                                   *)
ReturnEscapes == isReturning /\ (At("SecondHalf") \/ (At("ElseIfs") /\ ~conditionMet))

(* A pending break escapes from the loop it should end where it reaches the  *)
(* end of a call, or where an if looks for its next branch.                  *)
BreakEscapes == onBreak /\ (At("CallEnd") \/ At("HalfEnd") \/ (At("ElseIfs") /\ ~conditionMet))

(* A return ends the call it is in, its loops and its blocks, and nothing    *)
(* else: until one escapes, each body starts with none pending and each      *)
(* statement with an empty _tmp_result (interpreter.cpp 138-152, 312-317).   *)
ReturnsEndTheirCall == []~ReturnEscapes => [](NoReturnPending /\ NothingLeftBehind)

(* A break ends the loop it is in, whatever blocks, ifs and loops are around *)
(* it or before it: until one escapes, each body starts with none pending    *)
(* (interpreter.cpp 161-166, 176-180, 405-412).                              *)
BreaksEndTheirLoop == []~ReturnEscapes /\ []~BreakEscapes => []NoBreakPending

(* Whether a loop is open, in the call in progress or in one that waits.     *)
LoopsIn(items) == \E i \in 1..Len(items) : items[i].do \in LoopOwers

(* "Indicates if currently inside a for-loop." (interpreter.hpp 200): the    *)
(* flag is set exactly while a loop is open.                                *)
InsideLoopIsAccurate == status = "running" => (insideLoop <=> LoopsIn(stack))

(* The flag is accurate at least until a loop ends with another one around   *)
(* it, whichever calls, blocks and exits are in between (interpreter.cpp     *)
(* 400-412).                                                                 *)
LoopEndsInside == At("LoopEnd") /\ LoopsIn(Tail(stack))
InsideLoopUnlessNested == []~LoopEndsInside => []InsideLoopIsAccurate

(* No break and no continue is pending, and none is let through, once the    *)
(* last loop of all the calls in progress has ended (interpreter.cpp         *)
(* 154-166, 405-409).                                                        *)
JumpsHaveALoop == insideLoop \/ onBreak \/ onContinue => LoopsIn(stack)

(* A break or a continue that is accepted belongs to a loop of the function  *)
(* that contains it (interpreter.cpp 154-166).                               *)
LoopStatementsHaveALoop ==
  [][onBreak' \/ onContinue' => onBreak \/ onContinue \/ Owing(stack, CallOf(stack, Len(stack)), LoopOwers) # {}]_vars

(* A variable never hides a global function, nor another one of its scope.   *)
NoNameTaken ==
  [][\A n \in Names :
       callFrames # <<>> /\ Len(callFrames') = Len(callFrames)
         /\ Len(Env!Top.scopes) = Len(callFrames'[Len(callFrames)].scopes)
         /\ Env!Innermost[n] # callFrames'[Len(callFrames)].scopes[Len(Env!Top.scopes)][n]
       => Env!CanDefine(n)]_vars

(* A variable declared without mut keeps the value it was declared with,     *)
(* however the program passes it on, and no variable changes its type or its *)
(* rights (interpreter.cpp 106-131, type_handler.cpp 35-48).                 *)
ConstantsStay == [][Env!NoConstChange]_vars

(* The interpreter keeps to the protocol of Environment, so that what is     *)
(* proved of every behaviour of that protocol holds of every program.        *)
EnvImplemented == Env!Spec

(* Every program of the instance comes to an end.                            *)
Terminates == <>(status # "running")
=============================================================================
