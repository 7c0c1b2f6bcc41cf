----------------------------- MODULE Reference -----------------------------
(***************************************************************************)
(* What a program means, as docs/TKOM-dokumentacja-końcowa.md describes it: *)
(* a big-step semantics in which return, break and continue are outcomes   *)
(* of a statement, handed to the construct they belong to, and not flags   *)
(* of the whole interpreter.  The operators and the checks of types are    *)
(* those of the interpreter; its control and its environment are not.      *)
(*                                                                         *)
(* A state is [program, functions, store, output].  An environment maps    *)
(* each visible variable to its holder, and knows the names declared in    *)
(* the current scope, the return type and whether a loop is around.  An    *)
(* outcome tells how a node ended ("next", "break", "continue", "return"   *)
(* or "error"), with what result, and the environment and state after it.  *)
(***************************************************************************)
EXTENDS Conversions, Ast, SequencesExt

LOCAL Ends(how, result, env, s) == [how |-> how, result |-> result, env |-> env, state |-> s]
LOCAL Gives(result, env, s) == Ends("next", result, env, s)
LOCAL Raises(error, env, s) == Ends("error", error, env, s)
LOCAL GivesOne(outcomes, env, s) ==
  LET o == CHOOSE o \in outcomes : TRUE
  IN  IF o.tag = "error" THEN Raises(o.error, env, s) ELSE Gives(o, env, s)

(* Sequencing: what follows is left out when the first does not just end.   *)
LOCAL Then(out, Rest(_, _)) == IF out.how = "next" THEN Rest(out.result, out.state) ELSE out

LOCAL Declared(env, name, holder) ==
  [env EXCEPT !.visible = (name :> holder) @@ @, !.own = @ \cup {name}]

LOCAL Declare(vt, name, v, env, s) ==
  Gives(Nothing, Declared(env, name, [var |-> Len(s.store) + 1, can |-> vt.mutable]),
        [s EXCEPT !.store = Append(@, [type |-> vt.type, mutable |-> vt.mutable, value |-> v])])

(* A parameter is a variable of its own, or another name for the variable    *)
(* that is its argument.                                                    *)
LOCAL BindOne(param, arg, env, s) ==
  IF arg.tag = "holder"
  THEN Gives(Nothing, Declared(env, param.name, [var |-> arg.holder.var, can |-> param.vt.mutable]), s)
  ELSE Declare(param.vt, param.name, arg.value, env, s)

LOCAL BindAll(def, args, s) ==
  FoldLeft(LAMBDA out, i : BindOne(def.params[i], args[i], out.env, out.state),
           Gives(Nothing, [visible |-> <<>>, own |-> {}, ret |-> def.ret, loop |-> FALSE], s),
           [i \in DOMAIN args |-> i])

-----------------------------------------------------------------------------

RECURSIVE Mean(_, _, _)

(* An expression that must have a value; one of a type; a condition.        *)
LOCAL ValueOf(e, error, env, s) ==
  Then(Mean(e, env, s), LAMBDA x, t : IF x = Nothing THEN Raises(error, env, t) ELSE Gives(x, env, t))

LOCAL TypedValueOf(e, type, error, env, s) ==
  Then(ValueOf(e, error, env, s), LAMBDA x, t :
    LET v == ExtractValue(x, t.store)
    IN  IF v.type = type THEN Gives(v, env, t) ELSE Raises(error, env, t))

LOCAL FunctionOf(e, env, s) ==
  Then(Mean(e, env, s), LAMBDA x, t :
    IF IsCallable(x, t.store) THEN Gives(ExtractValue(x, t.store), env, t)
                              ELSE Raises("RequiredFunction", env, t))

(* The arguments in turn, as a sequence.                                    *)
LOCAL Arguments(exprs, env, s) ==
  FoldLeft(LAMBDA out, e :
             Then(out, LAMBDA got, t :
               Then(ValueOf(e, "ExpectedEvaluableExpr", env, t), LAMBDA x, u : Gives(Append(got, x), env, u))),
           Gives(<<>>, env, s), exprs)

LOCAL Apply(f, args) == [do |-> "Apply", func |-> f, args |-> args]

LOCAL CallBody(def, args, env, s) ==
  LET bound == BindAll(def, args, s)
      end   == Mean(def.body, bound.env, bound.state)
  IN  CASE end.how = "return" -> Gives(end.result, env, end.state)
        [] end.how = "next"   -> Gives(Nothing, env, end.state)
        [] OTHER              -> end

(* The two functions of a composition one after the other: the first must    *)
(* give the value the second takes.                                         *)
LOCAL Applied(f, args, env, s) ==
  CASE f.val.impl = "bindFront" -> Mean(Apply(f.val.target, f.val.bound \o args), env, s)
    [] f.val.impl = "composed" ->
         Then(Mean(Apply(f.val.first, args), env, s),
              LAMBDA x, t : IF x = Nothing THEN Raises("ExpectedEvaluableExpr", env, t)
                                           ELSE Mean(Apply(f.val.second, <<x>>), env, t))
    [] f.val.impl = "builtin" ->
         LET values == [i \in DOMAIN args |-> ExtractValue(args[i], s.store)]
         IN  GivesOne(BuiltinResults(f.val.name, values), env,
                      [s EXCEPT !.output = @ \o Printed(f.val.name, values)])
    [] f.val.impl = "global" ->
         CallBody(f.val.def, args, env, s)

(* A function of the parameters that are left; a variable that is bound      *)
(* gives the value it has now.                                              *)
LOCAL Bound(f, args, env, s) ==
  LET params == f.type.params
      given  == Len(args)
  IN  CASE given > Len(params) -> Raises("TooManyArgsToBind", env, s)
        [] given <= Len(params) /\ ~ArgsMatchParams(args, SubSeq(params, 1, given), s.store)
             -> Raises("ArgTypesNotMatching", env, s)
        [] OTHER ->
             Gives(ValueArg([type |-> FunctionType(SubSeq(params, given + 1, Len(params)), f.type.ret),
                             val |-> [impl |-> "bindFront", target |-> f,
                                      bound |-> [i \in 1..given |-> ValueArg(ExtractValue(args[i], s.store))]]]),
                   env, s)

(* A block ends at its first statement that does not just end; what it       *)
(* declared is gone.                                                        *)
LOCAL Scoped(out, env) == [out EXCEPT !.env = env]

LOCAL InOrder(statements, env, s) ==
  FoldLeft(LAMBDA out, stmt : IF out.how = "next" THEN Mean(stmt, out.env, out.state) ELSE out,
           Gives(Nothing, [env EXCEPT !.own = {}], s), statements)

(* One iteration and those after it.  A loop keeps the break and the         *)
(* continue of its body to itself; a return or an error goes further.        *)
LOCAL Iteration(loop, env, s) ==
  Then(TypedValueOf(loop.cond, BoolType, "ConditionMustBeBool", env, s), LAMBDA met, t :
    LET body == Mean(loop.body, env, t)
    IN  CASE ~met.val -> Gives(Nothing, env, t)
          [] met.val /\ body.how = "break" -> Gives(Nothing, env, body.state)
          [] met.val /\ body.how \in {"return", "error"} -> body
          [] OTHER -> Then(Mean(loop.update, env, body.state), LAMBDA x, u : Mean(loop, env, u)))

(* The first branch whose condition holds, or the else: how is "untaken"     *)
(* as long as none was found.                                               *)
LOCAL Branch(stmt, env, s) ==
  LET Try(out, branch) ==
        IF out.how # "untaken"
        THEN out
        ELSE Then(TypedValueOf(branch.cond, BoolType, "ConditionMustBeBool", env, out.state), LAMBDA met, t :
               IF met.val THEN Mean(branch.body, env, t) ELSE Ends("untaken", Nothing, env, t))
      tried == FoldLeft(Try, Ends("untaken", Nothing, env, s),
                        <<[cond |-> stmt.cond, body |-> stmt.body]>> \o stmt.elseIfs)
  IN  CASE tried.how # "untaken" -> tried
        [] tried.how = "untaken" /\ stmt.optElse = <<>> -> Gives(Nothing, env, tried.state)
        [] OTHER -> Mean(stmt.optElse[1], env, tried.state)

LOCAL Assigned(stmt, holder, env, s) ==
  IF ~holder.can
  THEN Raises("CantAssignToImmutable", env, s)
  ELSE Then(TypedValueOf(stmt.expr, s.store[holder.var].type, "AssignTypeMismatch", env, s),
            LAMBDA v, t : Gives(Nothing, env, [t EXCEPT !.store[holder.var].value = v]))

LOCAL Returned(optExpr, env, s) ==
  Then(IF optExpr = <<>> THEN Gives(Nothing, env, s) ELSE Mean(optExpr[1], env, s), LAMBDA x, t :
    CASE ~MatchesReturnType(x, env.ret, t.store) -> Raises("ReturnTypeMismatch", env, t)
      [] MatchesReturnType(x, env.ret, t.store) /\ x = Nothing -> Ends("return", x, env, t)
      [] OTHER -> Ends("return", ValueArg(ExtractValue(x, t.store)), env, t))

LOCAL InLoop(how, env, s) ==
  IF env.loop THEN Ends(how, Nothing, env, s) ELSE Raises("LoopStmtOutsideLoop", env, s)

Mean(node, env, s) ==
  CASE node.do = "Literal" -> Gives(ValueArg(node.value), env, s)
    [] node.do = "Identifier" ->
         CASE node.name \in DOMAIN s.functions -> Gives(ValueArg(s.functions[node.name]), env, s)
           [] node.name \in DOMAIN env.visible \ DOMAIN s.functions
                -> Gives(HolderArg(env.visible[node.name]), env, s)
           [] OTHER -> Raises("UnknownIdentifier", env, s)
    [] node.do = "FunctionCall" ->
         Then(FunctionOf(node.callee, env, s), LAMBDA f, t :
           Then(Arguments(node.args, env, t), LAMBDA args, u :
             IF ArgsMatchParams(args, f.type.params, u.store)
             THEN Mean(Apply(f, args), env, u)
             ELSE Raises("ArgTypesNotMatching", env, u)))
    [] node.do = "Apply" -> Applied(node.func, node.args, env, s)
    [] node.do = "TypeCast" ->
         Then(ValueOf(node.expr, "CannotCast", env, s),
              LAMBDA x, t : GivesOne(AsType(node.target, ExtractValue(x, t.store)), env, t))
    [] node.do = "Binary" ->
         Then(ValueOf(node.left, "ExpectedEvaluableExpr", env, s), LAMBDA x, t :
           LET l == ExtractValue(x, t.store)
           IN  Then(ValueOf(node.right, "ExpectedEvaluableExpr", env, t), LAMBDA y, u :
                 GivesOne(EvaluateBinary(node.kind, l, ExtractValue(y, u.store)), env, u)))
    [] node.do = "Unary" ->
         Then(ValueOf(node.expr, "ExpectedEvaluableExpr", env, s),
              LAMBDA x, t : GivesOne(EvaluateUnary(node.kind, ExtractValue(x, t.store)), env, t))
    [] node.do = "BindFront" ->
         Then(Arguments(node.args, env, s), LAMBDA args, t :
           Then(FunctionOf(node.target, env, t),
                LAMBDA f, u : Bound(f, args, env, u)))
    [] node.do = "CodeBlock" -> Scoped(InOrder(node.statements, env, s), env)
    [] node.do = "VariableDeclaration" ->
         IF node.name \in DOMAIN s.functions \cup env.own
         THEN Raises("AlreadyDefined", env, s)
         ELSE Then(TypedValueOf(node.expr, node.vt.type, "AssignTypeMismatch", env, s),
                   LAMBDA v, t : Declare(node.vt, node.name, v, env, t))
    [] node.do = "AssignStatement" ->
         IF node.name \in DOMAIN env.visible
         THEN Assigned(node, env.visible[node.name], env, s)
         ELSE Raises("UnknownIdentifier", env, s)
    [] node.do = "ExpressionStatement" ->
         Then(Mean(node.expr, env, s), LAMBDA x, t : Gives(Nothing, env, t))
    [] node.do = "ReturnStatement" -> Returned(node.optExpr, env, s)
    [] node.do = "BreakStatement" -> InLoop("break", env, s)
    [] node.do = "ContinueStatement" -> InLoop("continue", env, s)
    [] node.do = "ForLoop" ->
         LET decl == Mean(node.decl, [env EXCEPT !.own = {}, !.loop = TRUE], s)
         IN  Scoped(Then(decl, LAMBDA x, t : Mean([node EXCEPT !.do = "Iteration"], decl.env, t)), env)
    [] node.do = "Iteration" -> Iteration(node, env, s)
    [] node.do = "IfStatement" -> Scoped(Branch(node, env, s), env)

-----------------------------------------------------------------------------

(* The whole program: its functions, then main.                            *)
LOCAL NamesOf(prog) == {prog[i].name : i \in DOMAIN prog}
LOCAL GlobalFunctions(prog) ==
  [n \in NamesOf(prog) |-> GlobalFunction(prog[CHOOSE i \in DOMAIN prog : prog[i].name = n])]

Meaning(prog) ==
  LET s == [program |-> prog, functions |-> GlobalFunctions(prog) @@ BuiltinTable,
            store |-> <<>>, output |-> <<>>]
      main == s.functions["main"]
      redefines == Cardinality(NamesOf(prog)) # Len(prog) \/ NamesOf(prog) \cap DOMAIN BuiltinTable # {}
  IN  CASE redefines -> Raises("AlreadyDefined", <<>>, s)
        [] ~redefines /\ "main" \notin NamesOf(prog) -> Raises("MissingMainFunc", <<>>, s)
        [] ~redefines /\ "main" \in NamesOf(prog) /\ main.type # FunctionType(<<>>, IntType)
             -> Raises("InvalidMainFunc", <<>>, s)
        [] OTHER -> Mean(Apply(main, <<>>), <<>>, s)
=============================================================================
