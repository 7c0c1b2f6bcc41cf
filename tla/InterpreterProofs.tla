------------------------- MODULE InterpreterProofs -------------------------
(***************************************************************************)
(* What holds in every state of the interpreter, for every program, every  *)
(* range of int and every table of the conversions.                        *)
(***************************************************************************)
EXTENDS Trees, InterpreterLemmas

-----------------------------------------------------------------------------
(* Function values: a built-in function, one of the program, the composition *)
(* of two that compose, or one with values bound to its first parameters.    *)

IsParams(params) == IsSeq(params) /\ \A i \in 1..Len(params) : params[i].mutable \in BOOLEAN

BindsTo(bound, params) ==
  /\ IsSeq(bound) /\ Len(bound) <= Len(params)
  /\ \A i \in 1..Len(bound) : bound[i] = ValueArg(bound[i].value) /\ bound[i].value.type = params[i].type

MadeOf(f, G) ==
  /\ f.type = FunctionType(f.type.params, f.type.ret)
  /\ IsParams(f.type.params)
  /\ \/ \E name \in DOMAIN BuiltinTable : f = BuiltinTable[name]
     \/ \E def : IsDefinition(def) /\ f = GlobalFunction(def)
     \/ \E l, r \in G : CanCompose(l, r) /\ f = ComposedFunction(l, r)
     \/ \E target \in G : \E bound :
          /\ BindsTo(bound, target.type.params)
          /\ \A i \in 1..Len(bound) : IsScalar(bound[i].value) \/ bound[i].value \in G
          /\ f = BoundFunction(target, bound)

IsFunction(f) == \E G : f \in G /\ \A g \in G : MadeOf(g, G)
IsLegal(v) == IsScalar(v) \/ IsFunction(v)

LEMMA MadeOfMore ==
  ASSUME NEW f, NEW G, NEW H, MadeOf(f, G), G \subseteq H
  PROVE  MadeOf(f, H)
<1>1. CASE \E name \in DOMAIN BuiltinTable : f = BuiltinTable[name]
  BY <1>1 DEF MadeOf
<1>2. CASE \E def : IsDefinition(def) /\ f = GlobalFunction(def)
  BY <1>2 DEF MadeOf
<1>3. CASE \E l, r \in G : CanCompose(l, r) /\ f = ComposedFunction(l, r)
  BY <1>3 DEF MadeOf
<1>4. CASE \E target \in G : \E bound :
             /\ BindsTo(bound, target.type.params)
             /\ \A i \in 1..Len(bound) : IsScalar(bound[i].value) \/ bound[i].value \in G
             /\ f = BoundFunction(target, bound)
  BY <1>4 DEF MadeOf
<1> QED
  BY <1>1, <1>2, <1>3, <1>4 DEF MadeOf

LEMMA FunctionFrom ==
  ASSUME NEW f, NEW G, MadeOf(f, G), \A g \in G : MadeOf(g, G)
  PROVE  IsFunction(f)
<1>1. \A g \in G \cup {f} : MadeOf(g, G \cup {f})
  BY MadeOfMore
<1> QED
  BY <1>1 DEF IsFunction

(* The parts of a function value.                                            *)
LEMMA FunctionHasType ==
  ASSUME NEW f, IsFunction(f)
  PROVE  /\ f.type = FunctionType(f.type.params, f.type.ret)
         /\ f.type.kind = "FUNCTION"
         /\ IsParams(f.type.params)
         /\ WellTyped(f) /\ ~IsScalar(f)
<1>1. f.type = FunctionType(f.type.params, f.type.ret) /\ IsParams(f.type.params)
  BY DEF IsFunction, MadeOf
<1>2. f.type.kind = "FUNCTION"
  BY <1>1 DEF FunctionType
<1> QED
  BY <1>1, <1>2, ScalarTypes DEF WellTyped

LEMMA LegalIsTyped ==
  ASSUME NEW v, IsLegal(v)
  PROVE  /\ WellTyped(v)
         /\ v.type.kind = "FUNCTION" => IsFunction(v)
         /\ v.type.kind # "FUNCTION" => IsScalar(v)
BY FunctionHasType, ScalarTypes DEF IsLegal, WellTyped

LEMMA BuiltinsKnowTheirName ==
  \A name \in DOMAIN BuiltinTable :
    BuiltinTable[name].val = [impl |-> "builtin", name |-> name]
BY DEF BuiltinTable, Builtin

LEMMA FunctionParts ==
  ASSUME NEW f, IsFunction(f)
  PROVE  /\ f.val.impl = "builtin" => f.val.name \in DOMAIN BuiltinTable /\ f = BuiltinTable[f.val.name]
         /\ f.val.impl = "global" => IsDefinition(f.val.def) /\ f = GlobalFunction(f.val.def)
         /\ f.val.impl = "composed" =>
              /\ IsFunction(f.val.first) /\ IsFunction(f.val.second)
              /\ CanCompose(f.val.first, f.val.second)
              /\ f = ComposedFunction(f.val.first, f.val.second)
         /\ f.val.impl = "bindFront" =>
              /\ IsFunction(f.val.target)
              /\ BindsTo(f.val.bound, f.val.target.type.params)
              /\ \A i \in 1..Len(f.val.bound) : IsLegal(f.val.bound[i].value)
              /\ f = BoundFunction(f.val.target, f.val.bound)
         /\ f.val.impl \in {"builtin", "global", "composed", "bindFront"}
<1>1. PICK G : f \in G /\ \A g \in G : MadeOf(g, G)
  BY DEF IsFunction
<1>2. \A g \in G : IsFunction(g)
  BY <1>1 DEF IsFunction
<1>3. CASE \E name \in DOMAIN BuiltinTable : f = BuiltinTable[name]
  <2>1. PICK name \in DOMAIN BuiltinTable : f = BuiltinTable[name]
    BY <1>3
  <2>2. f.val.impl = "builtin" /\ f.val.name = name
    <3>1. f.val = [impl |-> "builtin", name |-> name]
      BY <2>1, BuiltinsKnowTheirName, Zenon
    <3> QED
      BY <3>1
  <2>3. f = BuiltinTable[f.val.name] /\ f.val.name \in DOMAIN BuiltinTable
    BY <2>1, <2>2
  <2> QED
    BY <2>2, <2>3
<1>4. CASE \E def : IsDefinition(def) /\ f = GlobalFunction(def)
  BY <1>4 DEF GlobalFunction
<1>5. CASE \E l, r \in G : CanCompose(l, r) /\ f = ComposedFunction(l, r)
  BY <1>2, <1>5 DEF ComposedFunction
<1>6. CASE \E target \in G : \E bound :
             /\ BindsTo(bound, target.type.params)
             /\ \A i \in 1..Len(bound) : IsScalar(bound[i].value) \/ bound[i].value \in G
             /\ f = BoundFunction(target, bound)
  BY <1>2, <1>6 DEF BoundFunction, IsLegal
<1> QED
  BY <1>1, <1>3, <1>4, <1>5, <1>6 DEF MadeOf

(* The ways to make one.                                                     *)
LEMMA BuiltinIsFunction == ASSUME NEW name \in DOMAIN BuiltinTable PROVE IsFunction(BuiltinTable[name])
<1> DEFINE f == BuiltinTable[name]
<1>1. name \in {"print", "round", "input", "is_int", "is_float", "lower", "upper", "capitalized"}
  BY DEF BuiltinTable
<1>2. \A paramTypes, ret : IsSeq(paramTypes) =>
        LET g == Builtin(name, paramTypes, ret)
        IN  g.type = FunctionType(g.type.params, g.type.ret) /\ IsParams(g.type.params)
  <2> SUFFICES ASSUME NEW paramTypes, NEW ret, IsSeq(paramTypes)
               PROVE  LET g == Builtin(name, paramTypes, ret)
                      IN  g.type = FunctionType(g.type.params, g.type.ret) /\ IsParams(g.type.params)
    OBVIOUS
  <2> DEFINE params == [i \in DOMAIN paramTypes |-> VariableType(paramTypes[i], FALSE)]
  <2>1. Len(paramTypes) \in Nat /\ DOMAIN paramTypes = 1..Len(paramTypes)
    BY SeqParts
  <2>2. IsSeq(params) /\ Len(params) = Len(paramTypes)
    BY <2>1, SeqMade
  <2>3. IsParams(params)
    BY <2>1, <2>2 DEF IsParams, VariableType
  <2> QED
    BY <2>3 DEF Builtin, FunctionType
<1>3. \E paramTypes, ret : IsSeq(paramTypes) /\ f = Builtin(name, paramTypes, ret)
  <2>1. IsSeq(<<>>)
    BY DEF IsSeq
  <2> QED
    BY <1>1, <2>1, SeqSingle, SeqPair DEF BuiltinTable
<1>4. f.type = FunctionType(f.type.params, f.type.ret) /\ IsParams(f.type.params)
  BY <1>2, <1>3
<1>5. MadeOf(f, {})
  BY <1>4 DEF MadeOf
<1> QED
  BY <1>5, FunctionFrom

LEMMA GlobalIsFunction ==
  ASSUME NEW def, IsDefinition(def)
  PROVE  IsFunction(GlobalFunction(def))
<1> DEFINE f == GlobalFunction(def)
           params == [i \in DOMAIN def.params |-> def.params[i].vt]
<1>1. IsSeq(def.params)
  BY DEF IsDefinition, IsSeq
<1>2. Len(def.params) \in Nat /\ DOMAIN def.params = 1..Len(def.params)
  BY <1>1, SeqParts
<1>3. IsSeq(params) /\ Len(params) = Len(def.params)
  BY <1>2, SeqMade
<1>4. IsParams(params)
  BY <1>2, <1>3 DEF IsParams, IsDefinition
<1>5. f.type = FunctionType(params, def.ret)
  BY DEF GlobalFunction, SignatureType
<1>6. f.type = FunctionType(f.type.params, f.type.ret) /\ IsParams(f.type.params)
  BY <1>4, <1>5 DEF FunctionType
<1>7. MadeOf(f, {})
  BY <1>6 DEF MadeOf
<1> QED
  BY <1>7, FunctionFrom

LEMMA ComposedIsFunction ==
  ASSUME NEW l, NEW r, IsFunction(l), IsFunction(r), CanCompose(l, r)
  PROVE  IsFunction(ComposedFunction(l, r))
<1> DEFINE f == ComposedFunction(l, r)
<1>1. PICK G : l \in G /\ \A g \in G : MadeOf(g, G)
  BY DEF IsFunction
<1>2. PICK H : r \in H /\ \A g \in H : MadeOf(g, H)
  BY DEF IsFunction
<1>3. \A g \in G \cup H : MadeOf(g, G \cup H)
  BY <1>1, <1>2, MadeOfMore
<1>4. f.type = FunctionType(l.type.params, r.type.ret)
  BY DEF ComposedFunction, ComposedFuncType
<1>5. f.type = FunctionType(f.type.params, f.type.ret) /\ IsParams(f.type.params)
  <2>1. f.type.params = l.type.params /\ f.type.ret = r.type.ret
    BY <1>4 DEF FunctionType
  <2>2. IsParams(l.type.params)
    BY FunctionHasType
  <2> QED
    BY <1>4, <2>1, <2>2
<1>6. MadeOf(f, G \cup H)
  BY <1>1, <1>2, <1>5 DEF MadeOf
<1> QED
  BY <1>3, <1>6, FunctionFrom

LEMMA BoundIsFunction ==
  ASSUME NEW target, NEW bound, IsFunction(target), BindsTo(bound, target.type.params),
         \A i \in 1..Len(bound) : IsLegal(bound[i].value)
  PROVE  IsFunction(BoundFunction(target, bound))
<1> DEFINE f == BoundFunction(target, bound)
           params == target.type.params
           Closed(G) == \A g \in G : MadeOf(g, G)
           Below(i) == CHOOSE G : Closed(G) /\ (bound[i].value \in G \/ IsScalar(bound[i].value))
           H == UNION {Below(i) : i \in 1..Len(bound)}
<1>1. PICK G : target \in G /\ Closed(G)
  BY DEF IsFunction
<1>2. \A i \in 1..Len(bound) : \E F : Closed(F) /\ (bound[i].value \in F \/ IsScalar(bound[i].value))
  BY <1>1 DEF IsLegal, IsFunction
<1>3. \A i \in 1..Len(bound) : Closed(Below(i)) /\ (bound[i].value \in Below(i) \/ IsScalar(bound[i].value))
  BY <1>2
<1>4. Closed(H)
  <2> SUFFICES ASSUME NEW i \in 1..Len(bound), NEW g \in Below(i)
               PROVE  MadeOf(g, H)
    OBVIOUS
  <2>1. MadeOf(g, Below(i)) /\ Below(i) \subseteq H
    BY <1>3
  <2> QED
    BY <2>1, MadeOfMore
<1>5. Closed(G \cup H)
  <2> HIDE DEF H
  <2> QED
    BY <1>1, <1>4, MadeOfMore
<1>6. \A i \in 1..Len(bound) : IsScalar(bound[i].value) \/ bound[i].value \in G \cup H
  BY <1>3
<1>7. f.type = FunctionType(SubSeq(params, Len(bound) + 1, Len(params)), target.type.ret)
  BY DEF BoundFunction, BindFrontFuncType
<1>8. IsParams(SubSeq(params, Len(bound) + 1, Len(params)))
  <2>1. IsParams(params) /\ Len(bound) \in Nat /\ Len(bound) <= Len(params) /\ Len(params) \in Nat
    BY FunctionHasType, SeqParts DEF IsParams, BindsTo
  <2> QED
    BY <2>1, SeqSub DEF IsParams
<1>9. f.type = FunctionType(f.type.params, f.type.ret) /\ IsParams(f.type.params)
  BY <1>7, <1>8 DEF FunctionType
<1>10. MadeOf(f, G \cup H)
  BY <1>1, <1>6, <1>9 DEF MadeOf
<1> QED
  BY <1>5, <1>10, FunctionFrom
-----------------------------------------------------------------------------
(* The inductive invariant.                                                  *)

(* What an argument, or a result, is in a store.                             *)
IsArg(arg, st) ==
  \/ arg = ValueArg(arg.value) /\ IsLegal(arg.value)
  \/ arg = HolderArg(arg.holder) /\ arg.holder \in Env!Holder /\ Env!HolderValid(arg.holder, st)

IsResult(arg, st) == arg = Nothing \/ IsArg(arg, st)

AreArgs(args, st) == IsSeq(args) /\ \A i \in 1..Len(args) : IsArg(args[i], st)

(* What goes on with the arguments when they are all there.                  *)
TakesArgs(item) ==
  \/ item = [do |-> "Invoke", func |-> item.func, args |-> item.args] /\ IsFunction(item.func)
  \/ item = [do |-> "BindTarget", target |-> item.target, args |-> item.args] /\ item.target \in Expressions

(* What an item of the stack carries, in a store.                            *)
IsItem(x, st) ==
  /\ x.do \in ExpressionKinds => x \in Expressions
  /\ x.do \in StatementKinds \cup {"ElseIf"} => x \in Statements
  /\ x.do = "FunctionDefinition" => IsDefinition(x)
  /\ x.do = "Argument" => x.rest \in Seq(Expressions) /\ AreArgs(x.got, st) /\ TakesArgs(x.then)
  /\ x.do = "Callee" => x.args \in Seq(Expressions)
  /\ x.do \in {"Invoke", "Call"} => IsFunction(x.func) /\ AreArgs(x.args, st)
  /\ x.do = "Call" => ArgsMatchParams(x.args, x.func.type.params, st)
  /\ x.do = "RightOperand" => x.kind \in BinaryKinds /\ x.right \in Expressions
  /\ x.do = "Operator" => x.kind \in BinaryKinds /\ IsLegal(x.left)
  /\ x.do = "BindTarget" => x.target \in Expressions /\ AreArgs(x.args, st)
  /\ x.do = "Bind" => AreArgs(x.args, st)
  /\ x.do = "Parameter" =>
       /\ x.param.name \in Names /\ x.param.vt.mutable \in BOOLEAN
       /\ IsArg(x.arg, st) /\ ArgMatchesParam(x.arg, x.param.vt, st)
  /\ x.do = "SecondHalf" => IsFunction(x.second) /\ Len(x.second.type.params) = 1
  /\ x.do = "StatementEnd" => x.rest \in Seq(NestedStatements)
  /\ x.do = "Declare" => x.name \in Names /\ x.vt.mutable \in BOOLEAN
  /\ x.do = "Assign" => x.holder \in Env!Holder /\ Env!HolderValid(x.holder, st) /\ x.holder.can
  /\ x.do \in {"LoopTest", "LoopNext"} => x.loop \in Statements /\ x.loop.do = "ForLoop"
  /\ x.do = "IfTest" => x.if \in Statements /\ x.if.do = "IfStatement"
  /\ x.do = "ElseIfs" =>
       /\ x = [do |-> "ElseIfs", rest |-> x.rest, optElse |-> x.optElse]
       /\ x.rest \in Seq(ElseIfs) /\ x.optElse \in AtMostOne(Blocks)
  /\ x.do = "ElseIfTest" => x.body \in Blocks

AreItems(items, st) == IsSeq(items) /\ \A i \in 1..Len(items) : IsItem(items[i], st)

(* Which item may wait right below which: one that leaves a result above one  *)
(* that takes it, a call above its end.                                      *)
Leaving == ExpressionKinds \cup
  {"Argument", "Callee", "Invoke", "CallEnd", "Cast", "RightOperand", "Operator", "UnaryOperator", "BindTarget", "Bind"}
Taking ==
  {"Argument", "Callee", "Cast", "RightOperand", "Operator", "UnaryOperator", "Bind",
   "Declare", "Assign", "Discard", "ReturnResult", "LoopTest", "IfTest", "ElseIfTest"}

MayFollow(above, below) ==
  /\ above \in Leaving => below \in Taking
  /\ above \in {"Call", "SecondHalf"} => below \in FrameOwers
  /\ above = "HalfEnd" => below \in FrameOwers \cup {"SecondHalf"}
  /\ below = "SecondHalf" => above = "HalfEnd"
  /\ below # "Call"

InOrder(items) == \A i \in 1..(Len(items) - 1) : MayFollow(items[i].do, items[i + 1].do)

Starting(items) ==
  /\ items # <<>> /\ items[Len(items)].do = "ExecuteMain"
  /\ \A i \in 1..(Len(items) - 1) : items[i].do = "FunctionDefinition"
Underway(items) ==
  /\ items # <<>> => items[Len(items)].do = "CallEnd"
  /\ \A i \in 1..Len(items) : items[i].do \notin {"FunctionDefinition", "ExecuteMain"}

IsVariable(x) ==
  /\ x = [type |-> x.type, mutable |-> x.mutable, value |-> x.value]
  /\ x.mutable \in BOOLEAN
  /\ IsLegal(x.value) /\ x.value.type = x.type

IsStore(st) == IsSeq(st) /\ \A a \in 1..Len(st) : IsVariable(st[a])

(* A scope maps each name to no holder, or to one of a variable that exists,   *)
(* with no more rights than it was declared with.                            *)
IsScope(scope, st) ==
  /\ scope \in Env!Scope
  /\ \A n \in Names : scope[n] = Env!NoHolder \/ Env!HolderValid(scope[n], st)

IsFrame(frame, st) ==
  /\ frame = [scopes |-> frame.scopes, ret |-> frame.ret]
  /\ IsSeq(frame.scopes)
  /\ \A j \in 1..Len(frame.scopes) : IsScope(frame.scopes[j], st)

AreFrames(frames, st) == IsSeq(frames) /\ \A k \in 1..Len(frames) : IsFrame(frames[k], st)

(* Where no expression is evaluated, _tmp_result is what the function returns. *)
Returns(result, type) == result = Nothing \/ (result = ValueArg(result.value) /\ result.value.type = type)

Between == StatementKinds \cup
  {"ElseIf", "PopScope", "StatementEnd", "LoopNext", "LoopEnd", "IfEnd", "ElseIfs", "CallEnd", "HalfEnd", "Parameter"}

(* What the next item finds in _tmp_result.                                  *)
ResultAt(x, result, ret) ==
  /\ x.do \in Between => Returns(result, ret)
  /\ x.do = "Call" => result = Nothing /\ ret = x.func.type.ret
  /\ x.do = "SecondHalf" => Returns(result, x.second.type.params[1].type) /\ ret = x.second.type.ret

ResultFits ==
  /\ Starting(stack) => tmpResult = Nothing
  /\ stack # <<>> => ResultAt(Current, tmpResult, Env!CurFuncRetType)

FlagsAreBoolean ==
  /\ isReturning \in BOOLEAN /\ conditionMet \in BOOLEAN /\ insideLoop \in BOOLEAN
  /\ onContinue \in BOOLEAN /\ onBreak \in BOOLEAN

FunctionsOK ==
  /\ DOMAIN functions \subseteq Names
  /\ \A n \in DOMAIN functions : IsFunction(functions[n])

EnvironmentOK == FunctionsOK /\ IsStore(store) /\ AreFrames(callFrames, store)

StackOK ==
  /\ AreItems(stack, store)
  /\ InOrder(stack)
  /\ Starting(stack) \/ Underway(stack)
  /\ Balanced(Scopes, stack)
  /\ HalvesFit(callFrames, stack)

IInv == EnvironmentOK /\ StackOK /\ IsResult(tmpResult, store) /\ ResultFits /\ FlagsAreBoolean
-----------------------------------------------------------------------------
(* What is known of a store stays true when it grows.                        *)
Grows(st, st2) ==
  /\ IsStore(st) /\ IsStore(st2)
  /\ Len(st) <= Len(st2)
  /\ \A a \in 1..Len(st) : st2[a].type = st[a].type /\ st2[a].mutable = st[a].mutable

LEMMA HolderGrows ==
  ASSUME NEW st, NEW st2, Grows(st, st2), NEW h, Env!HolderValid(h, st)
  PROVE  Env!HolderValid(h, st2) /\ st2[h.var].type = st[h.var].type
<1>1. /\ Len(st) \in Nat /\ Len(st2) \in Nat /\ Len(st) <= Len(st2)
      /\ DOMAIN st = 1..Len(st) /\ DOMAIN st2 = 1..Len(st2)
  BY SeqParts DEF Grows, IsStore, IsVariable
<1>2. h.var \in 1..Len(st) /\ h.var \in 1..Len(st2)
  BY <1>1 DEF Env!HolderValid
<1>3. st2[h.var].type = st[h.var].type /\ st2[h.var].mutable = st[h.var].mutable
  BY <1>2 DEF Grows
<1> QED
  BY <1>1, <1>2, <1>3 DEF Env!HolderValid

LEMMA ArgGrows ==
  ASSUME NEW st, NEW st2, Grows(st, st2), NEW arg, IsArg(arg, st)
  PROVE  IsArg(arg, st2) /\ ArgType(arg, st2) = ArgType(arg, st)
<1>1. CASE arg = ValueArg(arg.value) /\ IsLegal(arg.value)
  <2>1. arg.tag = "value"
    BY <1>1 DEF ValueArg
  <2> QED
    BY <1>1, <2>1 DEF IsArg, ArgType
<1>2. CASE arg = HolderArg(arg.holder) /\ arg.holder \in Env!Holder /\ Env!HolderValid(arg.holder, st)
  <2>1. arg.tag = "holder"
    BY <1>2 DEF HolderArg
  <2>2. Env!HolderValid(arg.holder, st2) /\ st2[arg.holder.var].type = st[arg.holder.var].type
    BY <1>2, HolderGrows
  <2> QED
    BY <1>2, <2>1, <2>2 DEF IsArg, ArgType
<1> QED
  BY <1>1, <1>2 DEF IsArg

LEMMA ArgsGrow ==
  ASSUME NEW st, NEW st2, Grows(st, st2), NEW args, AreArgs(args, st)
  PROVE  /\ AreArgs(args, st2)
         /\ \A params : ArgsMatchParams(args, params, st) => ArgsMatchParams(args, params, st2)
<1>1. IsSeq(args) /\ DOMAIN args = 1..Len(args)
  BY SeqParts DEF AreArgs
<1>2. \A i \in 1..Len(args) : IsArg(args[i], st2) /\ ArgType(args[i], st2) = ArgType(args[i], st)
  BY ArgGrows DEF AreArgs
<1> QED
  BY <1>1, <1>2 DEF AreArgs, ArgsMatchParams, ArgMatchesParam

LEMMA ItemGrows ==
  ASSUME NEW st, NEW st2, Grows(st, st2), NEW x, IsItem(x, st)
  PROVE  IsItem(x, st2)
<1>1. \A args : AreArgs(args, st) =>
        /\ AreArgs(args, st2)
        /\ \A params : ArgsMatchParams(args, params, st) => ArgsMatchParams(args, params, st2)
  BY ArgsGrow
<1>2. \A arg, param : IsArg(arg, st) =>
        /\ IsArg(arg, st2)
        /\ ArgMatchesParam(arg, param, st) => ArgMatchesParam(arg, param, st2)
  BY ArgGrows DEF ArgMatchesParam
<1>3. \A h : Env!HolderValid(h, st) => Env!HolderValid(h, st2)
  BY HolderGrows
<1> QED
  BY <1>1, <1>2, <1>3 DEF IsItem

LEMMA SameStoreGrows == ASSUME NEW st, IsStore(st) PROVE Grows(st, st)
BY SeqParts DEF Grows, IsStore, IsVariable

-----------------------------------------------------------------------------
(* What a variable, a temporary value or a result is worth.                  *)

LEMMA ArgValue ==
  ASSUME NEW st, IsStore(st), NEW arg, IsArg(arg, st)
  PROVE  /\ IsLegal(ExtractValue(arg, st))
         /\ ArgType(arg, st) = ExtractValue(arg, st).type
         /\ arg # Nothing
         /\ arg.tag \in {"value", "holder"}
         /\ arg.tag = "value" => arg = ValueArg(arg.value) /\ IsLegal(arg.value)
         /\ arg.tag = "holder" => arg.holder \in Env!Holder /\ Env!HolderValid(arg.holder, st)
<1>1. CASE arg = ValueArg(arg.value) /\ IsLegal(arg.value)
  <2>1. arg.tag = "value" /\ arg # Nothing
    BY <1>1 DEF ValueArg, Nothing
  <2> QED
    BY <1>1, <2>1 DEF ExtractValue, ArgType
<1>2. CASE arg = HolderArg(arg.holder) /\ arg.holder \in Env!Holder /\ Env!HolderValid(arg.holder, st)
  <2>1. arg.tag = "holder" /\ arg # Nothing
    BY <1>2 DEF HolderArg, Nothing
  <2>2. arg.holder.var \in 1..Len(st)
    BY <1>2, SeqParts DEF IsStore, IsVariable, Env!HolderValid
  <2>3. IsLegal(st[arg.holder.var].value) /\ st[arg.holder.var].value.type = st[arg.holder.var].type
    BY <2>2 DEF IsStore, IsVariable
  <2> QED
    BY <1>2, <2>1, <2>3 DEF ExtractValue, ArgType
<1> QED
  BY <1>1, <1>2 DEF IsArg

LEMMA ValueIsArg == ASSUME NEW v, IsLegal(v), NEW st PROVE IsArg(ValueArg(v), st) /\ IsResult(ValueArg(v), st)
BY DEF IsArg, IsResult, ValueArg

LEMMA ResultGrows ==
  ASSUME NEW st, NEW st2, Grows(st, st2), NEW r, IsResult(r, st)
  PROVE  IsResult(r, st2)
BY ArgGrows DEF IsResult

LEMMA ResultIsArg == ASSUME NEW r, NEW st, IsResult(r, st), r # Nothing PROVE IsArg(r, st)
BY DEF IsResult
-----------------------------------------------------------------------------
(* The frames, when one is pushed or dropped, and when the scopes of the top  *)
(* one change.                                                              *)

LEMMA EmptyIsScope == ASSUME NEW st PROVE IsScope(Env!EmptyScope, st)
BY DEF IsScope, Env!EmptyScope, Env!Scope, Env!NoHolder, Env!Holder

LEMMA FramesGrow ==
  ASSUME NEW st, NEW st2, Grows(st, st2), NEW frames, AreFrames(frames, st)
  PROVE  AreFrames(frames, st2)
BY HolderGrows DEF AreFrames, IsFrame, IsScope

LEMMA FramePushed ==
  ASSUME NEW st, NEW frames, AreFrames(frames, st), NEW frame, IsFrame(frame, st),
         NEW frames2, frames2 = Append(frames, frame)
  PROVE  /\ AreFrames(frames2, st)
         /\ Len(frames2) = Len(frames) + 1
         /\ \A k \in 1..Len(frames) : frames2[k] = frames[k]
         /\ frames2[Len(frames2)] = frame
<1>1. IsSeq(frames) /\ Len(frames) \in Nat
  BY SeqParts DEF AreFrames
<1>2. /\ IsSeq(frames2) /\ Len(frames2) = Len(frames) + 1
      /\ \A k \in 1..Len(frames2) : frames2[k] = IF k <= Len(frames) THEN frames[k] ELSE frame
  BY <1>1, SeqAppend
<1>3. frames2[Len(frames2)] = frame
  BY <1>1, <1>2
<1>4. \A k \in 1..Len(frames) : frames2[k] = frames[k]
  BY <1>1, <1>2
<1>5. AreFrames(frames2, st)
  BY <1>2 DEF AreFrames
<1> QED
  BY <1>2, <1>3, <1>4, <1>5

LEMMA FrameDropped ==
  ASSUME NEW st, NEW frames, AreFrames(frames, st), Len(frames) > 0,
         NEW frames2, frames2 = SubSeq(frames, 1, Len(frames) - 1)
  PROVE  /\ AreFrames(frames2, st)
         /\ Len(frames2) = Len(frames) - 1
         /\ \A k \in 1..Len(frames2) : frames2[k] = frames[k]
<1>1. IsSeq(frames) /\ Len(frames) \in Nat /\ Len(frames) - 1 \in Nat /\ Len(frames) - 1 <= Len(frames)
  BY SeqParts DEF AreFrames
<1>2. /\ IsSeq(frames2) /\ Len(frames2) = Len(frames) - 1
      /\ \A k \in 1..Len(frames2) : frames2[k] = frames[1 + k - 1]
  <2> DEFINE m == Len(frames) - 1
  <2>1. /\ IsSeq(frames2) /\ Len(frames2) = (IF 1 <= m THEN m - 1 + 1 ELSE 0)
        /\ \A k \in 1..Len(frames2) : frames2[k] = frames[1 + k - 1]
    <3>1. m \in Nat /\ m <= Len(frames) /\ frames2 = SubSeq(frames, 1, m)
      BY <1>1
    <3> HIDE DEF m
    <3> QED
      BY <1>1, <3>1, SeqSub
  <2>2. (IF 1 <= m THEN m - 1 + 1 ELSE 0) = m
    <3>1. m \in Nat
      BY <1>1
    <3> HIDE DEF m
    <3>2. 1 <= m => m - 1 + 1 = m
      BY <3>1
    <3>3. ~(1 <= m) => m = 0
      BY <3>1
    <3> QED
      BY <3>2, <3>3, Zenon
  <2> QED
    BY <2>1, <2>2
<1>3. \A k \in 1..Len(frames2) : frames2[k] = frames[k] /\ k \in 1..Len(frames)
  BY <1>1, <1>2
<1> QED
  BY <1>2, <1>3 DEF AreFrames

LEMMA ScopesChanged ==
  ASSUME NEW st, NEW frames, AreFrames(frames, st), Len(frames) > 0,
         NEW scopes, IsSeq(scopes), \A j \in 1..Len(scopes) : IsScope(scopes[j], st),
         NEW frames2, DOMAIN frames2 = DOMAIN frames, frames2 = [k \in DOMAIN frames2 |-> frames2[k]],
         \A k \in DOMAIN frames :
           frames2[k] = IF k = Len(frames) THEN [scopes |-> scopes, ret |-> frames[k].ret] ELSE frames[k]
  PROVE  /\ AreFrames(frames2, st)
         /\ Len(frames2) = Len(frames)
         /\ \A k \in 1..Len(frames) :
              /\ frames2[k].ret = frames[k].ret
              /\ frames2[k].scopes = IF k = Len(frames) THEN scopes ELSE frames[k].scopes
<1> DEFINE n == Len(frames)
           frame == [scopes |-> scopes, ret |-> frames[n].ret]
<1>1. IsSeq(frames) /\ n \in 1..Len(frames)
  BY SeqParts DEF AreFrames
<1>2. /\ IsSeq(frames2) /\ Len(frames2) = Len(frames)
      /\ \A k \in 1..Len(frames) : frames2[k] = IF k = n THEN frame ELSE frames[k]
  <2>1. Len(frames) \in Nat /\ DOMAIN frames = 1..Len(frames)
    BY <1>1, SeqParts
  <2>2. \A k \in 1..Len(frames) : frames2[k] = IF k = n THEN frame ELSE frames[k]
    BY <2>1
  <2>3. DOMAIN frames2 = 1..Len(frames) /\ frames2 = [k \in 1..Len(frames) |-> frames2[k]]
    BY <2>1
  <2> HIDE DEF n, frame
  <2> QED
    BY <2>1, <2>2, <2>3, SeqMade
<1>3. IsFrame(frame, st)
  BY DEF IsFrame
<1>4. AreFrames(frames2, st)
  BY <1>2, <1>3 DEF AreFrames
<1> QED
  BY <1>2, <1>4

(* A holder that is found is one of a scope of the current frame.            *)
LEMMA FoundIsValid ==
  ASSUME AreFrames(callFrames, store), Len(callFrames) > 0, NEW id \in Names,
         Env!FindVariable(id) # Env!NoHolder
  PROVE  Env!FindVariable(id) \in Env!Holder /\ Env!HolderValid(Env!FindVariable(id), store)
<1> DEFINE scopes == Env!Top.scopes
           having == {i \in DOMAIN scopes : scopes[i][id] # Env!NoHolder}
<1>1. Len(callFrames) \in 1..Len(callFrames)
  BY SeqParts DEF AreFrames
<1>2. IsFrame(Env!Top, store)
  BY <1>1 DEF AreFrames, Env!Top
<1>3. /\ Len(scopes) \in Nat /\ DOMAIN scopes = 1..Len(scopes)
      /\ \A j \in 1..Len(scopes) : IsScope(scopes[j], store)
  BY <1>2, SeqParts DEF IsFrame
<1>4. having # {} /\ having \in SUBSET (1..Len(scopes))
  BY <1>3 DEF Env!FindVariable
<1>5. \E i \in having : \A j \in having : j <= i
  BY <1>3, <1>4, GreatestIndex
<1>6. PICK i \in having : Env!FindVariable(id) = scopes[i][id]
  BY <1>4, <1>5 DEF Env!FindVariable
<1>7. scopes[i] \in Env!Scope /\ (scopes[i][id] = Env!NoHolder \/ Env!HolderValid(scopes[i][id], store))
  BY <1>3, <1>4, <1>6 DEF IsScope
<1> QED
  BY <1>6, <1>7 DEF Env!Scope
-----------------------------------------------------------------------------
(* The store, when a variable is made or assigned.                           *)

LEMMA VariableMade ==
  ASSUME NEW st, IsStore(st),
         NEW made, IsVariable(made),
         NEW st2, st2 = Append(st, made)
  PROVE  /\ Grows(st, st2)
         /\ Len(st2) = Len(st) + 1 /\ Len(st2) \in DOMAIN st2
         /\ st2[Len(st2)].mutable = made.mutable
         /\ \A a \in 1..Len(st) : st2[a] = st[a]
<1>1. IsSeq(st) /\ Len(st) \in Nat
  BY SeqParts DEF IsStore, IsVariable
<1>2. /\ IsSeq(st2) /\ Len(st2) = Len(st) + 1
      /\ \A a \in 1..Len(st2) : st2[a] = IF a <= Len(st) THEN st[a] ELSE made
  BY <1>1, SeqAppend
<1>3. DOMAIN st2 = 1..Len(st2)
  BY <1>2, SeqParts
<1>4. st2[Len(st2)] = made /\ Len(st2) \in DOMAIN st2
  BY <1>1, <1>2, <1>3
<1>5. \A a \in 1..Len(st) : st2[a] = st[a]
  BY <1>1, <1>2
<1>6. IsStore(st2)
  BY <1>2 DEF IsStore, IsVariable
<1> QED
  BY <1>1, <1>2, <1>4, <1>5, <1>6 DEF Grows

LEMMA VariableAssigned ==
  ASSUME NEW st, IsStore(st), NEW target, NEW v, IsLegal(v), v.type = st[target].type,
         NEW st2, st2 = [st EXCEPT ![target].value = v]
  PROVE  /\ Grows(st, st2)
         /\ Len(st2) = Len(st)
         /\ \A a \in 1..Len(st) : a # target => st2[a] = st[a]
<1>1. Len(st) \in Nat /\ DOMAIN st = 1..Len(st)
  BY SeqParts DEF IsStore, IsVariable
<1> DEFINE assigned == [st[target] EXCEPT !.value = v]
<1>2. st2 = [a \in 1..Len(st) |-> IF a = target THEN assigned ELSE st[a]]
  BY <1>1
<1>3. target \in 1..Len(st) => assigned = [type |-> st[target].type, mutable |-> st[target].mutable, value |-> v]
  <2>1. target \in 1..Len(st) =>
          st[target] = [type |-> st[target].type, mutable |-> st[target].mutable, value |-> st[target].value]
    BY DEF IsStore, IsVariable
  <2> QED
    BY <2>1
<1> HIDE DEF assigned
<1>4. IsSeq(st2) /\ Len(st2) = Len(st)
  BY <1>1, <1>2, SeqMade
<1>5. ASSUME NEW a \in 1..Len(st)
      PROVE  /\ st2[a] = [type |-> st2[a].type, mutable |-> st2[a].mutable, value |-> st2[a].value]
             /\ st2[a].mutable \in BOOLEAN
             /\ IsLegal(st2[a].value) /\ st2[a].value.type = st2[a].type
             /\ st2[a].type = st[a].type /\ st2[a].mutable = st[a].mutable
             /\ a # target => st2[a] = st[a]
  <2>1. CASE a = target
    BY <1>2, <1>3, <2>1 DEF IsStore, IsVariable
  <2>2. CASE a # target
    BY <1>2, <2>2 DEF IsStore, IsVariable
  <2> QED
    BY <2>1, <2>2
<1>6. IsStore(st2)
  BY <1>4, <1>5 DEF IsStore, IsVariable
<1> QED
  BY <1>1, <1>4, <1>5, <1>6 DEF Grows

-----------------------------------------------------------------------------
(* The stack: its head, what waits below it, and what may take its place.    *)

Below == Tail(stack)
Registering == {"FunctionDefinition", "ExecuteMain"}

(* What may wait above what an item waited above.                            *)
Replaces(new, old) ==
  /\ new \in Leaving => old \in Leaving
  /\ new \in {"Call", "SecondHalf", "HalfEnd"} => old \in {"Call", "SecondHalf"}
  /\ old # "HalfEnd"

LEMMA StackParts ==
  ASSUME StackOK, stack # <<>>
  PROVE  /\ IsSeq(Below) /\ stack = <<Current>> \o Below /\ Len(stack) = Len(Below) + 1
         /\ Len(Below) \in Nat
         /\ IsItem(Current, store) /\ Current = stack[1]
         /\ \A i \in 1..Len(Below) : IsItem(Below[i], store) /\ Below[i] = stack[i + 1]
         /\ \A i \in 1..Len(Below) : i + 1 \in 1..Len(stack)
         /\ Below # <<>> => MayFollow(Current.do, Below[1].do)
<1>1. IsSeq(stack) /\ \A i \in 1..Len(stack) : IsItem(stack[i], store)
  BY DEF StackOK, AreItems
<1>2. /\ Len(stack) \in Nat /\ DOMAIN stack = 1..Len(stack)
      /\ IsSeq(Below) /\ Len(Below) = Len(stack) - 1 /\ Len(Below) \in Nat
      /\ \A i \in 1..Len(Below) : Below[i] = stack[i + 1]
      /\ Current = stack[1] /\ 1 \in 1..Len(stack)
  BY <1>1, SeqParts, SeqTail DEF Below, Current
<1>3. stack = <<Current>> \o Below
  BY <1>1 DEF IsSeq, Below, Current
<1>4. \A i \in 1..Len(Below) : i + 1 \in 1..Len(stack)
  BY <1>2
<1>5. ASSUME Below # <<>>
      PROVE  MayFollow(Current.do, Below[1].do)
  <2>1. 1 \in 1..(Len(stack) - 1) /\ 1 \in 1..Len(Below)
    BY <1>2, <1>5, SeqParts
  <2> QED
    BY <1>2, <2>1 DEF StackOK, InOrder
<1>6. \A i \in 1..Len(Below) : IsItem(Below[i], store)
  BY <1>1, <1>2, <1>4
<1>7. IsItem(Current, store) /\ Len(stack) = Len(Below) + 1
  BY <1>1, <1>2
<1> QED
  BY <1>2, <1>3, <1>4, <1>5, <1>6, <1>7

LEMMA InProgress ==
  ASSUME StackOK, stack # <<>>, Current.do \notin Registering
  PROVE  /\ Underway(stack)
         /\ \A i \in 1..Len(Below) : Below[i].do \notin Registering
         /\ Current.do # "CallEnd" => Below # <<>>
         /\ Below # <<>> => Below[Len(Below)].do = "CallEnd" /\ CallOf(Below, Len(Below)) > 0
         /\ CallOf(stack, Len(stack)) > 0
<1>1. /\ IsSeq(Below) /\ IsSeq(stack) /\ Len(Below) \in Nat /\ Len(stack) = Len(Below) + 1
      /\ Current = stack[1]
      /\ \A i \in 1..Len(Below) : Below[i] = stack[i + 1] /\ i + 1 \in 1..Len(stack)
  BY StackParts DEF StackOK, AreItems
<1>2. ~Starting(stack)
  <2>1. CASE Len(stack) = 1
    BY <1>1, <2>1 DEF Starting, Registering
  <2>2. CASE Len(stack) # 1
    <3>1. 1 \in 1..(Len(stack) - 1)
      BY <1>1, <2>2
    <3> QED
      BY <1>1, <3>1 DEF Starting, Registering
  <2> QED
    BY <2>1, <2>2
<1>3. Underway(stack)
  BY <1>2 DEF StackOK
<1>4. stack[Len(stack)].do = "CallEnd"
  BY <1>3 DEF Underway
<1>5. Len(Below) = 0 <=> Below = <<>>
  BY <1>1, SeqParts
<1>6. Current.do # "CallEnd" => Below # <<>>
  BY <1>1, <1>4, <1>5
<1>7. ASSUME NEW s, IsSeq(s), s # <<>>, s[Len(s)].do = "CallEnd"
      PROVE  CallOf(s, Len(s)) > 0
  <2>1. Len(s) \in Nat /\ 1 \in 1..Len(s) /\ Len(s) > 0
    BY <1>7, SeqParts
  <2>2. Waiting(s, 1) = s[Len(s)]
    BY <2>1 DEF Waiting
  <2>3. CallOf(s, 1) \in Nat /\ CallOf(s, 1) > 0 /\ CallOf(s, Len(s)) \in Nat /\ CallOf(s, 1) <= CallOf(s, Len(s))
    BY <1>7, <2>1, <2>2, CallsAreCounted DEF FrameOwers
  <2> QED
    BY <2>3
<1>8. Below # <<>> => Below[Len(Below)].do = "CallEnd"
  BY <1>1, <1>4, <1>5
<1>9. \A i \in 1..Len(Below) : Below[i].do \notin Registering
  BY <1>1, <1>3 DEF Underway, Registering
<1> QED
  BY <1>1, <1>3, <1>4, <1>6, <1>7, <1>8, <1>9

LEMMA OrderKept ==
  ASSUME NEW c, NEW items, NEW base, IsSeq(items), IsSeq(base), items # <<>>,
         base # <<>> => MayFollow(c.do, base[1].do), InOrder(items), InOrder(base),
         Replaces(items[Len(items)].do, c.do)
  PROVE  InOrder(items \o base)
<1> DEFINE s == items \o base
<1> SUFFICES ASSUME NEW i \in 1..(Len(s) - 1)
             PROVE  MayFollow(s[i].do, s[i + 1].do)
  BY DEF InOrder
<1>1. /\ Len(items) \in Nat /\ Len(base) \in Nat /\ Len(s) = Len(items) + Len(base) /\ Len(items) # 0
      /\ \A j \in 1..Len(s) : s[j] = IF j <= Len(items) THEN items[j] ELSE base[j - Len(items)]
  BY SeqParts, SeqConcat
<1>2. i \in 1..Len(s) /\ i + 1 \in 1..Len(s)
  BY <1>1
<1>3. CASE i < Len(items)
  <2>1. s[i] = items[i] /\ s[i + 1] = items[i + 1] /\ i \in 1..(Len(items) - 1)
    BY <1>1, <1>2, <1>3
  <2> QED
    BY <2>1 DEF InOrder
<1>4. CASE i = Len(items)
  <2>1. s[i] = items[Len(items)] /\ s[i + 1] = base[1] /\ base # <<>>
    <3>1. Len(base) # 0 /\ i + 1 - Len(items) = 1 /\ ~(i + 1 <= Len(items)) /\ i <= Len(items)
      BY <1>1, <1>4
    <3> QED
      BY <1>1, <1>2, <1>4, <3>1, SeqParts
  <2>2. MayFollow(c.do, base[1].do)
    BY <2>1
  <2> QED
    BY <2>1, <2>2 DEF MayFollow, Replaces
<1>5. CASE i > Len(items)
  <2> DEFINE j == i - Len(items)
  <2>1. j \in 1..(Len(base) - 1) /\ s[i] = base[j] /\ s[i + 1] = base[j + 1]
    <3>1. ~(i <= Len(items)) /\ ~(i + 1 <= Len(items)) /\ i + 1 - Len(items) = j + 1 /\ j \in 1..(Len(base) - 1)
      BY <1>1, <1>5
    <3> QED
      BY <1>1, <1>2, <3>1
  <2> QED
    BY <2>1 DEF InOrder
<1> QED
  BY <1>1, <1>3, <1>4, <1>5
(* What the item below the head finds, when the head leaves a result for it   *)
(* or leaves what its function returns.                                     *)
LEMMA ResultBelow ==
  ASSUME StackOK, stack # <<>>, Below # <<>>, Current.do # "HalfEnd", NEW result, NEW ret,
         Current.do \in Leaving \/ Returns(result, ret)
  PROVE  ResultAt(Below[1], result, ret)
<1>1. MayFollow(Current.do, Below[1].do)
  BY StackParts
<1>2. Below[1].do \notin {"Call", "SecondHalf"}
  BY <1>1 DEF MayFollow
<1>3. Current.do \in Leaving => Below[1].do \notin Between
  BY <1>1 DEF MayFollow, Taking, Between, StatementKinds
<1> QED
  BY <1>2, <1>3 DEF ResultAt

(* The head of the stack gives way to items.                                 *)
LEMMA Step ==
  ASSUME StackOK, stack # <<>>, Current.do \notin Registering, Grows(store, store'),
         NEW items, IsSeq(items), stack' = items \o Below,
         \A i \in 1..Len(items) : IsItem(items[i], store') /\ items[i].do \notin Registering,
         InOrder(items),
         items # <<>> =>
           /\ Current.do # "CallEnd" /\ Replaces(items[Len(items)].do, Current.do)
           /\ ResultAt(items[1], tmpResult', Env!CurFuncRetType'),
         items = <<>> /\ Below # <<>> => ResultAt(Below[1], tmpResult', Env!CurFuncRetType'),
         Balanced(Scopes', stack'), HalvesFit(callFrames', stack')
  PROVE  StackOK' /\ ResultFits'
<1>1. /\ IsSeq(Below) /\ Len(Below) \in Nat
      /\ \A i \in 1..Len(Below) : IsItem(Below[i], store')
  BY StackParts, ItemGrows
<1>2. /\ IsSeq(stack') /\ Len(stack') = Len(items) + Len(Below) /\ Len(items) \in Nat
      /\ \A i \in 1..Len(stack') : stack'[i] = IF i <= Len(items) THEN items[i] ELSE Below[i - Len(items)]
  <2> DEFINE s == items \o Below
  <2>1. /\ IsSeq(s) /\ Len(s) = Len(items) + Len(Below)
        /\ \A i \in 1..Len(s) : s[i] = IF i <= Len(items) THEN items[i] ELSE Below[i - Len(items)]
    BY <1>1, SeqConcat
  <2>2. Len(items) \in Nat /\ stack' = s
    BY SeqParts
  <2> HIDE DEF s
  <2> QED
    BY <2>1, <2>2, Zenon
<1>3. \A i \in 1..Len(stack') : IF i <= Len(items) THEN i \in 1..Len(items) ELSE i - Len(items) \in 1..Len(Below)
  BY <1>1, <1>2
<1>4. AreItems(stack', store')
  BY <1>1, <1>2, <1>3 DEF AreItems
<1>5. InOrder(stack')
  <2>1. InOrder(Below)
    <3>1. \A i \in 1..(Len(Below) - 1) :
            /\ i + 1 \in 1..(Len(stack) - 1)
            /\ Below[i] = stack[i + 1] /\ Below[i + 1] = stack[i + 1 + 1]
      BY StackParts
    <3> QED
      BY <3>1 DEF InOrder, StackOK
  <2>2. CASE items = <<>>
    <3>1. stack' = Below
      BY <1>1, <2>2 DEF IsSeq
    <3> QED
      BY <2>1, <3>1
  <2>3. CASE items # <<>>
    <3>1. Below # <<>> => MayFollow(Current.do, Below[1].do)
      BY StackParts
    <3> QED
      BY <1>1, <2>1, <2>3, <3>1, OrderKept
  <2> QED
    BY <2>2, <2>3
<1>6. Underway(stack')
  <2>1. \A i \in 1..Len(stack') : stack'[i].do \notin Registering
    BY <1>2, <1>3, InProgress
  <2>2. ASSUME stack' # <<>>
        PROVE  stack'[Len(stack')].do = "CallEnd"
    <3>1. Below # <<>>
      <4>1. CASE items = <<>>
        <5>1. stack' = Below
          BY <1>1, <4>1 DEF IsSeq
        <5> QED
          BY <2>2, <5>1
      <4>2. CASE items # <<>>
        BY <4>2, InProgress
      <4> QED
        BY <4>1, <4>2
    <3>2. Len(Below) # 0
      BY <1>1, <3>1, SeqParts
    <3>3. stack'[Len(stack')] = Below[Len(Below)]
      <4>1. Len(stack') \in 1..Len(stack') /\ ~(Len(stack') <= Len(items)) /\ Len(stack') - Len(items) = Len(Below)
        BY <1>1, <1>2, <3>2
      <4> QED
        BY <1>2, <4>1
    <3> QED
      BY <3>1, <3>3, InProgress
  <2> QED
    BY <2>1, <2>2 DEF Underway, Registering
<1>7. StackOK'
  BY <1>4, <1>5, <1>6 DEF StackOK
<1>8. ~Starting(stack')
  BY <1>6 DEF Starting, Underway
<1>9. stack' # <<>> => ResultAt(Head(stack'), tmpResult', Env!CurFuncRetType')
  <2>1. CASE items = <<>>
    <3>1. stack' = Below
      BY <1>1, <2>1 DEF IsSeq
    <3> QED
      BY <1>1, <2>1, <3>1, SeqTail
  <2>2. CASE items # <<>>
    <3>1. Len(items) # 0
      BY <2>2, SeqParts
    <3>2. 1 \in 1..Len(stack') /\ 1 <= Len(items)
      BY <1>1, <1>2, <3>1
    <3>3. stack' # <<>> /\ Head(stack') = stack'[1] /\ stack'[1] = items[1]
      BY <1>2, <3>2, SeqParts, SeqTail
    <3> QED
      BY <2>2, <3>3
  <2> QED
    BY <2>1, <2>2
<1> QED
  BY <1>7, <1>8, <1>9 DEF ResultFits, Current

(* The same, when the environment stays and nothing is owed.                 *)
LEMMA PlainStep ==
  ASSUME EnvironmentOK, StackOK, stack # <<>>, Current.do \notin Registering \cup Owers, UNCHANGED envVars,
         NEW items, IsSeq(items), stack' = items \o Below, Plain(items),
         \A i \in 1..Len(items) : IsItem(items[i], store) /\ items[i].do \notin Registering,
         InOrder(items),
         items # <<>> => /\ Replaces(items[Len(items)].do, Current.do)
                         /\ ResultAt(items[1], tmpResult', Env!CurFuncRetType),
         items = <<>> => Current.do \in Leaving \/ Returns(tmpResult', Env!CurFuncRetType)
  PROVE  EnvironmentOK' /\ StackOK' /\ ResultFits'
<1>1. functions' = functions /\ callFrames' = callFrames /\ store' = store
  BY DEF envVars
<1>2. EnvironmentOK'
  BY <1>1 DEF EnvironmentOK, FunctionsOK
<1>3. Current.do \notin {"CallEnd", "HalfEnd"} \cup ScopeOwers
  BY DEF Owers, FrameOwers
<1>4. Grows(store, store')
  BY <1>1, SameStoreGrows DEF EnvironmentOK
<1>5. /\ IsSeq(Below) /\ stack = <<Current>> \o Below /\ Len(stack) = Len(Below) + 1
      /\ IsSeq(<<Current>>) /\ Plain(<<Current>>)
  BY StackParts, SeqSingle DEF Plain
<1>6. Balanced(Scopes', stack')
  <2>1. Balanced(Scopes, Below)
    BY <1>5, BalancedPlain DEF StackOK
  <2>2. Scopes' = Scopes
    BY <1>1 DEF Scopes
  <2> QED
    BY <1>5, <2>1, <2>2, BalancedPlain
<1>7. HalvesFit(callFrames', stack')
  <2>1. HalvesFit(callFrames, <<Current>> \o Below)
    BY <1>5 DEF StackOK
  <2>2. HalvesFit(callFrames, Below)
    BY <1>5, <2>1, HalvesBelow
  <2>3. \A i \in 1..Len(items) : items[i].do # "HalfEnd"
    BY DEF Plain, Owers, FrameOwers
  <2> QED
    BY <1>1, <1>5, <2>2, <2>3, HalvesAbove
<1>8. Env!CurFuncRetType' = Env!CurFuncRetType
  BY <1>1 DEF Env!CurFuncRetType, Env!Top
<1>9. items = <<>> /\ Below # <<>> => ResultAt(Below[1], tmpResult', Env!CurFuncRetType')
  BY <1>3, <1>8, ResultBelow
<1> QED
  BY <1>1, <1>2, <1>3, <1>4, <1>6, <1>7, <1>8, <1>9, Step
(* ... with nothing, one item, two items or three in its place.              *)
LEMMA Leave ==
  ASSUME EnvironmentOK, StackOK, stack # <<>>, Current.do \notin Registering \cup Owers, UNCHANGED envVars,
         stack' = Below,
         Current.do \in Leaving \/ Returns(tmpResult', Env!CurFuncRetType)
  PROVE  EnvironmentOK' /\ StackOK' /\ ResultFits'
<1> DEFINE items == <<>>
<1>1. IsSeq(items) /\ Len(items) = 0
  BY DEF IsSeq
<1>2. stack' = items \o Below
  BY StackParts DEF IsSeq
<1>3. Plain(items) /\ InOrder(items) /\ \A i \in 1..Len(items) : FALSE
  BY <1>1 DEF Plain, InOrder
<1> QED
  BY <1>1, <1>2, <1>3, PlainStep

MayCome(x) == IsItem(x, store) /\ x.do \notin Registering \cup Owers

LEMMA Become ==
  ASSUME EnvironmentOK, StackOK, stack # <<>>, Current.do \notin Registering \cup Owers, UNCHANGED envVars,
         NEW x, stack' = <<x>> \o Below, MayCome(x), Replaces(x.do, Current.do),
         ResultAt(x, tmpResult', Env!CurFuncRetType)
  PROVE  EnvironmentOK' /\ StackOK' /\ ResultFits'
<1> DEFINE items == <<x>>
<1>1. IsSeq(items) /\ Len(items) = 1 /\ items[1] = x /\ items # <<>>
  BY SeqSingle
<1>2. \A i \in 1..Len(items) : items[i] = x
  BY <1>1
<1> HIDE DEF items
<1>3. Plain(items) /\ InOrder(items)
  BY <1>1, <1>2 DEF Plain, InOrder, MayCome
<1>4. \A i \in 1..Len(items) : IsItem(items[i], store) /\ items[i].do \notin Registering
  BY <1>2 DEF MayCome
<1>5. stack' = items \o Below
  BY DEF items
<1> QED
  BY <1>1, <1>3, <1>4, <1>5, PlainStep

LEMMA Push ==
  ASSUME EnvironmentOK, StackOK, stack # <<>>, Current.do \notin Registering \cup Owers, UNCHANGED envVars,
         NEW x, NEW y, stack' = <<x, y>> \o Below, MayCome(x), MayCome(y),
         MayFollow(x.do, y.do), Replaces(y.do, Current.do),
         ResultAt(x, tmpResult', Env!CurFuncRetType)
  PROVE  EnvironmentOK' /\ StackOK' /\ ResultFits'
<1> DEFINE items == <<x, y>>
<1>1. IsSeq(items) /\ Len(items) = 2 /\ items[1] = x /\ items[2] = y /\ items # <<>>
  BY SeqPair
<1>2. \A i \in 1..Len(items) : items[i] \in {x, y}
  BY <1>1
<1>3. \A i \in 1..(Len(items) - 1) : i = 1
  BY <1>1
<1> HIDE DEF items
<1>4. Plain(items) /\ InOrder(items)
  BY <1>1, <1>2, <1>3 DEF Plain, InOrder, MayCome
<1>5. \A i \in 1..Len(items) : IsItem(items[i], store) /\ items[i].do \notin Registering
  BY <1>2 DEF MayCome
<1>6. stack' = items \o Below
  BY DEF items
<1> QED
  BY <1>1, <1>4, <1>5, <1>6, PlainStep

-----------------------------------------------------------------------------
(* The nodes of a program on the stack.                                      *)

LEMMA ExpressionComes ==
  ASSUME NEW x \in Expressions
  PROVE  /\ IsExpression(x) /\ x.do \in ExpressionKinds
         /\ \A st : IsItem(x, st)
         /\ MayCome(x)
         /\ \A below \in Taking : MayFollow(x.do, below)
         /\ x.do \in Leaving
         /\ \A result, ret : ResultAt(x, result, ret)
<1>1. IsExpression(x) /\ x.do \in ExpressionKinds
  BY ProgramsAreTrees DEF IsExpression
<1>2. \A st : IsItem(x, st)
  BY <1>1 DEF IsItem, ExpressionKinds, StatementKinds
<1>3. x.do \notin Registering \cup Owers
  BY <1>1 DEF ExpressionKinds, Registering, Owers, FrameOwers, ScopeOwers
<1>4. x.do \in Leaving /\ \A below \in Taking : MayFollow(x.do, below)
  BY <1>1 DEF ExpressionKinds, MayFollow, Taking, Leaving
<1>5. \A result, ret : ResultAt(x, result, ret)
  BY <1>1 DEF ResultAt, ExpressionKinds, Between, StatementKinds
<1> QED
  BY <1>1, <1>2, <1>3, <1>4, <1>5 DEF MayCome

LEMMA StatementComes ==
  ASSUME NEW x \in Statements
  PROVE  /\ IsStatement(x) /\ x.do \in StatementKinds \cup {"ElseIf"}
         /\ \A st : IsItem(x, st)
         /\ MayCome(x)
         /\ \A below : below \notin {"Call", "SecondHalf"} => MayFollow(x.do, below)
         /\ \A old : old # "HalfEnd" => Replaces(x.do, old)
         /\ \A result, ret : Returns(result, ret) => ResultAt(x, result, ret)
<1>1. IsStatement(x) /\ x.do \in StatementKinds \cup {"ElseIf"}
  BY ProgramsAreTrees DEF IsStatement
<1>2. \A st : IsItem(x, st)
  BY <1>1 DEF IsItem, ExpressionKinds, StatementKinds
<1>3. x.do \notin Registering \cup Owers
  BY <1>1 DEF StatementKinds, Registering, Owers, FrameOwers, ScopeOwers
<1>4. x.do \notin Leaving \cup {"Call", "SecondHalf", "HalfEnd"}
  BY <1>1 DEF StatementKinds, Leaving, ExpressionKinds
<1>5. \A result, ret : Returns(result, ret) => ResultAt(x, result, ret)
  BY <1>1, <1>4 DEF ResultAt
<1> QED
  BY <1>1, <1>2, <1>3, <1>4, <1>5 DEF MayCome, MayFollow, Replaces
-----------------------------------------------------------------------------
(* Every step keeps the invariant: first, the steps many actions share.      *)

LEMMA Running ==
  ASSUME IInv, NEW what, At(what)
  PROVE  /\ EnvironmentOK /\ StackOK /\ FlagsAreBoolean /\ IsResult(tmpResult, store)
         /\ stack # <<>> /\ Current.do = what /\ IsItem(Current, store)
         /\ ResultAt(Current, tmpResult, Env!CurFuncRetType)
         /\ IsStore(store)
         /\ tmpResult # Nothing => IsArg(tmpResult, store) /\ IsLegal(TmpValue)
BY StackParts, ResultIsArg, ArgValue DEF IInv, At, ResultFits, EnvironmentOK, TmpValue

LEMMA Returned ==
  ASSUME StackOK, stack # <<>>, stack' = <<>> \o Tail(stack)
  PROVE  stack' = Below
BY StackParts DEF Below, IsSeq

LEMMA Thrown ==
  ASSUME IInv, NEW exception, Throw(exception)
  PROVE  IInv'
<1>1. UNCHANGED <<functions, callFrames, store, tmpResult, stack>> /\ UNCHANGED flags
  BY DEF Throw, envVars
<1>2. EnvironmentOK' /\ IsResult(tmpResult, store)' /\ FlagsAreBoolean'
  BY <1>1 DEF IInv, EnvironmentOK, FunctionsOK, FlagsAreBoolean, flags
<1>3. Scopes' = Scopes /\ Env!CurFuncRetType' = Env!CurFuncRetType /\ Current' = Current
  BY <1>1 DEF Scopes, Env!CurFuncRetType, Env!Top, Current
<1>4. StackOK'
  BY <1>1, <1>3 DEF IInv, StackOK
<1>5. ResultFits'
  BY <1>1, <1>3 DEF IInv, ResultFits
<1> QED
  BY <1>2, <1>4, <1>5 DEF IInv

(* A value or a holder is left for the item below.                           *)
LEMMA ResultLeft ==
  ASSUME IInv, stack # <<>>, Current.do \in Leaving \ {"CallEnd"}, Return, UNCHANGED envVars, UNCHANGED flags,
         IsResult(tmpResult', store)
  PROVE  IInv'
<1>1. stack' = Below
  BY Returned DEF IInv, Return, Goto
<1>2. Current.do \notin Registering \cup Owers
  BY DEF Leaving, ExpressionKinds, Registering, Owers, FrameOwers, ScopeOwers
<1>3. EnvironmentOK' /\ StackOK' /\ ResultFits'
  BY <1>1, <1>2, Leave DEF IInv
<1>4. IsResult(tmpResult, store)' /\ FlagsAreBoolean'
  BY DEF IInv, FlagsAreBoolean, flags, envVars
<1> QED
  BY <1>3, <1>4 DEF IInv

IsOutcome(o) == o.tag = "error" \/ (o = ValueArg(o.value) /\ IsLegal(o.value))

LEMMA Delivered ==
  ASSUME IInv, stack # <<>>, Current.do \in Leaving \ {"CallEnd"},
         NEW outcomes, \A o \in outcomes : IsOutcome(o), Deliver(outcomes)
  PROVE  IInv'
<1>1. PICK o \in outcomes :
        IF o.tag = "error"
        THEN Throw(o.error)
        ELSE tmpResult' = o /\ Return /\ UNCHANGED <<envVars, flags>>
  BY DEF Deliver
<1>2. CASE o.tag = "error"
  BY <1>1, <1>2, Thrown
<1>3. CASE o.tag # "error"
  <2>1. IsResult(o, store)
    BY <1>3, ValueIsArg DEF IsOutcome
  <2> QED
    BY <1>1, <1>3, <2>1, ResultLeft
<1> QED
  BY <1>2, <1>3

(* A node is visited before the current item goes on as another.             *)
LEMMA Visited ==
  ASSUME IInv, stack # <<>>, Current.do \notin Registering \cup Owers, NEW x \in Expressions, NEW y,
         stack' = <<x, y>> \o Below, UNCHANGED envVars, UNCHANGED flags, tmpResult' \in {tmpResult, Nothing},
         MayCome(y), y.do \in Taking, Replaces(y.do, Current.do)
  PROVE  IInv'
<1>1. MayCome(x) /\ MayFollow(x.do, y.do) /\ ResultAt(x, tmpResult', Env!CurFuncRetType)
  BY ExpressionComes
<1>2. EnvironmentOK' /\ StackOK' /\ ResultFits'
  BY <1>1, Push DEF IInv
<1>3. IsResult(tmpResult, store)' /\ FlagsAreBoolean'
  BY DEF IInv, FlagsAreBoolean, flags, envVars, IsResult
<1> QED
  BY <1>2, <1>3 DEF IInv

(* The rest of an argument list is evaluated.                                *)
LEMMA ArgumentsGoOn ==
  ASSUME IInv, stack # <<>>, Current.do \in Leaving \ {"CallEnd"},
         NEW exprs \in Seq(Expressions), NEW got, AreArgs(got, store), NEW then, TakesArgs(then),
         stack' = ArgList(exprs, got, then) \o Below, UNCHANGED envVars, UNCHANGED flags, UNCHANGED tmpResult
  PROVE  IInv'
<1>1. Current.do \notin Registering \cup Owers /\ Current.do # "HalfEnd"
  BY DEF Leaving, ExpressionKinds, Registering, Owers, FrameOwers, ScopeOwers
<1>2. CASE exprs = <<>>
  <2> DEFINE x == [then EXCEPT !.args = got]
  <2>1. /\ x.do \in {"Invoke", "BindTarget"} /\ x.args = got
        /\ x.do = "Invoke" => IsFunction(x.func)
        /\ x.do = "BindTarget" => x.target \in Expressions
    BY DEF TakesArgs
  <2>2. stack' = <<x>> \o Below
    BY <1>2 DEF ArgList
  <2> HIDE DEF x
  <2>3. IsItem(x, store)
    BY <2>1 DEF IsItem, ExpressionKinds, StatementKinds
  <2>4. MayCome(x)
    BY <2>1, <2>3 DEF MayCome, Registering, Owers, FrameOwers, ScopeOwers
  <2>5. Replaces(x.do, Current.do)
    BY <1>1, <2>1 DEF Replaces
  <2>6. ResultAt(x, tmpResult', Env!CurFuncRetType)
    BY <2>1 DEF ResultAt, Between, StatementKinds
  <2>7. EnvironmentOK' /\ StackOK' /\ ResultFits'
    BY <1>1, <2>2, <2>4, <2>5, <2>6, Become DEF IInv
  <2>8. IsResult(tmpResult, store)' /\ FlagsAreBoolean'
    BY DEF IInv, FlagsAreBoolean, flags, envVars
  <2> QED
    BY <2>7, <2>8 DEF IInv
<1>3. CASE exprs # <<>>
  <2> DEFINE x == Head(exprs)
             y == [do |-> "Argument", rest |-> Tail(exprs), got |-> got, then |-> then]
  <2>1. x \in Expressions /\ Tail(exprs) \in Seq(Expressions)
    BY <1>3
  <2>2. stack' = <<x, y>> \o Below
    BY <1>3 DEF ArgList
  <2>3. IsItem(y, store)
    BY <2>1 DEF IsItem, ExpressionKinds, StatementKinds
  <2>4. MayCome(y) /\ y.do \in Taking
    BY <2>3 DEF MayCome, Registering, Owers, FrameOwers, ScopeOwers, Taking
  <2>5. Replaces(y.do, Current.do)
    BY <1>1 DEF Replaces
  <2> HIDE DEF x, y
  <2> QED
    BY <1>1, <2>1, <2>2, <2>4, <2>5, Visited
<1> QED
  BY <1>2, <1>3
LEMMA InCall ==
  ASSUME EnvironmentOK, StackOK, stack # <<>>, Current.do \notin Registering
  PROVE  /\ Len(callFrames) \in Nat /\ Len(callFrames) > 0
         /\ IsSeq(Scopes) /\ Len(Scopes) = Len(callFrames)
         /\ Len(callFrames) = CallOf(stack, Len(stack))
<1>1. Len(callFrames) \in Nat /\ DOMAIN callFrames = 1..Len(callFrames)
  BY SeqParts DEF EnvironmentOK, AreFrames
<1>2. IsSeq(Scopes) /\ Len(Scopes) = Len(callFrames)
  BY <1>1, SeqMade DEF Scopes
<1>3. Len(Scopes) = CallOf(stack, Len(stack))
  BY DEF StackOK, Balanced
<1> QED
  BY <1>1, <1>2, <1>3, InProgress

LEMMA ArgAppended ==
  ASSUME NEW st, NEW args, AreArgs(args, st), NEW arg, IsArg(arg, st)
  PROVE  AreArgs(Append(args, arg), st)
<1>1. IsSeq(args) /\ Len(args) \in Nat
  BY SeqParts DEF AreArgs
<1>2. /\ IsSeq(Append(args, arg)) /\ Len(Append(args, arg)) = Len(args) + 1
      /\ \A i \in 1..Len(Append(args, arg)) : Append(args, arg)[i] = IF i <= Len(args) THEN args[i] ELSE arg
  BY <1>1, SeqAppend
<1> QED
  BY <1>1, <1>2 DEF AreArgs

LEMMA CallableIsFunction ==
  ASSUME IsResult(tmpResult, store), IsStore(store), IsCallable(tmpResult, store)
  PROVE  IsFunction(TmpValue)
<1>1. tmpResult # Nothing
  BY DEF IsCallable, Nothing
<1> QED
  BY <1>1, ResultIsArg, ArgValue, LegalIsTyped DEF IsCallable, TmpValue
-----------------------------------------------------------------------------
(* Expressions.                                                              *)

(* An expression on the stack is one of the program's.                       *)
LEMMA AtExpression ==
  ASSUME IInv, NEW what \in ExpressionKinds, At(what)
  PROVE  /\ stack # <<>> /\ Current.do = what /\ IsExpression(Current)
         /\ Current.do \in Leaving \ {"CallEnd"}
         /\ Current.do \notin Registering \cup Owers
         /\ \A new : new \notin {"Call", "SecondHalf", "HalfEnd"} => Replaces(new, Current.do)
<1>1. stack # <<>> /\ Current.do = what /\ IsItem(Current, store)
  BY Running
<1>2. IsExpression(Current)
  BY <1>1, ExpressionComes DEF IsItem
<1>3. Current.do \notin Registering \cup Owers \cup {"HalfEnd", "CallEnd"} /\ Current.do \in Leaving
  BY <1>1 DEF ExpressionKinds, Leaving, Registering, Owers, FrameOwers, ScopeOwers
<1> QED
  BY <1>1, <1>2, <1>3 DEF Replaces

(* ... and so is an item that waits for the result of one, to leave its own. *)
LEMMA AtOperation ==
  ASSUME IInv,
         NEW what \in {"Argument", "Callee", "Cast", "RightOperand", "Operator", "UnaryOperator", "BindTarget", "Bind"},
         At(what)
  PROVE  /\ stack # <<>> /\ Current.do = what /\ IsItem(Current, store)
         /\ Current.do \in Leaving \ {"CallEnd"}
         /\ Current.do \notin Registering \cup Owers
         /\ \A new : new \notin {"Call", "SecondHalf", "HalfEnd"} => Replaces(new, Current.do)
         /\ tmpResult # Nothing => IsArg(tmpResult, store) /\ IsLegal(TmpValue) /\ WellTyped(TmpValue)
<1>1. stack # <<>> /\ Current.do = what /\ IsItem(Current, store)
  BY Running
<1>2. Current.do \notin Registering \cup Owers \cup {"HalfEnd", "CallEnd"} /\ Current.do \in Leaving
  BY <1>1 DEF Leaving, Registering, Owers, FrameOwers, ScopeOwers
<1>3. tmpResult # Nothing => IsArg(tmpResult, store) /\ IsLegal(TmpValue) /\ WellTyped(TmpValue)
  BY Running, LegalIsTyped
<1> QED
  BY <1>1, <1>2, <1>3 DEF Replaces

LEMMA VisitLiteralKeeps == ASSUME IInv, VisitLiteral PROVE IInv'
<1>1. At("Literal") /\ "Literal" \in ExpressionKinds
  BY DEF VisitLiteral, ExpressionKinds
<1>2. IsLegal(Current.value)
  BY <1>1, AtExpression DEF IsExpression, IsLegal
<1>3. IsResult(tmpResult', store)
  BY <1>2, ValueIsArg DEF VisitLiteral
<1> QED
  BY <1>1, <1>3, AtExpression, ResultLeft DEF VisitLiteral

LEMMA VisitIdentifierKeeps == ASSUME IInv, VisitIdentifier PROVE IInv'
<1>1. At("Identifier") /\ "Identifier" \in ExpressionKinds
  BY DEF VisitIdentifier, ExpressionKinds
<1>2. Current.name \in Names
  BY <1>1, AtExpression DEF IsExpression
<1>3. CASE Current.name \in DOMAIN functions
  <2>1. IsLegal(functions[Current.name])
    BY <1>3 DEF IInv, EnvironmentOK, FunctionsOK, IsLegal
  <2>2. IsResult(tmpResult', store)
    BY <1>3, <2>1, ValueIsArg DEF VisitIdentifier
  <2> QED
    BY <1>1, <1>3, <2>2, AtExpression, ResultLeft DEF VisitIdentifier
<1>4. CASE Current.name \notin DOMAIN functions /\ Holds(Current.name)
  <2> DEFINE h == Env!FindVariable(Current.name)
  <2>1. Len(callFrames) > 0
    BY <1>1, AtExpression, InCall DEF IInv
  <2>2. h \in Env!Holder /\ Env!HolderValid(h, store)
    BY <1>2, <1>4, <2>1, FoundIsValid DEF Holds, IInv, EnvironmentOK
  <2>3. IsResult(HolderArg(h), store)
    BY <2>2 DEF IsResult, IsArg, HolderArg
  <2>4. tmpResult' = HolderArg(h) /\ Return /\ UNCHANGED <<envVars, flags>>
    BY <1>4 DEF VisitIdentifier
  <2> QED
    BY <1>1, <2>3, <2>4, AtExpression, ResultLeft
<1>5. CASE Current.name \notin DOMAIN functions /\ ~Holds(Current.name)
  BY <1>5, Thrown DEF VisitIdentifier
<1> QED
  BY <1>3, <1>4, <1>5

LEMMA CollectArgumentKeeps == ASSUME IInv, CollectArgument PROVE IInv'
<1>1. At("Argument")
  BY DEF CollectArgument
<1>2. CASE IsEmpty
  BY <1>2, Thrown DEF CollectArgument
<1>3. CASE ~IsEmpty
  <2>1. IsArg(tmpResult, store)
    BY <1>1, <1>3, AtOperation DEF IsEmpty
  <2>2. Current.rest \in Seq(Expressions) /\ AreArgs(Current.got, store) /\ TakesArgs(Current.then)
    BY <1>1, AtOperation DEF IsItem
  <2>3. AreArgs(Append(Current.got, tmpResult), store)
    BY <2>1, <2>2, ArgAppended
  <2>4. stack' = ArgList(Current.rest, Append(Current.got, tmpResult), Current.then) \o Below
    BY <1>3 DEF CollectArgument, Goto, Below
  <2> QED
    BY <1>1, <1>3, <2>2, <2>3, <2>4, AtOperation, ArgumentsGoOn DEF CollectArgument
<1> QED
  BY <1>2, <1>3

LEMMA VisitFunctionCallKeeps == ASSUME IInv, VisitFunctionCall PROVE IInv'
<1> DEFINE y == [do |-> "Callee", args |-> Current.args]
<1>1. At("FunctionCall") /\ "FunctionCall" \in ExpressionKinds
  BY DEF VisitFunctionCall, ExpressionKinds
<1>2. Current.callee \in Expressions /\ Current.args \in Seq(Expressions)
  BY <1>1, AtExpression DEF IsExpression
<1>3. MayCome(y) /\ y.do \in Taking /\ Replaces(y.do, Current.do)
  BY <1>1, <1>2, AtExpression
     DEF MayCome, IsItem, ExpressionKinds, StatementKinds, Registering, Owers, FrameOwers, ScopeOwers, Taking
<1>4. stack' = <<Current.callee, y>> \o Below /\ UNCHANGED <<envVars, tmpResult, flags>>
  BY DEF VisitFunctionCall, Visit, Goto, Below
<1> HIDE DEF y
<1> QED
  BY <1>1, <1>2, <1>3, <1>4, AtExpression, Visited

LEMMA GetArgumentsKeeps == ASSUME IInv, GetArguments PROVE IInv'
<1> DEFINE then == [do |-> "Invoke", func |-> TmpValue, args |-> <<>>]
<1>1. At("Callee")
  BY DEF GetArguments
<1>2. CASE ~IsCallable(tmpResult, store)
  BY <1>2, Thrown DEF GetArguments
<1>3. CASE IsCallable(tmpResult, store)
  <2>1. IsFunction(TmpValue)
    BY <1>1, <1>3, CallableIsFunction, Running
  <2>2. TakesArgs(then)
    BY <2>1 DEF TakesArgs
  <2>3. Current.args \in Seq(Expressions)
    BY <1>1, AtOperation DEF IsItem
  <2>4. AreArgs(<<>>, store)
    BY DEF AreArgs, IsSeq
  <2>5. stack' = ArgList(Current.args, <<>>, then) \o Below
    BY <1>3 DEF GetArguments, Goto, Below
  <2> HIDE DEF then
  <2> QED
    BY <1>1, <1>3, <2>2, <2>3, <2>4, <2>5, AtOperation, ArgumentsGoOn DEF GetArguments
<1> QED
  BY <1>2, <1>3

LEMMA VisitTypeCastKeeps == ASSUME IInv, VisitTypeCast PROVE IInv'
<1> DEFINE y == [do |-> "Cast", target |-> Current.target]
<1>1. At("TypeCast") /\ "TypeCast" \in ExpressionKinds
  BY DEF VisitTypeCast, ExpressionKinds
<1>2. Current.expr \in Expressions
  BY <1>1, AtExpression DEF IsExpression
<1>3. MayCome(y) /\ y.do \in Taking /\ Replaces(y.do, Current.do)
  BY <1>1, <1>2, AtExpression
     DEF MayCome, IsItem, ExpressionKinds, StatementKinds, Registering, Owers, FrameOwers, ScopeOwers, Taking
<1>4. stack' = <<Current.expr, y>> \o Below /\ UNCHANGED <<envVars, tmpResult, flags>>
  BY DEF VisitTypeCast, Visit, Goto, Below
<1> HIDE DEF y
<1> QED
  BY <1>1, <1>2, <1>3, <1>4, AtExpression, Visited

LEMMA CastGives ==
  ASSUME IInv, At("Cast"), ~IsEmpty
  PROVE  \A o \in AsType(Current.target, TmpValue) : IsOutcome(o)
BY AtOperation, CastIsTyped DEF IsEmpty, GivesScalar, IsOutcome, IsLegal

LEMMA ApplyCastKeeps == ASSUME IInv, ApplyCast PROVE IInv'
<1>1. At("Cast")
  BY DEF ApplyCast
<1>2. CASE IsEmpty
  BY <1>2, Thrown DEF ApplyCast
<1>3. CASE ~IsEmpty
  BY <1>1, <1>3, CastGives, AtOperation, Delivered DEF ApplyCast
<1> QED
  BY <1>2, <1>3
LEMMA VisitBinaryKeeps == ASSUME IInv, VisitBinary PROVE IInv'
<1> DEFINE y == [do |-> "RightOperand", kind |-> Current.kind, right |-> Current.right]
<1>1. At("Binary") /\ "Binary" \in ExpressionKinds
  BY DEF VisitBinary, ExpressionKinds
<1>2. Current.kind \in BinaryKinds /\ Current.left \in Expressions /\ Current.right \in Expressions
  BY <1>1, AtExpression DEF IsExpression
<1>3. MayCome(y) /\ y.do \in Taking /\ Replaces(y.do, Current.do)
  BY <1>1, <1>2, AtExpression
     DEF MayCome, IsItem, ExpressionKinds, StatementKinds, Registering, Owers, FrameOwers, ScopeOwers, Taking
<1>4. stack' = <<Current.left, y>> \o Below /\ UNCHANGED <<envVars, tmpResult, flags>>
  BY DEF VisitBinary, Visit, Goto, Below
<1> HIDE DEF y
<1> QED
  BY <1>1, <1>2, <1>3, <1>4, AtExpression, Visited

LEMMA VisitRightOperandKeeps == ASSUME IInv, VisitRightOperand PROVE IInv'
<1> DEFINE y == [do |-> "Operator", kind |-> Current.kind, left |-> TmpValue]
<1>1. At("RightOperand")
  BY DEF VisitRightOperand
<1>2. CASE IsEmpty
  BY <1>2, Thrown DEF VisitRightOperand
<1>3. CASE ~IsEmpty
  <2>1. Current.kind \in BinaryKinds /\ Current.right \in Expressions
    BY <1>1, AtOperation DEF IsItem
  <2>2. IsLegal(TmpValue)
    BY <1>1, <1>3, AtOperation DEF IsEmpty
  <2>3. MayCome(y) /\ y.do \in Taking /\ Replaces(y.do, Current.do)
    BY <1>1, <2>1, <2>2, AtOperation
       DEF MayCome, IsItem, ExpressionKinds, StatementKinds, Registering, Owers, FrameOwers, ScopeOwers, Taking
  <2>4. stack' = <<Current.right, y>> \o Below /\ tmpResult' = Nothing /\ UNCHANGED <<envVars, flags>>
    BY <1>3 DEF VisitRightOperand, Goto, Below
  <2> HIDE DEF y
  <2> QED
    BY <1>1, <2>1, <2>3, <2>4, AtOperation, Visited
<1> QED
  BY <1>2, <1>3

LEMMA BinaryGives ==
  ASSUME IInv, At("Operator"), ~IsEmpty
  PROVE  \A o \in EvaluateBinary(Current.kind, Current.left, TmpValue) : IsOutcome(o)
<1>1. Current.kind \in BinaryKinds /\ IsLegal(Current.left) /\ WellTyped(Current.left)
  BY AtOperation, LegalIsTyped DEF IsItem
<1>2. IsLegal(TmpValue) /\ WellTyped(TmpValue)
  BY AtOperation DEF IsEmpty
<1> SUFFICES ASSUME NEW o \in EvaluateBinary(Current.kind, Current.left, TmpValue), o.tag # "error"
             PROVE  o = ValueArg(o.value) /\ IsLegal(o.value)
  BY DEF IsOutcome
<1>3. /\ o = ValueArg(o.value)
      /\ \/ IsScalar(o.value)
         \/ /\ Current.left.type.kind = "FUNCTION" /\ TmpValue.type.kind = "FUNCTION"
            /\ CanCompose(Current.left, TmpValue)
            /\ o.value = ComposedFunction(Current.left, TmpValue)
  BY <1>1, <1>2, BinaryIsTyped
<1> QED
  BY <1>1, <1>2, <1>3, LegalIsTyped, ComposedIsFunction DEF IsLegal

LEMMA ApplyBinaryKeeps == ASSUME IInv, ApplyBinary PROVE IInv'
<1>1. At("Operator")
  BY DEF ApplyBinary
<1>2. CASE IsEmpty
  BY <1>2, Thrown DEF ApplyBinary
<1>3. CASE ~IsEmpty
  BY <1>1, <1>3, BinaryGives, AtOperation, Delivered DEF ApplyBinary
<1> QED
  BY <1>2, <1>3

LEMMA VisitUnaryKeeps == ASSUME IInv, VisitUnary PROVE IInv'
<1> DEFINE y == [do |-> "UnaryOperator", kind |-> Current.kind]
<1>1. At("Unary") /\ "Unary" \in ExpressionKinds
  BY DEF VisitUnary, ExpressionKinds
<1>2. Current.expr \in Expressions
  BY <1>1, AtExpression DEF IsExpression
<1>3. MayCome(y) /\ y.do \in Taking /\ Replaces(y.do, Current.do)
  BY <1>1, <1>2, AtExpression
     DEF MayCome, IsItem, ExpressionKinds, StatementKinds, Registering, Owers, FrameOwers, ScopeOwers, Taking
<1>4. stack' = <<Current.expr, y>> \o Below /\ UNCHANGED <<envVars, tmpResult, flags>>
  BY DEF VisitUnary, Visit, Goto, Below
<1> HIDE DEF y
<1> QED
  BY <1>1, <1>2, <1>3, <1>4, AtExpression, Visited

LEMMA UnaryGives ==
  ASSUME IInv, At("UnaryOperator"), ~IsEmpty
  PROVE  \A o \in EvaluateUnary(Current.kind, TmpValue) : IsOutcome(o)
BY AtOperation, UnaryIsTyped DEF IsEmpty, GivesScalar, IsOutcome, IsLegal

LEMMA ApplyUnaryKeeps == ASSUME IInv, ApplyUnary PROVE IInv'
<1>1. At("UnaryOperator")
  BY DEF ApplyUnary
<1>2. CASE IsEmpty
  BY <1>2, Thrown DEF ApplyUnary
<1>3. CASE ~IsEmpty
  BY <1>1, <1>3, UnaryGives, AtOperation, Delivered DEF ApplyUnary
<1> QED
  BY <1>2, <1>3

LEMMA VisitBindFrontKeeps == ASSUME IInv, VisitBindFront PROVE IInv'
<1> DEFINE then == [do |-> "BindTarget", target |-> Current.target, args |-> <<>>]
<1>1. At("BindFront") /\ "BindFront" \in ExpressionKinds
  BY DEF VisitBindFront, ExpressionKinds
<1>2. Current.args \in Seq(Expressions) /\ Current.target \in Expressions
  BY <1>1, AtExpression DEF IsExpression
<1>3. TakesArgs(then)
  BY <1>2 DEF TakesArgs
<1>4. AreArgs(<<>>, store)
  BY DEF AreArgs, IsSeq
<1>5. stack' = ArgList(Current.args, <<>>, then) \o Below /\ UNCHANGED <<envVars, tmpResult, flags>>
  BY DEF VisitBindFront, Goto, Below
<1> HIDE DEF then
<1> QED
  BY <1>1, <1>2, <1>3, <1>4, <1>5, AtExpression, ArgumentsGoOn

LEMMA VisitBindTargetKeeps == ASSUME IInv, VisitBindTarget PROVE IInv'
<1> DEFINE y == [do |-> "Bind", args |-> Current.args]
<1>1. At("BindTarget")
  BY DEF VisitBindTarget
<1>2. Current.target \in Expressions /\ AreArgs(Current.args, store)
  BY <1>1, AtOperation DEF IsItem
<1>3. MayCome(y) /\ y.do \in Taking /\ Replaces(y.do, Current.do)
  BY <1>1, <1>2, AtOperation
     DEF MayCome, IsItem, ExpressionKinds, StatementKinds, Registering, Owers, FrameOwers, ScopeOwers, Taking
<1>4. stack' = <<Current.target, y>> \o Below /\ UNCHANGED <<envVars, tmpResult, flags>>
  BY DEF VisitBindTarget, Visit, Goto, Below
<1> HIDE DEF y
<1> QED
  BY <1>1, <1>2, <1>3, <1>4, AtOperation, Visited

(* Binding keeps the values of the arguments, each of the type of its        *)
(* parameter.                                                               *)
LEMMA BindFrontIsTyped ==
  ASSUME NEW target, IsFunction(target), NEW st, IsStore(st), NEW args, AreArgs(args, st),
         NEW o \in BindFrontFunction(target, args, st), o.tag # "error"
  PROVE  o = ValueArg(o.value) /\ IsFunction(o.value)
<1> DEFINE params == target.type.params
           bound == SubSeq(params, 1, Len(args))
           values == [i \in DOMAIN args |-> ValueArg(ExtractValue(args[i], st))]
<1>1. \A e : o \notin Fails(e)
  BY DEF Fails, Error
<1>2. Len(args) <= Len(params) /\ ArgsMatchParams(args, bound, st) /\ o = ValueArg(BoundFunction(target, values))
  <2>1. /\ Len(args) \in Nat /\ Len(params) \in Nat
    BY FunctionHasType, SeqParts DEF IsParams, AreArgs
  <2>2. ~(Len(args) > Len(params))
    BY <1>1, <2>1 DEF BindFrontFunction
  <2>3. Len(args) <= Len(params)
    BY <2>1, <2>2
  <2>4. ArgsMatchParams(args, bound, st)
    BY <1>1, <2>2, <2>3 DEF BindFrontFunction
  <2>5. o \in Yields(BoundFunction(target, values))
    BY <2>2, <2>3, <2>4 DEF BindFrontFunction
  <2> QED
    BY <2>3, <2>4, <2>5 DEF Yields
<1>3. IsSeq(args) /\ Len(args) \in Nat /\ DOMAIN args = 1..Len(args)
  BY SeqParts DEF AreArgs
<1>4. IsSeq(values) /\ Len(values) = Len(args)
  BY <1>3, SeqMade
<1>5. ASSUME NEW i \in 1..Len(args)
      PROVE  /\ values[i] = ValueArg(values[i].value)
             /\ values[i].value.type = params[i].type
             /\ IsLegal(values[i].value)
  <2>1. values[i] = ValueArg(ExtractValue(args[i], st)) /\ IsArg(args[i], st)
    BY <1>3 DEF AreArgs
  <2>2. values[i].value = ExtractValue(args[i], st)
    BY <2>1 DEF ValueArg
  <2>3. IsLegal(values[i].value) /\ ArgType(args[i], st) = values[i].value.type
    BY <2>1, <2>2, ArgValue
  <2>4. ArgType(args[i], st) = bound[i].type
    BY <1>2, <1>3 DEF ArgsMatchParams, ArgMatchesParam
  <2>5. bound[i] = params[i]
    <3>1. IsSeq(params) /\ 1 \in Nat /\ 1 > 0 /\ Len(args) \in Nat /\ Len(args) <= Len(params)
      BY <1>2, <1>3, FunctionHasType DEF IsParams
    <3>2. /\ Len(bound) = (IF 1 <= Len(args) THEN Len(args) - 1 + 1 ELSE 0)
          /\ \A j \in 1..Len(bound) : bound[j] = params[1 + j - 1]
      BY <3>1, SeqSub
    <3>3. i \in 1..Len(bound) /\ 1 + i - 1 = i
      BY <1>3, <3>2
    <3> QED
      BY <3>2, <3>3
  <2> QED
    BY <2>1, <2>2, <2>3, <2>4, <2>5
<1>6. BindsTo(values, params)
  BY <1>2, <1>4, <1>5 DEF BindsTo
<1>7. IsFunction(BoundFunction(target, values))
  BY <1>4, <1>5, <1>6, BoundIsFunction
<1> QED
  BY <1>2, <1>7 DEF ValueArg

LEMMA BindFrontGives ==
  ASSUME IInv, At("Bind"), IsCallable(tmpResult, store)
  PROVE  \A o \in BindFrontFunction(TmpValue, Current.args, store) : IsOutcome(o)
<1>1. IsFunction(TmpValue) /\ IsStore(store)
  BY CallableIsFunction, Running
<1>2. AreArgs(Current.args, store)
  BY AtOperation DEF IsItem
<1> QED
  BY <1>1, <1>2, BindFrontIsTyped DEF IsOutcome, IsLegal

LEMMA ApplyBindFrontKeeps == ASSUME IInv, ApplyBindFront PROVE IInv'
<1>1. At("Bind")
  BY DEF ApplyBindFront
<1>2. CASE ~IsCallable(tmpResult, store)
  BY <1>2, Thrown DEF ApplyBindFront
<1>3. CASE IsCallable(tmpResult, store)
  BY <1>1, <1>3, BindFrontGives, AtOperation, Delivered DEF ApplyBindFront
<1> QED
  BY <1>2, <1>3
-----------------------------------------------------------------------------
(* Statements that open no scope.                                            *)

Ordinary(what) == what \notin Leaving \cup {"Call", "SecondHalf", "HalfEnd"}

LEMMA AtStatement ==
  ASSUME IInv, NEW what \in StatementKinds \cup {"ElseIf"}, At(what)
  PROVE  /\ stack # <<>> /\ Current.do = what /\ IsStatement(Current) /\ Current \in Statements
         /\ Current.do \notin Registering \cup Owers
         /\ \A new : Ordinary(new) => Replaces(new, Current.do)
         /\ Returns(tmpResult, Env!CurFuncRetType)
<1>1. /\ stack # <<>> /\ Current.do = what /\ IsItem(Current, store)
      /\ ResultAt(Current, tmpResult, Env!CurFuncRetType)
  BY Running
<1>2. Current \in Statements /\ IsStatement(Current)
  BY <1>1, StatementComes DEF IsItem
<1>3. Current.do \notin Registering \cup Owers \cup {"HalfEnd"} /\ Current.do \in Between
  BY <1>1 DEF StatementKinds, Between, Registering, Owers, FrameOwers, ScopeOwers
<1> QED
  BY <1>1, <1>2, <1>3 DEF Replaces, Ordinary, ResultAt

LEMMA AtContinuation ==
  ASSUME IInv,
         NEW what \in {"Declare", "Assign", "Discard", "ReturnResult", "IfTest", "ElseIfs", "ElseIfTest", "IfEnd",
                       "Parameter"},
         At(what)
  PROVE  /\ stack # <<>> /\ Current.do = what /\ IsItem(Current, store)
         /\ Current.do \notin Registering \cup Owers
         /\ \A new : Ordinary(new) => Replaces(new, Current.do)
         /\ what \in {"ElseIfs", "IfEnd", "Parameter"} => Returns(tmpResult, Env!CurFuncRetType)
         /\ tmpResult # Nothing => IsArg(tmpResult, store) /\ IsLegal(TmpValue) /\ WellTyped(TmpValue)
<1>1. /\ stack # <<>> /\ Current.do = what /\ IsItem(Current, store)
      /\ ResultAt(Current, tmpResult, Env!CurFuncRetType)
  BY Running
<1>2. Current.do \notin Registering \cup Owers \cup {"HalfEnd"}
  BY <1>1 DEF Registering, Owers, FrameOwers, ScopeOwers
<1>3. what \in {"ElseIfs", "IfEnd", "Parameter"} => Current.do \in Between
  BY <1>1 DEF Between
<1>4. tmpResult # Nothing => IsArg(tmpResult, store) /\ IsLegal(TmpValue) /\ WellTyped(TmpValue)
  BY Running, LegalIsTyped
<1> QED
  BY <1>1, <1>2, <1>3, <1>4 DEF Replaces, Ordinary, ResultAt

LEMMA NothingReturned == \A type : Returns(Nothing, type)
BY DEF Returns

(* A statement is over.                                                      *)
LEMMA StatementOver ==
  ASSUME IInv, stack # <<>>, Current.do \notin Registering \cup Owers, Return, UNCHANGED envVars,
         Returns(tmpResult', Env!CurFuncRetType), IsResult(tmpResult', store), FlagsAreBoolean'
  PROVE  IInv'
<1>1. stack' = Below
  BY Returned DEF IInv, Return, Goto
<1>2. EnvironmentOK' /\ StackOK' /\ ResultFits'
  BY <1>1, Leave DEF IInv
<1>3. IsResult(tmpResult, store)'
  BY DEF envVars
<1> QED
  BY <1>2, <1>3 DEF IInv

LEMMA SameFlags == ASSUME FlagsAreBoolean, UNCHANGED flags PROVE FlagsAreBoolean'
BY DEF FlagsAreBoolean, flags

LEMMA VisitVariableDeclarationKeeps == ASSUME IInv, VisitVariableDeclaration PROVE IInv'
<1> DEFINE y == [do |-> "Declare", name |-> Current.name, vt |-> Current.vt]
<1>1. At("VariableDeclaration") /\ "VariableDeclaration" \in StatementKinds
  BY DEF VisitVariableDeclaration, StatementKinds
<1>2. CASE ~Env!CanDefine(Current.name)
  BY <1>2, Thrown DEF VisitVariableDeclaration
<1>3. CASE Env!CanDefine(Current.name)
  <2>1. Current.name \in Names /\ Current.vt.mutable \in BOOLEAN /\ Current.expr \in Expressions
    BY <1>1, AtStatement DEF IsStatement
  <2>2. MayCome(y) /\ y.do \in Taking /\ Replaces(y.do, Current.do)
    BY <1>1, <2>1, AtStatement DEF Ordinary, Leaving,
         MayCome, IsItem, ExpressionKinds, StatementKinds, Registering, Owers, FrameOwers, ScopeOwers, Taking
  <2>3. stack' = <<Current.expr, y>> \o Below /\ UNCHANGED <<envVars, tmpResult, flags>>
    BY <1>3 DEF VisitVariableDeclaration, Visit, Goto, Below
  <2> HIDE DEF y
  <2> QED
    BY <1>1, <2>1, <2>2, <2>3, AtStatement, Visited
<1> QED
  BY <1>2, <1>3

LEMMA VisitAssignStatementKeeps == ASSUME IInv, VisitAssignStatement PROVE IInv'
<1> DEFINE h == Env!FindVariable(Current.name)
           y == [do |-> "Assign", holder |-> h]
<1>1. At("AssignStatement") /\ "AssignStatement" \in StatementKinds
  BY DEF VisitAssignStatement, StatementKinds
<1>2. CASE ~Holds(Current.name)
  BY <1>2, Thrown DEF VisitAssignStatement
<1>3. CASE Holds(Current.name) /\ ~h.can
  BY <1>3, Thrown DEF VisitAssignStatement
<1>4. CASE Holds(Current.name) /\ h.can
  <2>1. Current.name \in Names /\ Current.expr \in Expressions
    BY <1>1, AtStatement DEF IsStatement
  <2>2. Len(callFrames) > 0
    BY <1>1, AtStatement, InCall DEF IInv
  <2>3. h \in Env!Holder /\ Env!HolderValid(h, store)
    BY <1>4, <2>1, <2>2, FoundIsValid DEF Holds, IInv, EnvironmentOK
  <2>4. stack' = <<Current.expr, y>> \o Below /\ UNCHANGED <<envVars, tmpResult, flags>>
    BY <1>4 DEF VisitAssignStatement, Visit, Goto, Below
  <2> HIDE DEF h
  <2>5. MayCome(y) /\ y.do \in Taking /\ Replaces(y.do, Current.do)
    BY <1>1, <1>4, <2>3, AtStatement DEF Ordinary, Leaving,
         MayCome, IsItem, ExpressionKinds, StatementKinds, Registering, Owers, FrameOwers, ScopeOwers, Taking
  <2> HIDE DEF y
  <2> QED
    BY <1>1, <2>1, <2>4, <2>5, AtStatement, Visited
<1> QED
  BY <1>2, <1>3, <1>4

LEMMA VisitExpressionStatementKeeps == ASSUME IInv, VisitExpressionStatement PROVE IInv'
<1> DEFINE y == [do |-> "Discard"]
<1>1. At("ExpressionStatement") /\ "ExpressionStatement" \in StatementKinds
  BY DEF VisitExpressionStatement, StatementKinds
<1>2. Current.expr \in Expressions
  BY <1>1, AtStatement DEF IsStatement
<1>3. MayCome(y) /\ y.do \in Taking /\ Replaces(y.do, Current.do)
  BY <1>1, AtStatement DEF Ordinary, Leaving,
       MayCome, IsItem, ExpressionKinds, StatementKinds, Registering, Owers, FrameOwers, ScopeOwers, Taking
<1>4. stack' = <<Current.expr, y>> \o Below /\ UNCHANGED <<envVars, tmpResult, flags>>
  BY DEF VisitExpressionStatement, Visit, Goto, Below
<1> HIDE DEF y
<1> QED
  BY <1>1, <1>2, <1>3, <1>4, AtStatement, Visited

LEMMA DiscardResultKeeps == ASSUME IInv, DiscardResult PROVE IInv'
<1>1. At("Discard") /\ tmpResult' = Nothing /\ Return /\ UNCHANGED <<envVars, flags>>
  BY DEF DiscardResult
<1> QED
  BY <1>1, AtContinuation, StatementOver, NothingReturned, SameFlags DEF IsResult, IInv

LEMMA VisitReturnStatementKeeps == ASSUME IInv, VisitReturnStatement PROVE IInv'
<1> DEFINE y == [do |-> "ReturnResult"]
<1>1. At("ReturnStatement") /\ "ReturnStatement" \in StatementKinds
  BY DEF VisitReturnStatement, StatementKinds
<1>2. Current.optExpr \in AtMostOne(Expressions)
  BY <1>1, AtStatement DEF IsStatement
<1>3. MayCome(y) /\ y.do \in Taking /\ Replaces(y.do, Current.do)
  BY <1>1, AtStatement DEF Ordinary, Leaving,
       MayCome, IsItem, ExpressionKinds, StatementKinds, Registering, Owers, FrameOwers, ScopeOwers, Taking
<1>4. ResultAt(y, tmpResult', Env!CurFuncRetType)
  BY DEF ResultAt, Between, StatementKinds
<1>5. stack' = (Current.optExpr \o <<y>>) \o Below /\ UNCHANGED <<envVars, tmpResult, flags>>
  BY DEF VisitReturnStatement, Goto, Below
<1> HIDE DEF y
<1>6. CASE Current.optExpr = <<>>
  <2>1. stack' = <<y>> \o Below
    BY <1>5, <1>6
  <2>2. EnvironmentOK' /\ StackOK' /\ ResultFits'
    BY <1>1, <1>3, <1>4, <1>5, <2>1, AtStatement, Become DEF IInv
  <2>3. IsResult(tmpResult, store)' /\ FlagsAreBoolean'
    BY <1>5, SameFlags DEF IInv, envVars
  <2> QED
    BY <2>2, <2>3 DEF IInv
<1>7. ASSUME NEW x \in Expressions, Current.optExpr = <<x>>
      PROVE  IInv'
  <2>1. stack' = <<x, y>> \o Below
    BY <1>5, <1>7
  <2> QED
    BY <1>1, <1>3, <1>5, <2>1, AtStatement, Visited
<1> QED
  BY <1>2, <1>6, <1>7 DEF AtMostOne

(* What is returned is nothing, or a value of the type declared.             *)
LEMMA ReturnResultKeeps == ASSUME IInv, ReturnResult PROVE IInv'
<1>1. At("ReturnResult")
  BY DEF ReturnResult
<1>2. CASE ~MatchesReturnType(tmpResult, Env!CurFuncRetType, store)
  BY <1>2, Thrown DEF ReturnResult
<1>3. CASE MatchesReturnType(tmpResult, Env!CurFuncRetType, store)
  <2>1. /\ tmpResult' = IF IsEmpty THEN Nothing ELSE ValueArg(TmpValue)
        /\ isReturning' = TRUE /\ Return
        /\ UNCHANGED <<envVars, conditionMet, insideLoop, onContinue, onBreak>>
    BY <1>3 DEF ReturnResult
  <2>2. FlagsAreBoolean'
    BY <2>1 DEF IInv, FlagsAreBoolean
  <2>3. Returns(tmpResult', Env!CurFuncRetType) /\ IsResult(tmpResult', store)
    <3>1. CASE IsEmpty
      BY <2>1, <3>1 DEF Returns, IsResult
    <3>2. CASE ~IsEmpty
      <4>1. tmpResult' = ValueArg(TmpValue) /\ TmpValue.type = Env!CurFuncRetType
        BY <1>3, <2>1, <3>2 DEF MatchesReturnType, IsEmpty, TmpValue
      <4>2. IsLegal(TmpValue)
        BY <1>1, <3>2, AtContinuation DEF IsEmpty
      <4>3. IsResult(tmpResult', store)
        BY <4>1, <4>2, ValueIsArg
      <4>4. tmpResult'.value = TmpValue
        BY <4>1 DEF ValueArg
      <4> QED
        BY <4>1, <4>3, <4>4 DEF Returns
    <3> QED
      BY <3>1, <3>2
  <2> QED
    BY <1>1, <2>1, <2>2, <2>3, AtContinuation, StatementOver
<1> QED
  BY <1>2, <1>3

LEMMA VisitContinueKeeps == ASSUME IInv, VisitContinue PROVE IInv'
<1>1. At("ContinueStatement") /\ "ContinueStatement" \in StatementKinds
  BY DEF VisitContinue, StatementKinds
<1>2. CASE ~insideLoop
  BY <1>2, Thrown DEF VisitContinue
<1>3. CASE insideLoop
  <2>1. FlagsAreBoolean' /\ Return /\ UNCHANGED <<envVars, tmpResult>>
    BY <1>3 DEF VisitContinue, IInv, FlagsAreBoolean
  <2> QED
    BY <1>1, <2>1, AtStatement, StatementOver DEF IInv
<1> QED
  BY <1>2, <1>3

LEMMA VisitBreakKeeps == ASSUME IInv, VisitBreak PROVE IInv'
<1>1. At("BreakStatement") /\ "BreakStatement" \in StatementKinds
  BY DEF VisitBreak, StatementKinds
<1>2. CASE ~insideLoop
  BY <1>2, Thrown DEF VisitBreak
<1>3. CASE insideLoop
  <2>1. FlagsAreBoolean' /\ Return /\ UNCHANGED <<envVars, tmpResult>>
    BY <1>3 DEF VisitBreak, IInv, FlagsAreBoolean
  <2> QED
    BY <1>1, <2>1, AtStatement, StatementOver DEF IInv
<1> QED
  BY <1>2, <1>3
-----------------------------------------------------------------------------
(* If, else if, else.                                                        *)

LEMMA ConditionIsBoolean ==
  ASSUME IInv, IsCondition
  PROVE  TmpValue.val \in BOOLEAN
<1>1. IsLegal(TmpValue) /\ TmpValue.type = BoolType
  BY ResultIsArg, ArgValue DEF IInv, EnvironmentOK, IsCondition, IsEmpty, TmpValue
<1> QED
  BY <1>1, DistinctTypes, LegalIsTyped, ScalarTypes

LEMMA ConditionSet ==
  ASSUME IInv, IsCondition, NEW items, SetCondition(items), onContinue' \in {onContinue, FALSE}
  PROVE  /\ FlagsAreBoolean' /\ tmpResult' = Nothing
         /\ stack' = items \o Below
         /\ UNCHANGED envVars
         /\ IsResult(tmpResult, store)'
         /\ \A type : Returns(tmpResult', type)
BY ConditionIsBoolean, NothingReturned DEF SetCondition, IInv, FlagsAreBoolean, Goto, Below, IsResult, envVars

LEMMA VisitIfStatementKeeps == ASSUME IInv, VisitIfStatement PROVE IInv'
<1> DEFINE y == [do |-> "IfTest", if |-> Current]
<1>1. At("IfStatement") /\ "IfStatement" \in StatementKinds
  BY DEF VisitIfStatement, StatementKinds
<1>2. Current.cond \in Expressions /\ Current \in Statements /\ Current.do = "IfStatement"
  BY <1>1, AtStatement DEF IsStatement
<1>3. MayCome(y) /\ y.do \in Taking /\ Replaces(y.do, Current.do)
  BY <1>1, <1>2, AtStatement DEF Ordinary, Leaving,
       MayCome, IsItem, ExpressionKinds, StatementKinds, Registering, Owers, FrameOwers, ScopeOwers, Taking
<1>4. stack' = <<Current.cond, y>> \o Below /\ UNCHANGED <<envVars, tmpResult, flags>>
  BY DEF VisitIfStatement, Visit, Goto, Below
<1> HIDE DEF y
<1> QED
  BY <1>1, <1>2, <1>3, <1>4, AtStatement, Visited

LEMMA BlockComes == \A x \in Blocks : x \in Statements /\ x.do = "CodeBlock"
BY DEF Blocks

LEMMA TestIfKeeps == ASSUME IInv, TestIf PROVE IInv'
<1> DEFINE end == [do |-> "IfEnd"]
           others == [do |-> "ElseIfs", rest |-> Current.if.elseIfs, optElse |-> Current.if.optElse]
<1>1. At("IfTest")
  BY DEF TestIf
<1>2. CASE ~IsCondition
  BY <1>2, Thrown DEF TestIf
<1>3. CASE IsCondition
  <2>1. /\ Current.if.body \in Statements
        /\ Current.if.elseIfs \in Seq(ElseIfs) /\ Current.if.optElse \in AtMostOne(Blocks)
    <3>1. Current.if \in Statements /\ Current.if.do = "IfStatement"
      BY <1>1, AtContinuation DEF IsItem
    <3>2. IsStatement(Current.if)
      BY <3>1, StatementComes
    <3> QED
      BY <3>1, <3>2, BlockComes DEF IsStatement
  <2>2. CASE TmpValue.val = TRUE
    <3>1. SetCondition(<<Current.if.body, end>>) /\ onContinue' = onContinue
      BY <1>3, <2>2 DEF TestIf
    <3>2. /\ MayCome(end) /\ Ordinary(end.do) /\ end.do \notin {"Call", "SecondHalf"}
      BY DEF Ordinary, Leaving, MayCome, IsItem, ExpressionKinds, StatementKinds, Registering, Owers,
             FrameOwers, ScopeOwers
    <3> HIDE DEF end
    <3>3. stack' = <<Current.if.body, end>> \o Below /\ UNCHANGED envVars
      BY <1>3, <3>1, ConditionSet
    <3>4. ResultAt(Current.if.body, tmpResult', Env!CurFuncRetType)
      BY <1>3, <2>1, <3>1, ConditionSet, StatementComes
    <3>5. MayCome(Current.if.body) /\ MayFollow(Current.if.body.do, end.do) /\ Replaces(end.do, Current.do)
      BY <1>1, <2>1, <3>2, AtContinuation, StatementComes
    <3>6. EnvironmentOK' /\ StackOK' /\ ResultFits'
      BY <1>1, <3>2, <3>3, <3>4, <3>5, AtContinuation, Push DEF IInv
    <3> QED
      BY <1>3, <3>1, <3>6, ConditionSet DEF IInv
  <2>3. CASE TmpValue.val = FALSE
    <3>1. SetCondition(<<others>>) /\ onContinue' = onContinue
      BY <1>3, <2>3 DEF TestIf
    <3>2. MayCome(others) /\ Ordinary(others.do)
      BY <2>1 DEF Ordinary, Leaving, MayCome, IsItem, ExpressionKinds, StatementKinds, Registering, Owers,
             FrameOwers, ScopeOwers
    <3>3. \A result, ret : Returns(result, ret) => ResultAt(others, result, ret)
      BY DEF ResultAt
    <3> HIDE DEF others
    <3>4. stack' = <<others>> \o Below /\ UNCHANGED envVars /\ ResultAt(others, tmpResult', Env!CurFuncRetType)
      BY <1>3, <3>1, <3>3, ConditionSet
    <3>5. Replaces(others.do, Current.do)
      BY <1>1, <3>2, AtContinuation
    <3>6. EnvironmentOK' /\ StackOK' /\ ResultFits'
      BY <1>1, <3>2, <3>4, <3>5, AtContinuation, Become DEF IInv
    <3> QED
      BY <1>3, <3>1, <3>6, ConditionSet DEF IInv
  <2> QED
    BY <1>3, <2>2, <2>3, ConditionIsBoolean
<1> QED
  BY <1>2, <1>3

LEMMA NextElseIfKeeps == ASSUME IInv, NextElseIf PROVE IInv'
<1> DEFINE end == [do |-> "IfEnd"]
           next == [Current EXCEPT !.rest = Tail(@)]
<1>1. At("ElseIfs") /\ UNCHANGED <<envVars, tmpResult, flags>>
  BY DEF NextElseIf
<1>2. /\ Current = [do |-> "ElseIfs", rest |-> Current.rest, optElse |-> Current.optElse]
      /\ Current.rest \in Seq(ElseIfs) /\ Current.optElse \in AtMostOne(Blocks)
  BY <1>1, AtContinuation DEF IsItem
<1>3. Returns(tmpResult', Env!CurFuncRetType)
  BY <1>1, AtContinuation
<1>4. /\ MayCome(end) /\ Ordinary(end.do) /\ end.do \notin {"Call", "SecondHalf"}
      /\ \A result, ret : Returns(result, ret) => ResultAt(end, result, ret)
  BY DEF Ordinary, Leaving, MayCome, IsItem, ExpressionKinds, StatementKinds, Registering, Owers,
         FrameOwers, ScopeOwers, ResultAt
<1>5. ASSUME EnvironmentOK' /\ StackOK' /\ ResultFits'
      PROVE  IInv'
  BY <1>1, <1>5, SameFlags DEF IInv, envVars
<1>6. ASSUME stack' = <<end>> \o Below
      PROVE  IInv'
  <2> HIDE DEF end
  <2>1. MayCome(end) /\ Replaces(end.do, Current.do) /\ ResultAt(end, tmpResult', Env!CurFuncRetType)
    BY <1>1, <1>3, <1>4, AtContinuation
  <2>2. EnvironmentOK' /\ StackOK' /\ ResultFits'
    BY <1>1, <1>6, <2>1, AtContinuation, Become DEF IInv
  <2> QED
    BY <1>5, <2>2
<1>7. CASE conditionMet
  BY <1>6, <1>7 DEF NextElseIf, Goto, Below
<1>8. CASE ~conditionMet /\ Current.rest = <<>>
  <2>1. stack' = (Current.optElse \o <<end>>) \o Below
    BY <1>8 DEF NextElseIf, Goto, Below
  <2>2. CASE Current.optElse = <<>>
    BY <1>6, <2>1, <2>2
  <2>3. ASSUME NEW x \in Blocks, Current.optElse = <<x>>
        PROVE  IInv'
    <3> HIDE DEF end
    <3>1. stack' = <<x, end>> \o Below
      BY <2>1, <2>3
    <3>2. MayCome(x) /\ MayFollow(x.do, end.do) /\ Replaces(end.do, Current.do)
      BY <1>1, <1>4, AtContinuation, BlockComes, StatementComes
    <3>3. ResultAt(x, tmpResult', Env!CurFuncRetType)
      BY <1>3, BlockComes, StatementComes
    <3>4. EnvironmentOK' /\ StackOK' /\ ResultFits'
      BY <1>1, <1>4, <3>1, <3>2, <3>3, AtContinuation, Push DEF IInv
    <3> QED
      BY <1>5, <3>4
  <2> QED
    BY <1>2, <2>2, <2>3 DEF AtMostOne
<1>9. CASE ~conditionMet /\ Current.rest # <<>>
  <2> DEFINE x == Head(Current.rest)
  <2>1. stack' = <<x, next>> \o Below
    BY <1>9 DEF NextElseIf, Goto, Below
  <2>2. x \in Statements /\ Tail(Current.rest) \in Seq(ElseIfs)
    BY <1>2, <1>9 DEF ElseIfs
  <2>3. next = [do |-> "ElseIfs", rest |-> Tail(Current.rest), optElse |-> Current.optElse]
    <3>1. ASSUME NEW c, NEW r, NEW o, c = [do |-> "ElseIfs", rest |-> r, optElse |-> o]
          PROVE  [c EXCEPT !.rest = Tail(@)] = [do |-> "ElseIfs", rest |-> Tail(r), optElse |-> o]
      <4> DEFINE d == [c EXCEPT !.rest = Tail(@)]
      <4>1. DOMAIN d = {"do", "rest", "optElse"}
        BY <3>1
      <4>2. d.do = "ElseIfs" /\ d.optElse = o
        BY <3>1
      <4>3. d.rest = Tail(r)
        BY <3>1
      <4>4. d = [key \in DOMAIN d |-> d[key]]
        BY <3>1
      <4> HIDE DEF d
      <4>5. d = [do |-> "ElseIfs", rest |-> Tail(r), optElse |-> o]
        BY <4>1, <4>2, <4>3, <4>4
      <4> QED
        BY <4>5 DEF d
    <3> QED
      BY <1>2, <3>1
  <2>4. MayCome(next) /\ Ordinary(next.do) /\ next.do \notin {"Call", "SecondHalf"}
    BY <1>2, <2>2, <2>3
       DEF Ordinary, Leaving, MayCome, IsItem, ExpressionKinds, StatementKinds, Registering, Owers,
           FrameOwers, ScopeOwers
  <2> HIDE DEF next, x
  <2>5. MayCome(x) /\ MayFollow(x.do, next.do) /\ Replaces(next.do, Current.do)
    BY <1>1, <2>2, <2>4, AtContinuation, StatementComes
  <2>6. ResultAt(x, tmpResult', Env!CurFuncRetType)
    BY <1>3, <2>2, StatementComes
  <2>7. EnvironmentOK' /\ StackOK' /\ ResultFits'
    BY <1>1, <2>1, <2>4, <2>5, <2>6, AtContinuation, Push DEF IInv
  <2> QED
    BY <1>5, <2>7
<1> QED
  BY <1>7, <1>8, <1>9

LEMMA VisitElseIfKeeps == ASSUME IInv, VisitElseIf PROVE IInv'
<1> DEFINE y == [do |-> "ElseIfTest", body |-> Current.body]
<1>1. At("ElseIf")
  BY DEF VisitElseIf
<1>2. Current.cond \in Expressions /\ Current.body \in Blocks
  BY <1>1, AtStatement DEF IsStatement
<1>3. MayCome(y) /\ y.do \in Taking /\ Replaces(y.do, Current.do)
  BY <1>1, <1>2, AtStatement DEF Ordinary, Leaving,
       MayCome, IsItem, ExpressionKinds, StatementKinds, Registering, Owers, FrameOwers, ScopeOwers, Taking
<1>4. stack' = <<Current.cond, y>> \o Below /\ UNCHANGED <<envVars, tmpResult, flags>>
  BY DEF VisitElseIf, Visit, Goto, Below
<1> HIDE DEF y
<1> QED
  BY <1>1, <1>2, <1>3, <1>4, AtStatement, Visited

LEMMA TestElseIfKeeps == ASSUME IInv, TestElseIf PROVE IInv'
<1>1. At("ElseIfTest")
  BY DEF TestElseIf
<1>2. CASE ~IsCondition
  BY <1>2, Thrown DEF TestElseIf
<1>3. CASE IsCondition /\ TmpValue.val = TRUE
  <2> DEFINE x == Current.body
  <2>1. x \in Statements /\ x.do = "CodeBlock"
    BY <1>1, AtContinuation, BlockComes DEF IsItem
  <2>2. SetCondition(<<x>>) /\ onContinue' = onContinue
    BY <1>3 DEF TestElseIf
  <2>3. stack' = <<x>> \o Below /\ UNCHANGED envVars
    BY <1>3, <2>2, ConditionSet
  <2>4. ResultAt(x, tmpResult', Env!CurFuncRetType)
    BY <1>3, <2>1, <2>2, ConditionSet, StatementComes
  <2>5. MayCome(x) /\ Replaces(x.do, Current.do)
    <3>1. Ordinary(x.do)
      BY <2>1 DEF Ordinary, Leaving, ExpressionKinds
    <3> QED
      BY <1>1, <2>1, <3>1, AtContinuation, StatementComes
  <2>6. EnvironmentOK' /\ StackOK' /\ ResultFits'
    BY <1>1, <2>3, <2>4, <2>5, AtContinuation, Become DEF IInv
  <2> QED
    BY <1>3, <2>2, <2>6, ConditionSet DEF IInv
<1>4. CASE IsCondition /\ TmpValue.val = FALSE
  <2>1. SetCondition(<<>>) /\ onContinue' = onContinue
    BY <1>4 DEF TestElseIf
  <2>2. Return /\ UNCHANGED envVars /\ Returns(tmpResult', Env!CurFuncRetType) /\ FlagsAreBoolean'
    BY <1>4, <2>1, ConditionSet DEF SetCondition, Return
  <2>3. IsResult(tmpResult', store)
    BY <1>4, <2>1, ConditionSet DEF IsResult
  <2> QED
    BY <1>1, <2>2, <2>3, AtContinuation, StatementOver
<1> QED
  BY <1>2, <1>3, <1>4, ConditionIsBoolean

LEMMA EndIfKeeps == ASSUME IInv, EndIf PROVE IInv'
<1>1. At("IfEnd") /\ Return /\ UNCHANGED <<envVars, tmpResult>>
  BY DEF EndIf
<1>2. FlagsAreBoolean'
  BY DEF EndIf, IInv, FlagsAreBoolean
<1> QED
  BY <1>1, <1>2, AtContinuation, StatementOver DEF IInv
-----------------------------------------------------------------------------
(* Steps that change the variables or the scopes of the call in progress.    *)

SameCalls ==
  /\ Len(callFrames') = Len(callFrames)
  /\ \A k \in 1..Len(callFrames) : callFrames'[k].ret = callFrames[k].ret

LEMMA StepInCall ==
  ASSUME EnvironmentOK, StackOK, stack # <<>>, Current.do \notin Registering \cup FrameOwers,
         UNCHANGED functions, Grows(store, store'), AreFrames(callFrames', store'), SameCalls,
         NEW items, IsSeq(items), stack' = items \o Below,
         \A i \in 1..Len(items) : IsItem(items[i], store') /\ items[i].do \notin Registering \cup FrameOwers,
         InOrder(items),
         items # <<>> => /\ Replaces(items[Len(items)].do, Current.do)
                         /\ ResultAt(items[1], tmpResult', Env!CurFuncRetType),
         items = <<>> => Current.do \in Leaving \/ Returns(tmpResult', Env!CurFuncRetType),
         Balanced(Scopes', stack')
  PROVE  EnvironmentOK' /\ StackOK' /\ ResultFits'
<1>1. EnvironmentOK'
  BY DEF EnvironmentOK, FunctionsOK, Grows
<1>2. Current.do \notin {"CallEnd", "HalfEnd"}
  BY DEF FrameOwers
<1>3. /\ IsSeq(Below) /\ stack = <<Current>> \o Below /\ Len(Below) \in Nat /\ Len(stack) = Len(Below) + 1
      /\ IsSeq(<<Current>>) /\ Len(<<Current>>) = 1 /\ <<Current>>[1] = Current
  BY StackParts, SeqSingle
<1>4. Len(callFrames) \in Nat /\ Len(callFrames) > 0 /\ Len(callFrames) = CallOf(stack, Len(stack))
  BY InCall
<1>5. CallOf(stack, Len(stack)) = CallOf(Below, Len(Below))
  <2>1. \A i \in 1..Len(<<Current>>) : <<Current>>[i].do \notin FrameOwers
    BY <1>3
  <2>2. Len(stack) \in Len(Below)..Len(Below) + Len(<<Current>>)
    BY <1>3
  <2> QED
    BY <1>3, <2>1, <2>2, CallOfAbove
<1>6. Env!CurFuncRetType' = Env!CurFuncRetType
  BY <1>4 DEF SameCalls, Env!CurFuncRetType, Env!Top
<1>7. HalvesFit(callFrames', stack')
  <2>1. HalvesFit(callFrames, <<Current>> \o Below)
    BY <1>3 DEF StackOK
  <2>2. \A k \in 1..CallOf(Below, Len(Below)) : callFrames'[k].ret = callFrames[k].ret
    BY <1>4, <1>5 DEF SameCalls
  <2>3. HalvesFit(callFrames', Below)
    BY <1>3, <2>1, <2>2, HalvesBelow
  <2>4. \A i \in 1..Len(items) : items[i].do # "HalfEnd"
    BY DEF FrameOwers
  <2> QED
    BY <1>3, <2>3, <2>4, HalvesAbove
<1>8. items = <<>> /\ Below # <<>> => ResultAt(Below[1], tmpResult', Env!CurFuncRetType')
  BY <1>2, <1>6, ResultBelow
<1>9. \A i \in 1..Len(items) : IsItem(items[i], store') /\ items[i].do \notin Registering
  OBVIOUS
<1>10. items # <<>> =>
         /\ Current.do # "CallEnd" /\ Replaces(items[Len(items)].do, Current.do)
         /\ ResultAt(items[1], tmpResult', Env!CurFuncRetType')
  BY <1>2, <1>6
<1> QED
  BY <1>1, <1>7, <1>8, <1>9, <1>10, Step

(* The variables change: frames and stack stay balanced.                     *)
LEMMA VariablesChanged ==
  ASSUME IInv, stack # <<>>, Current.do \notin Registering \cup Owers, Return,
         UNCHANGED functions, Grows(store, store'), AreFrames(callFrames', store'), SameCalls,
         \A k \in 1..Len(callFrames) : Len(callFrames'[k].scopes) = Len(callFrames[k].scopes),
         Returns(tmpResult', Env!CurFuncRetType), tmpResult' \in {tmpResult, Nothing}, UNCHANGED flags
  PROVE  IInv'
<1> DEFINE items == <<>>
<1>1. IsSeq(items) /\ Len(items) = 0 /\ InOrder(items) /\ \A i \in 1..Len(items) : FALSE
  BY DEF IsSeq, InOrder
<1>2. stack' = Below /\ stack' = items \o Below
  BY Returned DEF IInv, Return, Goto, Below
<1>3. Current.do \notin Registering \cup FrameOwers
  BY DEF Owers
<1>4. Balanced(Scopes', stack')
  <2>1. DOMAIN callFrames = 1..Len(callFrames) /\ DOMAIN callFrames' = 1..Len(callFrames)
    BY SeqParts DEF IInv, EnvironmentOK, AreFrames, SameCalls
  <2>2. Scopes' = Scopes
    BY <2>1 DEF Scopes
  <2>3. /\ IsSeq(Below) /\ stack = <<Current>> \o Below
        /\ IsSeq(<<Current>>) /\ Plain(<<Current>>)
    BY StackParts, SeqSingle DEF IInv, Plain
  <2>4. Balanced(Scopes, Below)
    BY <2>3, BalancedPlain DEF IInv, StackOK
  <2> QED
    BY <1>2, <2>2, <2>4
<1>5. EnvironmentOK' /\ StackOK' /\ ResultFits'
  BY <1>1, <1>2, <1>3, <1>4, StepInCall DEF IInv
<1>6. IsResult(tmpResult, store)' /\ FlagsAreBoolean'
  BY ResultGrows, SameFlags DEF IInv, IsResult
<1> QED
  BY <1>5, <1>6 DEF IInv

(* A holder is put in the innermost scope.                                   *)
LEMMA HolderAdded ==
  ASSUME NEW st, AreFrames(callFrames, st), Len(callFrames) > 0, NEW id \in Names,
         NEW holder \in Env!Holder, Env!HolderValid(holder, st), Env!AddVariable(id, holder)
  PROVE  /\ AreFrames(callFrames', st) /\ SameCalls
         /\ \A k \in 1..Len(callFrames) : Len(callFrames'[k].scopes) = Len(callFrames[k].scopes)
<1> DEFINE n == Len(callFrames)
           old == callFrames[n].scopes
           scope == [old[Len(old)] EXCEPT ![id] = holder]
           scopes == [old EXCEPT ![Len(old)] = scope]
<1>1. IsSeq(callFrames) /\ n \in Nat /\ n \in 1..Len(callFrames)
  BY SeqParts DEF AreFrames
<1>2. /\ IsSeq(old) /\ Len(old) \in Nat /\ DOMAIN old = 1..Len(old)
      /\ \A j \in 1..Len(old) : IsScope(old[j], st)
  BY <1>1, SeqParts DEF AreFrames, IsFrame
<1>3. /\ DOMAIN callFrames' = DOMAIN callFrames /\ callFrames' = [k \in DOMAIN callFrames' |-> callFrames'[k]]
      /\ \A k \in DOMAIN callFrames :
           callFrames'[k] =
             IF k = Len(callFrames) THEN [scopes |-> scopes, ret |-> callFrames[k].ret] ELSE callFrames[k]
  <2>1. callFrames[n] = [scopes |-> callFrames[n].scopes, ret |-> callFrames[n].ret]
    BY <1>1 DEF AreFrames, IsFrame
  <2>2. callFrames' = [callFrames EXCEPT ![Len(callFrames)] = [callFrames[n] EXCEPT !.scopes = scopes]]
    BY DEF Env!AddVariable, Env!Top
  <2> HIDE DEF scopes
  <2>3. [callFrames[n] EXCEPT !.scopes = scopes] = [scopes |-> scopes, ret |-> callFrames[n].ret]
    BY <2>1
  <2> QED
    BY <2>2, <2>3
<1>4. Len(old) > 0 => IsScope(scope, st)
  <2>1. Len(old) > 0 => IsScope(old[Len(old)], st)
    BY <1>2
  <2> QED
    BY <2>1 DEF IsScope, Env!Scope
<1> HIDE DEF scope
<1>5. scopes = [j \in 1..Len(old) |-> IF j = Len(old) THEN scope ELSE old[j]]
  BY <1>2
<1>6. IsSeq(scopes) /\ Len(scopes) = Len(old)
  <2> HIDE DEF scopes, old
  <2> QED
    BY <1>2, <1>5, SeqMade
<1>7. \A j \in 1..Len(scopes) : IsScope(scopes[j], st)
  <2>1. \A j \in 1..Len(old) : scopes[j] = IF j = Len(old) THEN scope ELSE old[j]
    BY <1>5
  <2> HIDE DEF scopes, old
  <2>2. Len(old) \in 1..Len(old) => IsScope(scope, st)
    BY <1>2, <1>4
  <2> QED
    BY <1>2, <1>6, <2>1, <2>2
<1> HIDE DEF scopes
<1>8. /\ AreFrames(callFrames', st) /\ Len(callFrames') = Len(callFrames)
      /\ \A k \in 1..Len(callFrames) :
           /\ callFrames'[k].ret = callFrames[k].ret
           /\ callFrames'[k].scopes = IF k = Len(callFrames) THEN scopes ELSE callFrames[k].scopes
  BY <1>3, <1>6, <1>7, ScopesChanged
<1> QED
  BY <1>6, <1>8 DEF SameCalls

(* A new variable gets a holder with the rights it is declared with.         *)
LEMMA VariableDeclared ==
  ASSUME EnvironmentOK, Len(callFrames) > 0, NEW id \in Names, NEW vt, vt.mutable \in BOOLEAN,
         NEW v, IsLegal(v), v.type = vt.type, Env!DeclareVariable(id, vt, v)
  PROVE  /\ Grows(store, store') /\ AreFrames(callFrames', store') /\ SameCalls
         /\ \A k \in 1..Len(callFrames) : Len(callFrames'[k].scopes) = Len(callFrames[k].scopes)
         /\ UNCHANGED functions
<1> DEFINE holder == [var |-> Len(store) + 1, can |-> vt.mutable]
<1>1. /\ store' = Append(store, [type |-> vt.type, mutable |-> vt.mutable, value |-> v])
      /\ Env!AddVariable(id, holder)
      /\ UNCHANGED functions
  BY DEF Env!DeclareVariable
<1>2. IsStore(store) /\ AreFrames(callFrames, store) /\ Len(store) \in Nat
  BY SeqParts DEF EnvironmentOK, IsStore, IsVariable
<1>3. /\ Grows(store, store') /\ Len(store') = Len(store) + 1 /\ Len(store') \in DOMAIN store'
      /\ store'[Len(store')].mutable = vt.mutable
  <2> DEFINE new == [type |-> vt.type, mutable |-> vt.mutable, value |-> v]
  <2>1. IsVariable(new) /\ new.mutable = vt.mutable /\ store' = Append(store, new)
    BY <1>1 DEF IsVariable
  <2> HIDE DEF new
  <2>2. Grows(store, store') /\ Len(store') = Len(store) + 1 /\ Len(store') \in DOMAIN store'
    BY <1>2, <2>1, VariableMade
  <2>3. store'[Len(store')].mutable = new.mutable
    BY <1>2, <2>1, VariableMade
  <2> QED
    BY <2>1, <2>2, <2>3
<1>4. AreFrames(callFrames, store')
  BY <1>2, <1>3, FramesGrow
<1>5. holder \in Env!Holder
  BY <1>2 DEF Env!Holder
<1>6. Env!HolderValid(holder, store')
  BY <1>3 DEF Env!HolderValid
<1> HIDE DEF holder
<1> QED
  BY <1>1, <1>3, <1>4, <1>5, <1>6, HolderAdded

LEMMA DeclareVariableKeeps == ASSUME IInv, DeclareVariable PROVE IInv'
<1>1. At("Declare")
  BY DEF DeclareVariable
<1>2. CASE ~Assignable(Current.vt.type)
  BY <1>2, Thrown DEF DeclareVariable
<1>3. CASE Assignable(Current.vt.type)
  <2>1. /\ Env!DeclareVariable(Current.name, Current.vt, TmpValue)
        /\ tmpResult' = Nothing /\ Return /\ UNCHANGED flags
    BY <1>3 DEF DeclareVariable
  <2>2. Current.name \in Names /\ Current.vt.mutable \in BOOLEAN
    BY <1>1, AtContinuation DEF IsItem
  <2>3. IsLegal(TmpValue) /\ TmpValue.type = Current.vt.type
    BY <1>1, <1>3, AtContinuation DEF Assignable, IsEmpty
  <2>4. Len(callFrames) > 0
    BY <1>1, AtContinuation, InCall DEF IInv
  <2>5. /\ Grows(store, store') /\ AreFrames(callFrames', store') /\ SameCalls
        /\ \A k \in 1..Len(callFrames) : Len(callFrames'[k].scopes) = Len(callFrames[k].scopes)
        /\ UNCHANGED functions
    BY <2>1, <2>2, <2>3, <2>4, VariableDeclared DEF IInv
  <2> QED
    BY <1>1, <2>1, <2>5, AtContinuation, NothingReturned, VariablesChanged
<1> QED
  BY <1>2, <1>3

LEMMA AssignVariableKeeps == ASSUME IInv, AssignVariable PROVE IInv'
<1>1. At("Assign")
  BY DEF AssignVariable
<1>2. CASE ~Assignable(store[Current.holder.var].type)
  BY <1>2, Thrown DEF AssignVariable
<1>3. CASE Assignable(store[Current.holder.var].type)
  <2> DEFINE target == Current.holder.var
  <2>1. /\ store' = [store EXCEPT ![target].value = TmpValue]
        /\ UNCHANGED <<functions, callFrames>>
        /\ tmpResult' = Nothing /\ Return /\ UNCHANGED flags
    BY <1>3 DEF AssignVariable, Env!AssignThrough
  <2>2. IsLegal(TmpValue) /\ TmpValue.type = store[target].type
    BY <1>1, <1>3, AtContinuation DEF Assignable, IsEmpty
  <2>3. IsStore(store) /\ AreFrames(callFrames, store)
    BY DEF IInv, EnvironmentOK
  <2> HIDE DEF target
  <2>4. Grows(store, store')
    BY <2>1, <2>2, <2>3, VariableAssigned
  <2>5. AreFrames(callFrames', store') /\ SameCalls
    BY <2>1, <2>3, <2>4, FramesGrow DEF SameCalls
  <2> QED
    BY <1>1, <2>1, <2>4, <2>5, AtContinuation, NothingReturned, VariablesChanged
<1> QED
  BY <1>2, <1>3

(* A variable that is passed keeps no more rights than its parameter has.    *)
LEMMA BindParameterKeeps == ASSUME IInv, BindParameter PROVE IInv'
<1> DEFINE id == Current.param.name
           vt == Current.param.vt
           arg == Current.arg
<1>1. At("Parameter") /\ Env!BindParam(id, vt, arg) /\ Return /\ UNCHANGED <<tmpResult, flags>>
  BY DEF BindParameter
<1>2. /\ id \in Names /\ vt.mutable \in BOOLEAN
      /\ IsArg(arg, store) /\ ArgMatchesParam(arg, vt, store)
  BY <1>1, AtContinuation DEF IsItem
<1>3. Len(callFrames) > 0 /\ IsStore(store) /\ AreFrames(callFrames, store)
  BY <1>1, AtContinuation, InCall DEF IInv, EnvironmentOK
<1> HIDE DEF id, vt, arg
<1>4. CASE arg.tag = "holder"
  <2> DEFINE holder == [var |-> arg.holder.var, can |-> vt.mutable]
  <2>1. Env!AddVariable(id, holder) /\ UNCHANGED <<functions, store>>
    BY <1>1, <1>4 DEF Env!BindParam, Env!DeclareHolder, Env!BoundHolder
  <2>2. arg.holder \in Env!Holder /\ Env!HolderValid(arg.holder, store)
    BY <1>2, <1>3, <1>4, ArgValue
  <2>3. holder \in Env!Holder
    BY <1>2, <2>2 DEF Env!Holder
  <2>4. Env!HolderValid(holder, store)
    BY <1>2, <1>4, <2>2 DEF Env!HolderValid, ArgMatchesParam
  <2> HIDE DEF holder
  <2>5. /\ AreFrames(callFrames', store') /\ SameCalls /\ Grows(store, store')
        /\ \A k \in 1..Len(callFrames) : Len(callFrames'[k].scopes) = Len(callFrames[k].scopes)
    BY <1>2, <1>3, <2>1, <2>3, <2>4, HolderAdded, SameStoreGrows
  <2> QED
    BY <1>1, <2>1, <2>5, AtContinuation, VariablesChanged
<1>5. CASE arg.tag # "holder"
  <2>1. Env!DeclareVariable(id, vt, arg.value)
    BY <1>1, <1>5 DEF Env!BindParam
  <2>2. IsLegal(arg.value) /\ arg.value.type = vt.type
    BY <1>2, <1>3, <1>5, ArgValue DEF ArgMatchesParam, ArgType
  <2>3. /\ Grows(store, store') /\ AreFrames(callFrames', store') /\ SameCalls
        /\ \A k \in 1..Len(callFrames) : Len(callFrames'[k].scopes) = Len(callFrames[k].scopes)
        /\ UNCHANGED functions
    BY <1>2, <1>3, <2>1, <2>2, VariableDeclared DEF IInv
  <2> QED
    BY <1>1, <2>3, AtContinuation, VariablesChanged
<1> QED
  BY <1>4, <1>5
-----------------------------------------------------------------------------
(* Steps that open, go on in or close a scope of the call in progress.       *)

ScopesOf(frames) == [k \in DOMAIN frames |-> Len(frames[k].scopes)]

LEMMA ScopesAre ==
  ASSUME NEW st, NEW frames, AreFrames(frames, st)
  PROVE  /\ IsSeq(ScopesOf(frames)) /\ Len(ScopesOf(frames)) = Len(frames)
         /\ \A k \in 1..Len(frames) : ScopesOf(frames)[k] = Len(frames[k].scopes) /\ ScopesOf(frames)[k] \in Nat
<1>1. Len(frames) \in Nat /\ DOMAIN frames = 1..Len(frames)
  BY SeqParts DEF AreFrames
<1>2. IsSeq(ScopesOf(frames)) /\ Len(ScopesOf(frames)) = Len(frames)
  BY <1>1, SeqMade DEF ScopesOf
<1>3. \A k \in 1..Len(frames) : Len(frames[k].scopes) \in Nat
  BY SeqParts DEF AreFrames, IsFrame
<1> QED
  BY <1>1, <1>2, <1>3 DEF ScopesOf

LEMMA ScopeAdded ==
  ASSUME AreFrames(callFrames, store), Len(callFrames) > 0, Env!AddScope
  PROVE  /\ AreFrames(callFrames', store') /\ SameCalls /\ UNCHANGED <<functions, store>>
         /\ \A k \in 1..Len(callFrames) :
              Len(callFrames'[k].scopes) = Len(callFrames[k].scopes) + IF k = Len(callFrames) THEN 1 ELSE 0
<1> DEFINE n == Len(callFrames)
           old == callFrames[n].scopes
           scopes == Append(old, Env!EmptyScope)
<1>1. IsSeq(callFrames) /\ n \in Nat /\ n \in 1..Len(callFrames) /\ DOMAIN callFrames = 1..Len(callFrames)
  BY SeqParts DEF AreFrames
<1>2. /\ IsSeq(old) /\ Len(old) \in Nat
      /\ \A j \in 1..Len(old) : IsScope(old[j], store)
  BY <1>1, SeqParts DEF AreFrames, IsFrame
<1>3. /\ DOMAIN callFrames' = DOMAIN callFrames /\ callFrames' = [k \in DOMAIN callFrames' |-> callFrames'[k]]
      /\ \A k \in DOMAIN callFrames :
           callFrames'[k] =
             IF k = Len(callFrames) THEN [scopes |-> scopes, ret |-> callFrames[k].ret] ELSE callFrames[k]
  <2>1. callFrames[n] = [scopes |-> callFrames[n].scopes, ret |-> callFrames[n].ret]
    BY <1>1 DEF AreFrames, IsFrame
  <2>2. callFrames' = [callFrames EXCEPT ![Len(callFrames)] = [callFrames[n] EXCEPT !.scopes = scopes]]
    BY DEF Env!AddScope
  <2> HIDE DEF scopes
  <2>3. [callFrames[n] EXCEPT !.scopes = scopes] = [scopes |-> scopes, ret |-> callFrames[n].ret]
    BY <2>1
  <2> QED
    BY <2>2, <2>3
<1>4. /\ IsSeq(scopes) /\ Len(scopes) = Len(old) + 1
      /\ \A j \in 1..Len(scopes) : IsScope(scopes[j], store)
  <2> HIDE DEF old
  <2>1. /\ IsSeq(scopes) /\ Len(scopes) = Len(old) + 1
        /\ \A j \in 1..Len(scopes) : scopes[j] = IF j <= Len(old) THEN old[j] ELSE Env!EmptyScope
    BY <1>2, SeqAppend
  <2> HIDE DEF scopes
  <2>2. IsScope(Env!EmptyScope, store)
    BY EmptyIsScope
  <2> QED
    BY <1>2, <2>1, <2>2
<1> HIDE DEF scopes
<1>5. /\ AreFrames(callFrames', store) /\ Len(callFrames') = Len(callFrames)
      /\ \A k \in 1..Len(callFrames) :
           /\ callFrames'[k].ret = callFrames[k].ret
           /\ callFrames'[k].scopes = IF k = Len(callFrames) THEN scopes ELSE callFrames[k].scopes
  BY <1>3, <1>4, ScopesChanged
<1>6. UNCHANGED <<functions, store>>
  BY DEF Env!AddScope
<1>7. ASSUME NEW k \in 1..Len(callFrames)
      PROVE  Len(callFrames'[k].scopes) = Len(callFrames[k].scopes) + IF k = Len(callFrames) THEN 1 ELSE 0
  <2>1. Len(callFrames[k].scopes) \in Nat
    BY SeqParts DEF AreFrames, IsFrame
  <2>2. CASE k = Len(callFrames)
    <3>1. callFrames'[k].scopes = scopes /\ callFrames[k].scopes = old
      BY <1>5, <2>2
    <3> HIDE DEF old
    <3> QED
      BY <1>4, <2>2, <3>1
  <2>3. CASE k # Len(callFrames)
    <3>1. callFrames'[k].scopes = callFrames[k].scopes
      BY <1>5, <2>3
    <3>2. Len(callFrames[k].scopes) = Len(callFrames[k].scopes) + 0
      BY <2>1
    <3> QED
      BY <2>3, <3>1, <3>2
  <2> QED
    BY <2>2, <2>3
<1> QED
  BY <1>5, <1>6, <1>7 DEF SameCalls

LEMMA ScopeDropped ==
  ASSUME AreFrames(callFrames, store), Len(callFrames) > 0, Len(Env!Top.scopes) > 0, Env!PopScope
  PROVE  /\ AreFrames(callFrames', store') /\ SameCalls /\ UNCHANGED <<functions, store>>
         /\ \A k \in 1..Len(callFrames) :
              Len(callFrames[k].scopes) = Len(callFrames'[k].scopes) + IF k = Len(callFrames) THEN 1 ELSE 0
<1> DEFINE n == Len(callFrames)
           old == callFrames[n].scopes
           m == Len(old) - 1
           scopes == SubSeq(old, 1, m)
<1>1. IsSeq(callFrames) /\ n \in Nat /\ n \in 1..Len(callFrames) /\ DOMAIN callFrames = 1..Len(callFrames)
  BY SeqParts DEF AreFrames
<1>2. /\ IsSeq(old) /\ Len(old) \in Nat /\ Len(old) > 0
      /\ \A j \in 1..Len(old) : IsScope(old[j], store)
  BY <1>1, SeqParts DEF AreFrames, IsFrame, Env!Top
<1>3. /\ DOMAIN callFrames' = DOMAIN callFrames /\ callFrames' = [k \in DOMAIN callFrames' |-> callFrames'[k]]
      /\ \A k \in DOMAIN callFrames :
           callFrames'[k] =
             IF k = Len(callFrames) THEN [scopes |-> scopes, ret |-> callFrames[k].ret] ELSE callFrames[k]
  <2>1. callFrames[n] = [scopes |-> callFrames[n].scopes, ret |-> callFrames[n].ret]
    BY <1>1 DEF AreFrames, IsFrame
  <2>2. callFrames' = [callFrames EXCEPT ![Len(callFrames)] = [callFrames[n] EXCEPT !.scopes = scopes]]
    BY DEF Env!PopScope
  <2> HIDE DEF scopes
  <2>3. [callFrames[n] EXCEPT !.scopes = scopes] = [scopes |-> scopes, ret |-> callFrames[n].ret]
    BY <2>1
  <2> QED
    BY <2>2, <2>3
<1>4. /\ IsSeq(scopes) /\ Len(old) = Len(scopes) + 1
      /\ \A j \in 1..Len(scopes) : IsScope(scopes[j], store)
  <2> HIDE DEF old
  <2>1. m \in Nat /\ m <= Len(old) /\ Len(old) = m + 1
    BY <1>2
  <2> HIDE DEF m
  <2>2. /\ IsSeq(scopes) /\ Len(scopes) = (IF 1 <= m THEN m - 1 + 1 ELSE 0)
        /\ \A j \in 1..Len(scopes) : scopes[j] = old[1 + j - 1]
    BY <1>2, <2>1, SeqSub
  <2> HIDE DEF scopes
  <2>3. (IF 1 <= m THEN m - 1 + 1 ELSE 0) = m
    <3>1. 1 <= m => m - 1 + 1 = m
      BY <2>1
    <3>2. ~(1 <= m) => m = 0
      BY <2>1
    <3> QED
      BY <3>1, <3>2, Zenon
  <2>4. Len(scopes) = m
    BY <2>2, <2>3
  <2>5. \A j \in 1..Len(scopes) : j \in 1..Len(old) /\ 1 + j - 1 = j
    BY <2>1, <2>4
  <2> QED
    BY <1>2, <2>1, <2>2, <2>4, <2>5
<1> HIDE DEF scopes
<1>5. /\ AreFrames(callFrames', store) /\ Len(callFrames') = Len(callFrames)
      /\ \A k \in 1..Len(callFrames) :
           /\ callFrames'[k].ret = callFrames[k].ret
           /\ callFrames'[k].scopes = IF k = Len(callFrames) THEN scopes ELSE callFrames[k].scopes
  BY <1>3, <1>4, ScopesChanged
<1>6. UNCHANGED <<functions, store>>
  BY DEF Env!PopScope
<1>7. ASSUME NEW k \in 1..Len(callFrames)
      PROVE  Len(callFrames[k].scopes) = Len(callFrames'[k].scopes) + IF k = Len(callFrames) THEN 1 ELSE 0
  <2>1. Len(callFrames[k].scopes) \in Nat
    BY SeqParts DEF AreFrames, IsFrame
  <2>2. CASE k = Len(callFrames)
    <3>1. callFrames'[k].scopes = scopes /\ callFrames[k].scopes = old
      BY <1>5, <2>2
    <3> HIDE DEF old
    <3> QED
      BY <1>4, <2>2, <3>1
  <2>3. CASE k # Len(callFrames)
    <3>1. callFrames'[k].scopes = callFrames[k].scopes
      BY <1>5, <2>3
    <3>2. Len(callFrames[k].scopes) = Len(callFrames[k].scopes) + 0
      BY <2>1
    <3> QED
      BY <2>3, <3>1, <3>2
  <2> QED
    BY <2>2, <2>3
<1> QED
  BY <1>5, <1>6, <1>7 DEF SameCalls
(* What takes the place of the item that owes a scope: the last one owes it. *)
ScopeItems(items) ==
  /\ IsSeq(items) /\ items # <<>> /\ InOrder(items)
  /\ \A i \in 1..Len(items) : IsItem(items[i], store) /\ items[i].do \notin Registering \cup FrameOwers
  /\ Sole(items, Len(items)) /\ items[Len(items)].do \in ScopeOwers
  /\ \A result, ret : Returns(result, ret) => ResultAt(items[1], result, ret)

LEMMA ScopeOwerAlone ==
  ASSUME NEW x, IsItem(x, store), x.do \in {"PopScope", "LoopEnd"}
  PROVE  ScopeItems(<<x>>)
<1> DEFINE items == <<x>>
<1>1. IsSeq(items) /\ Len(items) = 1 /\ items[1] = x /\ items # <<>>
  BY SeqSingle
<1>2. \A i \in 1..Len(items) : i = 1
  BY <1>1
<1> HIDE DEF items
<1>3. InOrder(items) /\ Sole(items, Len(items))
  BY <1>1, <1>2 DEF InOrder, Sole
<1>4. x.do \in ScopeOwers /\ x.do \notin Registering \cup FrameOwers \cup {"Call", "SecondHalf"}
  BY DEF ScopeOwers, Registering, FrameOwers
<1>5. \A result, ret : Returns(result, ret) => ResultAt(x, result, ret)
  BY <1>4 DEF ResultAt
<1>6. ScopeItems(items)
  BY <1>1, <1>2, <1>3, <1>4, <1>5 DEF ScopeItems
<1> QED
  BY <1>6 DEF items

LEMMA ScopeOwerBelow ==
  ASSUME NEW x \in Statements, NEW y, IsItem(y, store), y.do \in {"StatementEnd", "LoopNext"}
  PROVE  ScopeItems(<<x, y>>)
<1> DEFINE items == <<x, y>>
<1>1. IsSeq(items) /\ Len(items) = 2 /\ items[1] = x /\ items[2] = y /\ items # <<>>
  BY SeqPair
<1>2. \A i \in 1..Len(items) : items[i] = x \/ i = 2
  BY <1>1
<1>3. \A i \in 1..(Len(items) - 1) : i = 1
  BY <1>1
<1> HIDE DEF items
<1>4. y.do \in ScopeOwers /\ y.do \notin Registering \cup FrameOwers \cup {"Call", "SecondHalf"}
  BY DEF ScopeOwers, Registering, FrameOwers
<1>5. /\ IsItem(x, store) /\ x.do \notin Registering \cup Owers /\ MayFollow(x.do, y.do)
      /\ \A result, ret : Returns(result, ret) => ResultAt(x, result, ret)
  BY <1>4, StatementComes DEF MayCome
<1>6. InOrder(items)
  BY <1>1, <1>3, <1>5 DEF InOrder
<1>7. Sole(items, Len(items))
  BY <1>1, <1>2, <1>5 DEF Sole
<1>8. \A i \in 1..Len(items) : IsItem(items[i], store) /\ items[i].do \notin Registering \cup FrameOwers
  BY <1>1, <1>2, <1>4, <1>5 DEF Owers
<1>9. ScopeItems(items)
  BY <1>1, <1>4, <1>5, <1>6, <1>7, <1>8 DEF ScopeItems
<1> QED
  BY <1>9 DEF items

LEMMA LoopComes ==
  ASSUME NEW loop \in Statements, loop.do = "ForLoop", NEW x \in Statements
  PROVE  ScopeItems(<<x>> \o TestLoop(loop))
<1> DEFINE test == [do |-> "LoopTest", loop |-> loop]
           items == <<x, loop.cond, test>>
<1>1. <<x>> \o TestLoop(loop) = items
  BY SeqTriplet DEF TestLoop
<1>2. loop.cond \in Expressions
  BY StatementComes DEF IsStatement
<1>3. /\ IsItem(test, store) /\ test.do \in ScopeOwers /\ test.do \in Taking
      /\ test.do \notin Registering \cup FrameOwers \cup {"Call", "SecondHalf"}
  BY DEF IsItem, ExpressionKinds, StatementKinds, ScopeOwers, Taking, Registering, FrameOwers
<1> DEFINE cond == loop.cond
<1>4. /\ IsItem(cond, store) /\ cond.do \notin Registering \cup Owers /\ MayFollow(cond.do, test.do)
      /\ cond.do \notin {"Call", "SecondHalf"}
  BY <1>2, <1>3, ExpressionComes DEF MayCome, ExpressionKinds
<1>5. /\ IsItem(x, store) /\ x.do \notin Registering \cup Owers /\ MayFollow(x.do, cond.do)
      /\ \A result, ret : Returns(result, ret) => ResultAt(x, result, ret)
  BY <1>4, StatementComes DEF MayCome
<1> HIDE DEF test, cond
<1>6. /\ IsSeq(items) /\ Len(items) = 3 /\ items # <<>>
      /\ items[1] = x /\ items[2] = cond /\ items[3] = test
  BY SeqTriple DEF cond
<1>7. \A i \in 1..Len(items) : items[i] \in {x, cond} \/ i = 3
  BY <1>6
<1>8. \A i \in 1..(Len(items) - 1) : i \in {1, 2}
  BY <1>6
<1> HIDE DEF items
<1>9. InOrder(items)
  BY <1>4, <1>5, <1>6, <1>8 DEF InOrder
<1>10. Sole(items, Len(items))
  BY <1>4, <1>5, <1>6, <1>7 DEF Sole
<1>11. \A i \in 1..Len(items) : IsItem(items[i], store) /\ items[i].do \notin Registering \cup FrameOwers
  BY <1>3, <1>4, <1>5, <1>6, <1>7 DEF Owers
<1>12. ScopeItems(items)
  BY <1>3, <1>5, <1>6, <1>9, <1>10, <1>11 DEF ScopeItems
<1> QED
  BY <1>1, <1>12

LEMMA NextStatementComes ==
  ASSUME NEW statements \in Seq(NestedStatements)
  PROVE  ScopeItems(NextStatement(statements))
<1>1. CASE statements = <<>>
  <2> DEFINE y == [do |-> "PopScope"]
  <2>1. IsItem(y, store) /\ y.do \in {"PopScope", "LoopEnd"}
    BY DEF IsItem, ExpressionKinds, StatementKinds
  <2>2. NextStatement(statements) = <<y>>
    BY <1>1 DEF NextStatement
  <2> HIDE DEF y
  <2> QED
    BY <2>1, <2>2, ScopeOwerAlone
<1>2. CASE statements # <<>>
  <2> DEFINE x == Head(statements)
             y == [do |-> "StatementEnd", rest |-> Tail(statements)]
  <2>1. x \in Statements /\ Tail(statements) \in Seq(NestedStatements)
    BY <1>2 DEF NestedStatements
  <2>2. IsItem(y, store) /\ y.do \in {"StatementEnd", "LoopNext"}
    BY <2>1 DEF IsItem, ExpressionKinds, StatementKinds
  <2>3. NextStatement(statements) = <<x, y>>
    BY <1>2 DEF NextStatement
  <2> HIDE DEF x, y
  <2> QED
    BY <2>1, <2>2, <2>3, ScopeOwerBelow
<1> QED
  BY <1>1, <1>2
(* A scope is opened.                                                        *)
LEMMA ScopeOpened ==
  ASSUME IInv, NEW what \in {"CodeBlock", "ForLoop"}, At(what), Env!AddScope,
         NEW items, ScopeItems(items), stack' = items \o Below, UNCHANGED tmpResult, FlagsAreBoolean'
  PROVE  IInv'
<1>1. /\ EnvironmentOK /\ StackOK /\ IsResult(tmpResult, store)
      /\ stack # <<>> /\ Current.do \notin Registering \cup Owers /\ Current.do # "HalfEnd"
      /\ Current.do \notin Registering \cup FrameOwers
      /\ Returns(tmpResult, Env!CurFuncRetType)
  BY AtStatement DEF IInv, StatementKinds, Owers, FrameOwers
<1>2. Len(callFrames) > 0 /\ AreFrames(callFrames, store) /\ IsStore(store)
  BY <1>1, InCall DEF EnvironmentOK
<1>3. /\ AreFrames(callFrames', store') /\ SameCalls /\ UNCHANGED functions /\ store' = store
      /\ \A k \in 1..Len(callFrames) :
           Len(callFrames'[k].scopes) = Len(callFrames[k].scopes) + IF k = Len(callFrames) THEN 1 ELSE 0
  BY <1>2, ScopeAdded
<1>4. Grows(store, store')
  BY <1>2, <1>3, SameStoreGrows
<1>5. Balanced(Scopes', stack')
  <2>1. /\ IsSeq(Below) /\ stack = <<Current>> \o Below
        /\ IsSeq(<<Current>>) /\ Plain(<<Current>>)
    BY <1>1, StackParts, SeqSingle DEF Plain
  <2>2. Balanced(Scopes, Below)
    BY <1>1, <2>1, BalancedPlain DEF StackOK
  <2>3. Scopes = ScopesOf(callFrames) /\ Scopes' = ScopesOf(callFrames')
    BY DEF Scopes, ScopesOf
  <2> DEFINE fewer == ScopesOf(callFrames)
             more == ScopesOf(callFrames')
  <2>4. /\ IsSeq(fewer) /\ IsSeq(more) /\ Len(fewer) = Len(callFrames) /\ Len(more) = Len(callFrames)
        /\ \A k \in 1..Len(callFrames) : fewer[k] = Len(callFrames[k].scopes) /\ more[k] = Len(callFrames'[k].scopes)
        /\ \A k \in 1..Len(callFrames) : fewer[k] \in Int
    BY <1>2, <1>3, ScopesAre DEF SameCalls
  <2> HIDE DEF fewer, more
  <2>5. \A k \in 1..Len(fewer) : fewer[k] \in Int /\ more[k] = fewer[k] + IF k = Len(fewer) THEN 1 ELSE 0
    BY <1>3, <2>4
  <2>6. Len(items) \in 1..Len(items)
    BY SeqParts DEF ScopeItems
  <2>7. Balanced(more, items \o Below)
    BY <1>2, <2>1, <2>2, <2>3, <2>4, <2>5, <2>6, BalancedScope DEF ScopeItems, fewer
  <2> QED
    BY <2>3, <2>7 DEF more
<1>6. \A i \in 1..Len(items) : IsItem(items[i], store') /\ items[i].do \notin Registering \cup FrameOwers
  BY <1>3 DEF ScopeItems
<1>7. Replaces(items[Len(items)].do, Current.do) /\ ResultAt(items[1], tmpResult', Env!CurFuncRetType)
  BY <1>1 DEF ScopeItems, Replaces, ScopeOwers, Leaving, ExpressionKinds
<1>8. EnvironmentOK' /\ StackOK' /\ ResultFits'
  BY <1>1, <1>3, <1>4, <1>5, <1>6, <1>7, StepInCall DEF ScopeItems
<1> QED
  BY <1>1, <1>3, <1>8 DEF IInv

(* What is done in a scope goes on.                                          *)
LEMMA ScopeGoesOn ==
  ASSUME IInv, stack # <<>>, Current.do \in ScopeOwers, UNCHANGED envVars,
         NEW items, ScopeItems(items), stack' = items \o Below,
         Returns(tmpResult', Env!CurFuncRetType), IsResult(tmpResult', store), FlagsAreBoolean'
  PROVE  IInv'
<1>1. /\ EnvironmentOK /\ StackOK /\ Current.do # "HalfEnd"
      /\ Current.do \notin Registering \cup FrameOwers
  BY DEF IInv, ScopeOwers, Registering, FrameOwers
<1>2. Len(callFrames) > 0 /\ AreFrames(callFrames, store) /\ IsStore(store)
  BY <1>1, InCall DEF EnvironmentOK
<1>3. functions' = functions /\ store' = store /\ callFrames' = callFrames
  BY DEF envVars
<1>4. Grows(store, store') /\ SameCalls /\ AreFrames(callFrames', store')
  BY <1>2, <1>3, SameStoreGrows DEF SameCalls
<1>5. Balanced(Scopes', stack')
  <2>1. IsSeq(Below) /\ stack = <<Current>> \o Below
    BY <1>1, StackParts
  <2>2. Scopes = ScopesOf(callFrames) /\ Scopes' = Scopes
    BY <1>3 DEF Scopes, ScopesOf
  <2>3. IsSeq(Scopes) /\ Len(Scopes) > 0 /\ \A k \in 1..Len(Scopes) : Scopes[k] \in Int
    BY <1>2, <2>2, ScopesAre
  <2>4. Len(items) \in 1..Len(items)
    BY SeqParts DEF ScopeItems
  <2>5. Balanced(Scopes, <<Current>> \o Below)
    BY <1>1, <2>1 DEF StackOK
  <2>6. Balanced(Scopes, items \o Below)
    BY <2>1, <2>3, <2>4, <2>5, BalancedSwap DEF ScopeItems
  <2> QED
    BY <2>2, <2>6
<1>6. \A i \in 1..Len(items) : IsItem(items[i], store') /\ items[i].do \notin Registering \cup FrameOwers
  BY <1>3 DEF ScopeItems
<1>7. Replaces(items[Len(items)].do, Current.do) /\ ResultAt(items[1], tmpResult', Env!CurFuncRetType)
  BY <1>1 DEF ScopeItems, Replaces, ScopeOwers, Leaving, ExpressionKinds
<1>8. EnvironmentOK' /\ StackOK' /\ ResultFits'
  BY <1>1, <1>3, <1>4, <1>5, <1>6, <1>7, StepInCall DEF ScopeItems
<1> QED
  BY <1>3, <1>8 DEF IInv

(* A scope is closed.                                                        *)
LEMMA ScopeClosed ==
  ASSUME IInv, stack # <<>>, Current.do \in {"PopScope", "LoopEnd"}, Env!PopScope, Return,
         UNCHANGED tmpResult, FlagsAreBoolean'
  PROVE  IInv'
<1>1. /\ EnvironmentOK /\ StackOK /\ IsResult(tmpResult, store) /\ Current.do # "HalfEnd"
      /\ Current.do \notin Registering \cup FrameOwers /\ Current.do \in ScopeOwers
  BY DEF IInv, ScopeOwers, Registering, FrameOwers
<1>2. Len(callFrames) \in 1..Len(callFrames) /\ Len(callFrames) > 0 /\ AreFrames(callFrames, store) /\ IsStore(store)
  BY <1>1, InCall DEF EnvironmentOK
<1>3. /\ IsSeq(Below) /\ stack = <<Current>> \o Below
      /\ IsSeq(<<Current>>) /\ Len(<<Current>>) = 1 /\ <<Current>>[1] = Current
  BY <1>1, StackParts, SeqSingle
<1>4. stack' = Below
  BY <1>1, Returned DEF Return, Goto
<1> DEFINE more == ScopesOf(callFrames)
           fewer == ScopesOf(callFrames')
<1>5. /\ IsSeq(more) /\ Len(more) = Len(callFrames)
      /\ \A k \in 1..Len(callFrames) : more[k] = Len(callFrames[k].scopes) /\ more[k] \in Nat
  BY <1>2, ScopesAre
<1>6. Scopes = more /\ Scopes' = fewer
  BY DEF Scopes, ScopesOf
<1>7. Balanced(more, <<Current>> \o Below)
  BY <1>1, <1>3, <1>6 DEF StackOK
<1>8. Len(Env!Top.scopes) > 0
  <2>1. IsSeq(stack)
    BY <1>1 DEF StackOK, AreItems
  <2>2. more[Len(callFrames)] = 1 + Cardinality(Owing(stack, Len(callFrames), ScopeOwers))
    BY <1>2, <1>3, <1>5, <1>7, SeqParts DEF Balanced
  <2>3. Cardinality(Owing(stack, Len(callFrames), ScopeOwers)) \in Nat
    BY <2>1, OwingIsFinite
  <2> QED
    BY <1>2, <1>5, <2>2, <2>3 DEF Env!Top
<1>9. /\ AreFrames(callFrames', store') /\ SameCalls /\ functions' = functions /\ store' = store
      /\ \A k \in 1..Len(callFrames) :
           Len(callFrames[k].scopes) = Len(callFrames'[k].scopes) + IF k = Len(callFrames) THEN 1 ELSE 0
  BY <1>2, <1>8, ScopeDropped
<1>10. /\ IsSeq(fewer) /\ Len(fewer) = Len(callFrames)
       /\ \A k \in 1..Len(callFrames) : fewer[k] = Len(callFrames'[k].scopes) /\ fewer[k] \in Nat
  BY <1>9, ScopesAre DEF SameCalls
<1>11. Balanced(Scopes', stack')
  <2> HIDE DEF fewer, more
  <2>1. ASSUME NEW k \in 1..Len(fewer)
        PROVE  fewer[k] \in Int /\ more[k] = fewer[k] + IF k = Len(fewer) THEN 1 ELSE 0
    <3>1. k \in 1..Len(callFrames) /\ Len(fewer) = Len(callFrames)
      BY <1>10
    <3>2. fewer[k] \in Nat /\ fewer[k] = Len(callFrames'[k].scopes) /\ more[k] = Len(callFrames[k].scopes)
      BY <1>5, <1>10, <3>1
    <3>3. Len(callFrames[k].scopes) = Len(callFrames'[k].scopes) + IF k = Len(callFrames) THEN 1 ELSE 0
      BY <1>9, <3>1
    <3>4. more[k] = fewer[k] + IF k = Len(callFrames) THEN 1 ELSE 0
      BY <3>2, <3>3, Zenon
    <3> QED
      BY <3>1, <3>2, <3>4
  <2> DEFINE items == <<Current>>
  <2>2. Sole(items, 1) /\ items[1].do \in ScopeOwers /\ 1 \in 1..Len(items) /\ IsSeq(items)
    BY <1>1, <1>3 DEF Sole
  <2>3. Balanced(more, items \o Below)
    BY <1>7
  <2> HIDE DEF items
  <2>4. Balanced(fewer, Below)
    BY <1>2, <1>3, <1>5, <1>10, <2>1, <2>2, <2>3, BalancedScope
  <2> QED
    BY <1>4, <1>6, <2>4
<1>12. Returns(tmpResult', Env!CurFuncRetType)
  BY DEF IInv, ResultFits, ResultAt, Between
<1> DEFINE none == <<>>
<1>13. IsSeq(none) /\ Len(none) = 0 /\ InOrder(none) /\ \A i \in 1..Len(none) : FALSE
  BY DEF IsSeq, InOrder
<1>14. stack' = none \o Below
  BY <1>3, <1>4 DEF IsSeq
<1>15. Grows(store, store')
  BY <1>2, <1>9, SameStoreGrows
<1>16. EnvironmentOK' /\ StackOK' /\ ResultFits'
  BY <1>1, <1>9, <1>11, <1>12, <1>13, <1>14, <1>15, StepInCall
<1> QED
  BY <1>1, <1>9, <1>16 DEF IInv
LEMMA AtScope ==
  ASSUME IInv, NEW what \in ScopeOwers, At(what)
  PROVE  /\ stack # <<>> /\ Current.do = what /\ IsItem(Current, store)
         /\ what # "LoopTest" => Returns(tmpResult, Env!CurFuncRetType)
         /\ IsResult(tmpResult, store) /\ FlagsAreBoolean
<1>1. /\ stack # <<>> /\ Current.do = what /\ IsItem(Current, store)
      /\ ResultAt(Current, tmpResult, Env!CurFuncRetType)
      /\ IsResult(tmpResult, store) /\ FlagsAreBoolean
  BY Running
<1>2. what # "LoopTest" => Current.do \in Between
  BY <1>1 DEF ScopeOwers, Between
<1> QED
  BY <1>1, <1>2 DEF ResultAt

LEMMA VisitCodeBlockKeeps == ASSUME IInv, VisitCodeBlock PROVE IInv'
<1> DEFINE items == NextStatement(Current.statements)
<1>1. /\ At("CodeBlock") /\ Env!AddScope /\ UNCHANGED <<tmpResult, flags>>
      /\ stack' = items \o Below
  BY DEF VisitCodeBlock, Goto, Below
<1>2. Current.statements \in Seq(NestedStatements)
  BY <1>1, AtStatement DEF IsStatement, StatementKinds
<1>3. ScopeItems(items)
  BY <1>2, NextStatementComes
<1> HIDE DEF items
<1>4. FlagsAreBoolean'
  BY <1>1, SameFlags DEF IInv
<1> QED
  BY <1>1, <1>3, <1>4, ScopeOpened

LEMMA EndStatementKeeps == ASSUME IInv, EndStatement PROVE IInv'
<1> DEFINE rest == IF ShouldExitCodeBlock THEN <<>> ELSE Current.rest
           items == NextStatement(rest)
<1>1. /\ At("StatementEnd") /\ UNCHANGED <<envVars, tmpResult, flags>>
      /\ stack' = items \o Below
  BY DEF EndStatement, Goto, Below
<1>2. /\ stack # <<>> /\ Current.do \in ScopeOwers /\ IsItem(Current, store) /\ Current.do = "StatementEnd"
      /\ Returns(tmpResult, Env!CurFuncRetType) /\ IsResult(tmpResult, store) /\ FlagsAreBoolean
  BY <1>1, AtScope DEF ScopeOwers
<1>3. rest \in Seq(NestedStatements)
  BY <1>2 DEF IsItem
<1> HIDE DEF rest
<1>4. ScopeItems(items)
  BY <1>3, NextStatementComes
<1> HIDE DEF items
<1> QED
  BY <1>1, <1>2, <1>4, SameFlags, ScopeGoesOn

LEMMA LeaveCodeBlockKeeps == ASSUME IInv, LeaveCodeBlock PROVE IInv'
<1>1. At("PopScope") /\ Env!PopScope /\ Return /\ UNCHANGED <<tmpResult, flags>>
  BY DEF LeaveCodeBlock
<1>2. stack # <<>> /\ Current.do \in {"PopScope", "LoopEnd"} /\ FlagsAreBoolean
  BY <1>1, AtScope DEF ScopeOwers
<1> QED
  BY <1>1, <1>2, SameFlags, ScopeClosed

LEMMA VisitForLoopKeeps == ASSUME IInv, VisitForLoop PROVE IInv'
<1> DEFINE items == <<Current.decl>> \o TestLoop(Current)
<1>1. /\ At("ForLoop") /\ Env!AddScope
      /\ insideLoop' = TRUE /\ UNCHANGED <<tmpResult, isReturning, conditionMet, onContinue, onBreak>>
      /\ stack' = items \o Below
  BY DEF VisitForLoop, Goto, Below
<1>2. Current.decl \in Statements /\ Current \in Statements /\ Current.do = "ForLoop"
  BY <1>1, AtStatement DEF IsStatement, StatementKinds, Declarations
<1>3. ScopeItems(items)
  BY <1>2, LoopComes
<1> HIDE DEF items
<1>4. FlagsAreBoolean'
  BY <1>1 DEF IInv, FlagsAreBoolean
<1> QED
  BY <1>1, <1>3, <1>4, ScopeOpened

LEMMA StartIterationKeeps == ASSUME IInv, StartIteration PROVE IInv'
<1> DEFINE next == [do |-> "LoopNext", loop |-> Current.loop]
           end == [do |-> "LoopEnd"]
<1>1. At("LoopTest")
  BY DEF StartIteration
<1>2. /\ stack # <<>> /\ Current.do \in ScopeOwers /\ IsItem(Current, store) /\ Current.do = "LoopTest"
  BY <1>1, AtScope DEF ScopeOwers
<1>3. Current.loop \in Statements /\ Current.loop.do = "ForLoop" /\ Current.loop.body \in Statements
  <2>1. Current.loop \in Statements /\ Current.loop.do = "ForLoop"
    BY <1>2 DEF IsItem
  <2> QED
    BY <2>1, StatementComes, BlockComes DEF IsStatement
<1>4. CASE ~IsCondition
  BY <1>4, Thrown DEF StartIteration
<1>5. ASSUME IsCondition, NEW items, ScopeItems(items), SetCondition(items), onContinue' \in {onContinue, FALSE}
      PROVE  IInv'
  <2>1. /\ FlagsAreBoolean' /\ tmpResult' = Nothing /\ stack' = items \o Below /\ UNCHANGED envVars
        /\ Returns(tmpResult', Env!CurFuncRetType)
    BY <1>5, ConditionSet
  <2>2. IsResult(tmpResult', store)
    BY <2>1 DEF IsResult
  <2> QED
    BY <1>2, <1>5, <2>1, <2>2, ScopeGoesOn
<1>6. CASE IsCondition /\ TmpValue.val = TRUE
  <2> DEFINE items == <<Current.loop.body, next>>
  <2>1. SetCondition(items) /\ onContinue' = FALSE
    BY <1>6 DEF StartIteration
  <2>2. IsItem(next, store) /\ next.do \in {"StatementEnd", "LoopNext"}
    BY <1>3 DEF IsItem, ExpressionKinds, StatementKinds
  <2> HIDE DEF next
  <2>3. ScopeItems(items)
    BY <1>3, <2>2, ScopeOwerBelow
  <2> HIDE DEF items
  <2> QED
    BY <1>5, <1>6, <2>1, <2>3
<1>7. CASE IsCondition /\ TmpValue.val = FALSE
  <2>1. SetCondition(<<end>>) /\ onContinue' = onContinue
    BY <1>7 DEF StartIteration
  <2>2. IsItem(end, store) /\ end.do \in {"PopScope", "LoopEnd"}
    BY DEF IsItem, ExpressionKinds, StatementKinds
  <2> HIDE DEF end
  <2> QED
    BY <1>5, <1>7, <2>1, <2>2, ScopeOwerAlone
<1> QED
  BY <1>4, <1>6, <1>7, ConditionIsBoolean

LEMMA EndIterationKeeps == ASSUME IInv, EndIteration PROVE IInv'
<1> DEFINE end == [do |-> "LoopEnd"]
           again == <<Current.loop.update>> \o TestLoop(Current.loop)
<1>1. At("LoopNext") /\ UNCHANGED <<envVars, tmpResult, flags>>
  BY DEF EndIteration
<1>2. /\ stack # <<>> /\ Current.do \in ScopeOwers /\ IsItem(Current, store) /\ Current.do = "LoopNext"
      /\ Returns(tmpResult, Env!CurFuncRetType) /\ IsResult(tmpResult, store) /\ FlagsAreBoolean
  BY <1>1, AtScope DEF ScopeOwers
<1>3. Current.loop \in Statements /\ Current.loop.do = "ForLoop" /\ Current.loop.update \in Statements
  <2>1. Current.loop \in Statements /\ Current.loop.do = "ForLoop"
    BY <1>2 DEF IsItem
  <2> QED
    BY <2>1, StatementComes DEF IsStatement, Assignments
<1>4. ASSUME NEW items, ScopeItems(items), stack' = items \o Below
      PROVE  IInv'
  BY <1>1, <1>2, <1>4, SameFlags, ScopeGoesOn
<1>5. CASE onBreak \/ isReturning
  <2>1. stack' = <<end>> \o Below
    BY <1>5 DEF EndIteration, Goto, Below
  <2>2. IsItem(end, store) /\ end.do \in {"PopScope", "LoopEnd"}
    BY DEF IsItem, ExpressionKinds, StatementKinds
  <2> HIDE DEF end
  <2> QED
    BY <1>4, <2>1, <2>2, ScopeOwerAlone
<1>6. CASE ~(onBreak \/ isReturning)
  <2>1. stack' = again \o Below
    BY <1>6 DEF EndIteration, Goto, Below
  <2>2. ScopeItems(again)
    BY <1>3, LoopComes
  <2> HIDE DEF again
  <2> QED
    BY <1>4, <2>1, <2>2
<1> QED
  BY <1>5, <1>6

LEMMA ExitLoopKeeps == ASSUME IInv, ExitLoop PROVE IInv'
<1>1. At("LoopEnd") /\ Env!PopScope /\ Return /\ UNCHANGED tmpResult
  BY DEF ExitLoop
<1>2. stack # <<>> /\ Current.do \in {"PopScope", "LoopEnd"}
  BY <1>1, AtScope DEF ScopeOwers
<1>3. FlagsAreBoolean'
  BY DEF ExitLoop, IInv, FlagsAreBoolean
<1> QED
  BY <1>1, <1>2, <1>3, ScopeClosed
-----------------------------------------------------------------------------
(* Calls.                                                                    *)

(* A frame is pushed for the items that owe its end.                         *)
LEMMA FrameUp ==
  ASSUME EnvironmentOK, StackOK, stack # <<>>, Current.do \notin Owers, NEW ret, Env!CallingFunction(ret),
         NEW items, IsSeq(items), NEW j \in 1..Len(items), Sole(items, j), items[j].do \in FrameOwers,
         stack' = items \o Below
  PROVE  /\ EnvironmentOK' /\ Grows(store, store') /\ store' = store
         /\ Balanced(Scopes', stack') /\ HalvesFit(callFrames', Below)
         /\ Len(callFrames) = CallOf(Below, Len(Below))
         /\ callFrames'[Len(callFrames) + 1].ret = ret /\ Env!CurFuncRetType' = ret
         /\ Len(callFrames) > 0 => callFrames'[Len(callFrames)].ret = Env!CurFuncRetType
<1>1. /\ callFrames' = Append(callFrames, [scopes |-> <<Env!EmptyScope>>, ret |-> ret])
      /\ functions' = functions /\ store' = store
  BY DEF Env!CallingFunction
<1>2. AreFrames(callFrames, store) /\ Len(callFrames) \in Nat /\ IsStore(store)
  BY SeqParts DEF EnvironmentOK, AreFrames
<1>3. /\ AreFrames(callFrames', store)
      /\ Len(callFrames') = Len(callFrames) + 1
      /\ \A k \in 1..Len(callFrames) : callFrames'[k] = callFrames[k]
      /\ callFrames'[Len(callFrames')].ret = ret /\ Len(callFrames'[Len(callFrames')].scopes) = 1
  <2> DEFINE frame == [scopes |-> <<Env!EmptyScope>>, ret |-> ret]
  <2>1. IsFrame(frame, store) /\ frame.ret = ret /\ Len(frame.scopes) = 1
    BY EmptyIsScope, SeqSingle DEF IsFrame
  <2>2. callFrames' = Append(callFrames, frame)
    BY <1>1
  <2> HIDE DEF frame
  <2>3. AreFrames(callFrames', store)
    BY <1>2, <2>1, <2>2, FramePushed
  <2>4. Len(callFrames') = Len(callFrames) + 1
    BY <1>2, <2>1, <2>2, FramePushed
  <2>5. \A k \in 1..Len(callFrames) : callFrames'[k] = callFrames[k]
    BY <1>2, <2>1, <2>2, FramePushed
  <2>6. callFrames'[Len(callFrames')] = frame
    BY <1>2, <2>1, <2>2, FramePushed
  <2> QED
    BY <2>1, <2>3, <2>4, <2>5, <2>6
<1>4. EnvironmentOK' /\ Grows(store, store')
  BY <1>1, <1>2, <1>3, SameStoreGrows DEF EnvironmentOK, FunctionsOK
<1>5. /\ IsSeq(Below) /\ stack = <<Current>> \o Below
      /\ IsSeq(<<Current>>) /\ Plain(<<Current>>)
  BY StackParts, SeqSingle DEF Plain
<1>6. Balanced(Scopes, Below)
  BY <1>5, BalancedPlain DEF StackOK
<1> DEFINE fewer == ScopesOf(callFrames)
           more == ScopesOf(callFrames')
<1>7. Scopes = fewer /\ Scopes' = more
  BY DEF Scopes, ScopesOf
<1>8. /\ IsSeq(fewer) /\ Len(fewer) = Len(callFrames)
      /\ \A k \in 1..Len(callFrames) : fewer[k] = Len(callFrames[k].scopes)
  BY <1>2, ScopesAre
<1>9. /\ IsSeq(more) /\ Len(more) = Len(callFrames')
      /\ \A k \in 1..Len(callFrames') : more[k] = Len(callFrames'[k].scopes)
  BY <1>3, ScopesAre
<1> HIDE DEF fewer, more
<1>10. Len(more) = Len(fewer) + 1 /\ (\A k \in 1..Len(fewer) : more[k] = fewer[k]) /\ more[Len(more)] = 1
  <2>1. \A k \in 1..Len(callFrames) : k \in 1..Len(callFrames')
    BY <1>2, <1>3
  <2>2. Len(callFrames') \in 1..Len(callFrames')
    BY <1>2, <1>3
  <2> QED
    BY <1>3, <1>8, <1>9, <2>1, <2>2
<1>11. Balanced(Scopes', stack')
  BY <1>5, <1>6, <1>7, <1>8, <1>9, <1>10, BalancedFrame
<1>12. Len(callFrames) = CallOf(Below, Len(Below))
  BY <1>6, <1>7, <1>8 DEF Balanced
<1>13. HalvesFit(callFrames', Below)
  <2>1. HalvesFit(callFrames, <<Current>> \o Below)
    BY <1>5 DEF StackOK
  <2>2. \A k \in 1..CallOf(Below, Len(Below)) : callFrames'[k].ret = callFrames[k].ret
    BY <1>3, <1>12
  <2> QED
    BY <1>5, <2>1, <2>2, HalvesBelow
<1>14. callFrames'[Len(callFrames) + 1].ret = ret /\ Env!CurFuncRetType' = ret
  BY <1>3 DEF Env!CurFuncRetType, Env!Top
<1>15. Len(callFrames) > 0 => callFrames'[Len(callFrames)].ret = Env!CurFuncRetType
  BY <1>2, <1>3 DEF Env!CurFuncRetType, Env!Top
<1> QED
  BY <1>1, <1>4, <1>11, <1>12, <1>13, <1>14, <1>15

(* The frame is dropped at the end that is owed.                             *)
LEMMA FrameDown ==
  ASSUME IInv, stack # <<>>, Current.do \in FrameOwers, Env!ExitingFunction, Return,
         UNCHANGED tmpResult, FlagsAreBoolean',
         Below # <<>> => ResultAt(Below[1], tmpResult', callFrames[Len(callFrames) - 1].ret)
  PROVE  IInv'
<1>1. /\ callFrames' = SubSeq(callFrames, 1, Len(callFrames) - 1)
      /\ functions' = functions /\ store' = store
  BY DEF Env!ExitingFunction
<1>2. /\ EnvironmentOK /\ StackOK /\ AreFrames(callFrames, store) /\ IsStore(store)
      /\ Current.do \notin Registering
  BY DEF IInv, EnvironmentOK, FrameOwers, Registering
<1>3. Len(callFrames) \in Nat /\ Len(callFrames) > 0
  BY <1>2, InCall
<1>4. /\ AreFrames(callFrames', store)
      /\ Len(callFrames') = Len(callFrames) - 1
      /\ \A k \in 1..Len(callFrames') : callFrames'[k] = callFrames[k]
  BY <1>1, <1>2, <1>3, FrameDropped
<1>5. EnvironmentOK' /\ Grows(store, store')
  BY <1>1, <1>2, <1>4, SameStoreGrows DEF EnvironmentOK, FunctionsOK
<1>6. /\ IsSeq(Below) /\ stack = <<Current>> \o Below
      /\ IsSeq(<<Current>>) /\ Len(<<Current>>) = 1 /\ <<Current>>[1] = Current
  BY <1>2, StackParts, SeqSingle
<1>7. stack' = Below
  BY <1>2, Returned DEF Return, Goto
<1> DEFINE more == ScopesOf(callFrames)
           fewer == ScopesOf(callFrames')
<1>8. Scopes = more /\ Scopes' = fewer
  BY DEF Scopes, ScopesOf
<1>9. /\ IsSeq(more) /\ Len(more) = Len(callFrames)
      /\ \A k \in 1..Len(callFrames) : more[k] = Len(callFrames[k].scopes)
  BY <1>2, ScopesAre
<1>10. /\ IsSeq(fewer) /\ Len(fewer) = Len(callFrames')
       /\ \A k \in 1..Len(callFrames') : fewer[k] = Len(callFrames'[k].scopes)
  BY <1>4, ScopesAre
<1> HIDE DEF fewer, more
<1>11. Len(more) = Len(fewer) + 1 /\ \A k \in 1..Len(fewer) : more[k] = fewer[k]
  <2>1. \A k \in 1..Len(callFrames') : k \in 1..Len(callFrames)
    BY <1>3, <1>4
  <2> QED
    BY <1>3, <1>4, <1>9, <1>10, <2>1
<1>12. Balanced(fewer, Below)
  <2> DEFINE items == <<Current>>
  <2>1. Sole(items, 1) /\ items[1].do \in FrameOwers /\ 1 \in 1..Len(items) /\ IsSeq(items)
    BY <1>6 DEF Sole
  <2>2. Balanced(more, items \o Below)
    BY <1>2, <1>6, <1>8 DEF StackOK
  <2> HIDE DEF items
  <2> QED
    BY <1>6, <1>9, <1>10, <1>11, <2>1, <2>2, BalancedFrame
<1>13. Len(callFrames') = CallOf(Below, Len(Below))
  BY <1>10, <1>12 DEF Balanced
<1>14. HalvesFit(callFrames', Below)
  <2>1. HalvesFit(callFrames, <<Current>> \o Below)
    BY <1>2, <1>6 DEF StackOK
  <2>2. \A k \in 1..CallOf(Below, Len(Below)) : callFrames'[k].ret = callFrames[k].ret
    BY <1>4, <1>13
  <2> QED
    BY <1>6, <2>1, <2>2, HalvesBelow
<1>15. ASSUME Below # <<>>
       PROVE  ResultAt(Below[1], tmpResult', Env!CurFuncRetType')
  <2>1. Len(callFrames') > 0
    BY <1>2, <1>13, <1>15, InProgress
  <2>2. Len(callFrames') \in 1..Len(callFrames')
    BY <1>3, <1>4, <2>1
  <2>3. Env!CurFuncRetType' = callFrames[Len(callFrames) - 1].ret
    BY <1>4, <2>2 DEF Env!CurFuncRetType, Env!Top
  <2> QED
    BY <1>15, <2>3
<1> DEFINE none == <<>>
<1>16. IsSeq(none) /\ Len(none) = 0 /\ InOrder(none) /\ \A i \in 1..Len(none) : FALSE
  BY DEF IsSeq, InOrder
<1>17. stack' = none \o Below
  BY <1>6, <1>7 DEF IsSeq
<1>18. StackOK' /\ ResultFits'
  BY <1>2, <1>5, <1>7, <1>8, <1>12, <1>14, <1>15, <1>16, <1>17, Step
<1> QED
  BY <1>1, <1>5, <1>18 DEF IInv
LEMMA InvokeKeeps == ASSUME IInv, Invoke PROVE IInv'
<1> DEFINE call == [do |-> "Call", func |-> Current.func, args |-> Current.args]
           end == [do |-> "CallEnd"]
           items == <<call, end>>
           ret == Current.func.type.ret
<1>1. At("Invoke")
  BY DEF Invoke
<1>2. CASE ~ArgsMatchParams(Current.args, Current.func.type.params, store)
  BY <1>2, Thrown DEF Invoke
<1>3. CASE ArgsMatchParams(Current.args, Current.func.type.params, store)
  <2>1. /\ Env!CallingFunction(ret) /\ tmpResult' = Nothing /\ UNCHANGED flags
        /\ stack' = items \o Below
    BY <1>3 DEF Invoke, Goto, Below
  <2>2. /\ EnvironmentOK /\ StackOK /\ FlagsAreBoolean /\ stack # <<>>
        /\ Current.do = "Invoke" /\ IsItem(Current, store)
    BY <1>1, Running
  <2>3. Current.do \notin Owers \cup Registering
    BY <2>2 DEF Owers, FrameOwers, ScopeOwers, Registering
  <2>4. IsItem(call, store) /\ IsItem(end, store)
    BY <1>3, <2>2 DEF IsItem, ExpressionKinds, StatementKinds
  <2>5. ResultAt(call, Nothing, ret)
    BY DEF ResultAt, Between, StatementKinds
  <2>6. call.do = "Call" /\ end.do = "CallEnd"
    OBVIOUS
  <2>7. IsSeq(items) /\ Len(items) = 2 /\ items[1] = call /\ items[2] = end /\ items # <<>>
    BY SeqPair
  <2> HIDE DEF items, call, end, ret
  <2>8. \A i \in 1..Len(items) : items[i] \in {call, end} /\ i \in {1, 2}
    BY <2>7
  <2>9. Sole(items, 2) /\ items[2].do \in FrameOwers /\ 2 \in 1..Len(items)
    BY <2>6, <2>7, <2>8 DEF Sole, Owers, FrameOwers, ScopeOwers
  <2>10. /\ EnvironmentOK' /\ Grows(store, store') /\ store' = store
         /\ Balanced(Scopes', stack') /\ HalvesFit(callFrames', Below)
         /\ Env!CurFuncRetType' = ret
    BY <2>1, <2>2, <2>3, <2>7, <2>9, FrameUp
  <2>11. HalvesFit(callFrames', stack')
    <3>1. \A i \in 1..Len(items) : items[i].do # "HalfEnd"
      BY <2>6, <2>8
    <3> QED
      BY <2>1, <2>2, <2>7, <2>10, <3>1, StackParts, HalvesAbove
  <2>12. InOrder(items)
    <3>1. \A i \in 1..(Len(items) - 1) : i = 1
      BY <2>7
    <3> QED
      BY <2>6, <2>7, <3>1 DEF InOrder, MayFollow, FrameOwers, Leaving, ExpressionKinds
  <2>13. \A i \in 1..Len(items) : IsItem(items[i], store') /\ items[i].do \notin Registering
    BY <2>4, <2>6, <2>8, <2>10 DEF Registering
  <2>14. Current.do # "CallEnd" /\ Replaces(items[Len(items)].do, Current.do)
    BY <2>2, <2>6, <2>7 DEF Replaces, Leaving, ExpressionKinds
  <2>15. StackOK' /\ ResultFits'
    BY <2>1, <2>2, <2>3, <2>5, <2>7, <2>10, <2>11, <2>12, <2>13, <2>14, Step
  <2> QED
    BY <2>1, <2>2, <2>10, <2>15, SameFlags DEF IInv, IsResult
<1> QED
  BY <1>2, <1>3

LEMMA EndCallKeeps == ASSUME IInv, EndCall PROVE IInv'
<1>1. /\ At("CallEnd") /\ Env!ExitingFunction /\ isReturning' = FALSE /\ Return
      /\ UNCHANGED <<tmpResult, conditionMet, insideLoop, onContinue, onBreak>>
  BY DEF EndCall
<1>2. stack # <<>> /\ Current.do = "CallEnd" /\ StackOK /\ FlagsAreBoolean
  BY <1>1, Running
<1>3. FlagsAreBoolean'
  BY <1>1, <1>2 DEF FlagsAreBoolean
<1>4. Below # <<>> => ResultAt(Below[1], tmpResult', callFrames[Len(callFrames) - 1].ret)
  BY <1>2, ResultBelow DEF Leaving
<1> QED
  BY <1>1, <1>2, <1>3, <1>4, FrameDown DEF FrameOwers

(* The half of a composition leaves its frame to the second half, or to the   *)
(* end of the call with what that call returns.                             *)
LEMMA EndHalfKeeps == ASSUME IInv, EndHalf PROVE IInv'
<1>1. At("HalfEnd") /\ Env!ExitingFunction /\ Return /\ UNCHANGED <<tmpResult, flags>>
  BY DEF EndHalf
<1>2. /\ stack # <<>> /\ Current.do = "HalfEnd" /\ StackOK /\ EnvironmentOK /\ FlagsAreBoolean
      /\ Current.do \notin Registering
      /\ Returns(tmpResult, Env!CurFuncRetType)
  BY <1>1, Running DEF ResultAt, Between, Registering
<1> DEFINE n == Len(callFrames)
<1>3. n = CallOf(stack, Len(stack)) /\ n \in Nat
  BY <1>2, InCall
<1>4. /\ Below # <<>> /\ IsSeq(Below) /\ Len(Below) \in Nat /\ Len(stack) = Len(Below) + 1
      /\ Current = stack[1] /\ Below[1] = stack[2] /\ MayFollow(Current.do, Below[1].do)
  <2>1. Below # <<>> /\ IsSeq(Below) /\ Len(Below) \in Nat
    BY <1>2, InProgress, StackParts
  <2>2. Len(Below) # 0
    BY <2>1, SeqParts
  <2>3. 1 \in 1..Len(Below) /\ 1 + 1 = 2
    BY <2>1, <2>2
  <2> QED
    BY <1>2, <2>1, <2>3, StackParts
<1>5. Waiting(stack, Len(stack)) = Current /\ Waiting(stack, Len(stack) - 1) = Below[1]
  <2>1. Len(stack) + 1 - Len(stack) = 1 /\ Len(stack) + 1 - (Len(stack) - 1) = 2
    BY <1>4
  <2> QED
    BY <1>4, <2>1 DEF Waiting
<1>6. /\ Below[1].do \in FrameOwers => callFrames[n].ret = callFrames[n - 1].ret
      /\ Below[1].do = "SecondHalf" =>
           /\ callFrames[n].ret = Below[1].second.type.params[1].type
           /\ callFrames[n - 1].ret = Below[1].second.type.ret
  <2>1. Len(stack) \in 1..Len(stack)
    BY <1>4
  <2> HIDE DEF n
  <2> QED
    BY <1>2, <1>3, <1>5, <2>1 DEF StackOK, HalvesFit
<1>7. Below[1].do \in FrameOwers \cup {"SecondHalf"}
  BY <1>2, <1>4 DEF MayFollow
<1>8. Env!CurFuncRetType = callFrames[n].ret
  BY DEF Env!CurFuncRetType, Env!Top
<1> HIDE DEF n
<1>9. ResultAt(Below[1], tmpResult', callFrames[n - 1].ret)
  BY <1>1, <1>2, <1>6, <1>7, <1>8 DEF ResultAt, FrameOwers, Between, StatementKinds
<1> QED
  BY <1>1, <1>2, <1>9, FrameDown, SameFlags DEF FrameOwers, n
LEMMA AtCall ==
  ASSUME IInv, NEW what \in {"Call", "SecondHalf"}, At(what)
  PROVE  /\ EnvironmentOK /\ StackOK /\ FlagsAreBoolean /\ stack # <<>>
         /\ Current.do = what /\ IsItem(Current, store)
         /\ Current.do \notin Owers \cup Registering
         /\ ResultAt(Current, tmpResult, Env!CurFuncRetType)
         /\ Len(callFrames) > 0
         /\ IsSeq(Below) /\ Below # <<>> /\ Below[1].do \in FrameOwers
<1>1. /\ EnvironmentOK /\ StackOK /\ FlagsAreBoolean /\ stack # <<>>
      /\ Current.do = what /\ IsItem(Current, store)
      /\ ResultAt(Current, tmpResult, Env!CurFuncRetType)
  BY Running
<1>2. Current.do \notin Owers \cup Registering
  BY <1>1 DEF Owers, FrameOwers, ScopeOwers, Registering
<1>3. Len(callFrames) > 0 /\ Below # <<>> /\ IsSeq(Below) /\ MayFollow(Current.do, Below[1].do)
  BY <1>1, <1>2, InCall, InProgress, StackParts
<1>4. Below[1].do \in FrameOwers
  BY <1>1, <1>3 DEF MayFollow
<1> QED
  BY <1>1, <1>2, <1>3, <1>4

LEMMA CallComposedKeeps == ASSUME IInv, CallComposed PROVE IInv'
<1> DEFINE first == Current.func.val.first
           second == Current.func.val.second
           ret == first.type.ret
           call == [do |-> "Call", func |-> first, args |-> Current.args]
           half == [do |-> "HalfEnd"]
           other == [do |-> "SecondHalf", second |-> second]
           items == <<call, half, other>>
           n == Len(callFrames)
<1>1. /\ At("Call") /\ Current.func.val.impl = "composed"
      /\ Env!CallingFunction(ret) /\ UNCHANGED <<tmpResult, flags>>
      /\ stack' = items \o Below
  BY DEF CallComposed, Calling, Goto, Below
<1>2. /\ EnvironmentOK /\ StackOK /\ FlagsAreBoolean /\ stack # <<>>
      /\ Current.do = "Call" /\ IsItem(Current, store)
      /\ Current.do \notin Owers \cup Registering
      /\ ResultAt(Current, tmpResult, Env!CurFuncRetType)
      /\ Len(callFrames) > 0 /\ IsSeq(Below) /\ Below # <<>>
  BY <1>1, AtCall
<1>3. IsFunction(Current.func) /\ AreArgs(Current.args, store)
      /\ ArgsMatchParams(Current.args, Current.func.type.params, store)
  BY <1>2 DEF IsItem
<1>4. IsFunction(first) /\ IsFunction(second) /\ CanCompose(first, second)
      /\ Current.func = ComposedFunction(first, second)
  BY <1>1, <1>3, FunctionParts
<1>5. Current.func.type.params = first.type.params /\ Current.func.type.ret = second.type.ret
  BY <1>4 DEF ComposedFunction, ComposedFuncType, FunctionType
<1>6. tmpResult = Nothing /\ Env!CurFuncRetType = second.type.ret
  BY <1>2, <1>5 DEF ResultAt
<1>7. /\ IsItem(call, store) /\ IsItem(half, store) /\ IsItem(other, store)
      /\ call.do = "Call" /\ half.do = "HalfEnd" /\ other.do = "SecondHalf"
      /\ other.second = second
  BY <1>3, <1>4, <1>5 DEF IsItem, ExpressionKinds, StatementKinds, CanCompose
<1>8. ResultAt(call, tmpResult, ret)
  BY <1>6 DEF ResultAt, Between, StatementKinds
<1>9. ret = second.type.params[1].type
  BY <1>4 DEF CanCompose, RetTypeMatchesParamType
<1>10. IsSeq(items) /\ Len(items) = 3 /\ items[1] = call /\ items[2] = half /\ items[3] = other /\ items # <<>>
  BY SeqTriple
<1> HIDE DEF call, half, other, first, second, ret
<1>11. items \o Below = <<call>> \o (<<half>> \o (<<other>> \o Below))
  <2> DEFINE one == <<other>>
             two == <<half>>
             three == <<call>>
  <2>1. IsSeq(Below) /\ items = <<call, half, other>> /\ one = <<other>> /\ two = <<half>> /\ three = <<call>>
    BY <1>2
  <2> HIDE DEF items, one, two, three
  <2>2. Above(items, Below) = Above(three, Above(two, Above(one, Below)))
    BY <2>1, ThreeAbove
  <2> QED
    BY <2>2, Zenon DEF Above, one, two, three
<1> HIDE DEF items
<1>12. \A i \in 1..Len(items) : items[i] \in {call, half, other} /\ i \in {1, 2, 3} /\ (items[i] = half => i = 2)
  BY <1>7, <1>10
<1>13. Sole(items, 2) /\ items[2].do \in FrameOwers /\ 2 \in 1..Len(items)
  BY <1>7, <1>10, <1>12 DEF Sole, Owers, FrameOwers, ScopeOwers
<1>14. /\ EnvironmentOK' /\ Grows(store, store') /\ store' = store
       /\ Balanced(Scopes', stack') /\ HalvesFit(callFrames', Below)
       /\ n = CallOf(Below, Len(Below))
       /\ callFrames'[n + 1].ret = ret /\ Env!CurFuncRetType' = ret
       /\ callFrames'[n].ret = Env!CurFuncRetType
  BY <1>1, <1>2, <1>10, <1>13, FrameUp
<1>15. HalvesFit(callFrames', stack')
  <2> DEFINE top == <<other>> \o Below
             next == <<half>> \o top
  <2>1. /\ IsSeq(<<other>>) /\ Len(<<other>>) = 1 /\ <<other>>[1] = other
        /\ IsSeq(<<half>>)
        /\ IsSeq(<<call>>) /\ Len(<<call>>) = 1 /\ <<call>>[1] = call
    BY SeqSingle
  <2>2. HalvesFit(callFrames', top)
    <3>1. \A i \in 1..Len(<<other>>) : <<other>>[i].do # "HalfEnd"
      BY <1>7, <2>1
    <3> QED
      BY <1>2, <1>14, <2>1, <3>1, HalvesAbove
  <2>3. IsSeq(top) /\ Len(top) = 1 + Len(Below) /\ top[1] = other /\ top # <<>> /\ Len(Below) \in Nat
    <3>1. IsSeq(top) /\ Len(top) = 1 + Len(Below) /\ Len(Below) \in Nat
          /\ \A i \in 1..Len(top) : top[i] = IF i <= 1 THEN <<other>>[i] ELSE Below[i - 1]
      BY <1>2, <2>1, SeqConcat, SeqParts
    <3>2. 1 \in 1..Len(top) /\ 1 <= 1
      BY <3>1
    <3> QED
      BY <2>1, <3>1, <3>2, SeqParts
  <2>4. CallOf(top, Len(top)) = n
    <3>1. \A i \in 1..Len(<<other>>) : <<other>>[i].do \notin FrameOwers
      BY <1>7, <2>1 DEF FrameOwers
    <3>2. Len(top) \in Len(Below)..Len(Below) + Len(<<other>>)
      BY <2>1, <2>3
    <3> QED
      BY <1>2, <1>14, <2>1, <3>1, <3>2, CallOfAbove
  <2> HIDE DEF top, n
  <2>5. n > 0
    BY <1>2 DEF n
  <2>6. HalvesFit(callFrames', next)
    <3>1. top[1].do \notin FrameOwers
      BY <1>7, <2>3 DEF FrameOwers
    <3>2. callFrames'[n + 1].ret = top[1].second.type.params[1].type /\ callFrames'[n].ret = top[1].second.type.ret
      BY <1>6, <1>7, <1>9, <1>14, <2>3
    <3> QED
      BY <1>7, <2>2, <2>3, <2>4, <2>5, <3>1, <3>2, HalfPushed
  <2>7. IsSeq(next)
    BY <2>1, <2>3, SeqConcat
  <2> HIDE DEF next
  <2>8. HalvesFit(callFrames', <<call>> \o next)
    <3>1. \A i \in 1..Len(<<call>>) : <<call>>[i].do # "HalfEnd"
      BY <1>7, <2>1
    <3> QED
      BY <2>1, <2>6, <2>7, <3>1, HalvesAbove
  <2> QED
    BY <1>1, <1>11, <2>8 DEF top, next
<1>16. InOrder(items)
  <2>1. \A i \in 1..(Len(items) - 1) : i \in {1, 2}
    BY <1>10
  <2>2. items[1 + 1] = half /\ items[2 + 1] = other
    BY <1>10
  <2> QED
    BY <1>7, <1>10, <2>1, <2>2 DEF InOrder, MayFollow, FrameOwers, Leaving, ExpressionKinds
<1>17. \A i \in 1..Len(items) : IsItem(items[i], store') /\ items[i].do \notin Registering
  BY <1>7, <1>12, <1>14 DEF Registering
<1>18. Current.do # "CallEnd" /\ Replaces(items[Len(items)].do, Current.do)
  BY <1>2, <1>7, <1>10 DEF Replaces, Leaving, ExpressionKinds
<1>19. ResultAt(items[1], tmpResult', Env!CurFuncRetType')
  BY <1>1, <1>8, <1>10, <1>14
<1>20. StackOK' /\ ResultFits'
  BY <1>1, <1>2, <1>10, <1>14, <1>15, <1>16, <1>17, <1>18, <1>19, Step
<1> QED
  BY <1>1, <1>2, <1>6, <1>14, <1>20, SameFlags DEF IInv, IsResult

LEMMA CallSecondHalfKeeps == ASSUME IInv, CallSecondHalf PROVE IInv'
<1> DEFINE args == <<tmpResult>>
           call == [do |-> "Call", func |-> Current.second, args |-> args]
           half == [do |-> "HalfEnd"]
           items == <<call, half>>
           ret == Current.second.type.ret
           n == Len(callFrames)
<1>1. At("SecondHalf")
  BY DEF CallSecondHalf
<1>2. CASE IsEmpty
  BY <1>2, Thrown DEF CallSecondHalf
<1>3. CASE ~IsEmpty
  <2>1. /\ Env!CallingFunction(ret) /\ tmpResult' = Nothing /\ UNCHANGED flags
        /\ stack' = items \o Below
    BY <1>3 DEF CallSecondHalf, Goto, Below
  <2>2. /\ EnvironmentOK /\ StackOK /\ FlagsAreBoolean /\ stack # <<>>
        /\ Current.do = "SecondHalf" /\ IsItem(Current, store)
        /\ Current.do \notin Owers \cup Registering
        /\ ResultAt(Current, tmpResult, Env!CurFuncRetType)
        /\ Len(callFrames) > 0
        /\ IsSeq(Below) /\ Below # <<>> /\ Below[1].do \in FrameOwers
    BY <1>1, AtCall
  <2>3. IsFunction(Current.second) /\ Len(Current.second.type.params) = 1
    BY <2>2 DEF IsItem
  <2>4. /\ tmpResult = ValueArg(tmpResult.value) /\ tmpResult.value.type = Current.second.type.params[1].type
        /\ ret = Env!CurFuncRetType
    BY <1>3, <2>2 DEF ResultAt, Returns, IsEmpty
  <2>5. tmpResult.tag = "value"
    BY <2>4 DEF ValueArg
  <2>6. IsSeq(args) /\ Len(args) = 1 /\ args[1] = tmpResult /\ DOMAIN args = 1..1
    BY SeqSingle, SeqParts
  <2> HIDE DEF args
  <2>7. AreArgs(args, store)
    BY <1>3, <2>6, ResultIsArg DEF AreArgs, IInv, IsEmpty
  <2>8. ArgsMatchParams(args, Current.second.type.params, store)
    BY <2>3, <2>4, <2>5, <2>6 DEF ArgsMatchParams, ArgMatchesParam, ArgType
  <2>9. /\ IsItem(call, store) /\ IsItem(half, store)
        /\ call.do = "Call" /\ half.do = "HalfEnd"
    BY <2>3, <2>7, <2>8 DEF IsItem, ExpressionKinds, StatementKinds
  <2>10. ResultAt(call, Nothing, ret)
    BY DEF ResultAt, Between, StatementKinds
  <2>11. IsSeq(items) /\ Len(items) = 2 /\ items[1] = call /\ items[2] = half /\ items # <<>>
    BY SeqPair
  <2> HIDE DEF call, half, ret
  <2>12. items \o Below = <<call>> \o (<<half>> \o Below)
    <3> DEFINE one == <<half>>
               two == <<call>>
    <3>1. IsSeq(Below) /\ items = <<call, half>> /\ one = <<half>> /\ two = <<call>>
      BY <2>2
    <3> HIDE DEF items, one, two
    <3>2. Above(items, Below) = Above(two, Above(one, Below))
      BY <3>1, TwoAbove
    <3> QED
      BY <3>2, Zenon DEF Above, one, two
  <2> HIDE DEF items
  <2>13. \A i \in 1..Len(items) : items[i] \in {call, half} /\ i \in {1, 2}
    BY <2>11
  <2>14. Sole(items, 2) /\ items[2].do \in FrameOwers /\ 2 \in 1..Len(items)
    BY <2>9, <2>11, <2>13 DEF Sole, Owers, FrameOwers, ScopeOwers
  <2>15. /\ EnvironmentOK' /\ Grows(store, store') /\ store' = store
         /\ Balanced(Scopes', stack') /\ HalvesFit(callFrames', Below)
         /\ n = CallOf(Below, Len(Below))
         /\ callFrames'[n + 1].ret = ret /\ Env!CurFuncRetType' = ret
         /\ callFrames'[n].ret = Env!CurFuncRetType
    BY <2>1, <2>2, <2>11, <2>14, FrameUp
  <2>16. HalvesFit(callFrames', stack')
    <3> DEFINE next == <<half>> \o Below
    <3>1. IsSeq(<<half>>) /\ IsSeq(<<call>>) /\ Len(<<call>>) = 1 /\ <<call>>[1] = call
      BY SeqSingle
    <3>2. n > 0
      BY <2>2
    <3> HIDE DEF n
    <3>3. HalvesFit(callFrames', next)
      <4>1. Below[1].do # "SecondHalf" /\ callFrames'[n + 1].ret = callFrames'[n].ret
        BY <2>2, <2>4, <2>15 DEF FrameOwers
      <4> QED
        BY <2>2, <2>9, <2>15, <3>2, <4>1, HalfPushed
    <3>4. IsSeq(next)
      BY <2>2, <3>1, SeqConcat
    <3> HIDE DEF next
    <3>5. HalvesFit(callFrames', <<call>> \o next)
      <4>1. \A i \in 1..Len(<<call>>) : <<call>>[i].do # "HalfEnd"
        BY <2>9, <3>1
      <4> QED
        BY <3>1, <3>3, <3>4, <4>1, HalvesAbove
    <3> QED
      BY <2>1, <2>12, <3>5 DEF next
  <2>17. InOrder(items)
    <3>1. \A i \in 1..(Len(items) - 1) : i = 1
      BY <2>11
    <3> QED
      BY <2>9, <2>11, <3>1 DEF InOrder, MayFollow, FrameOwers, Leaving, ExpressionKinds
  <2>18. \A i \in 1..Len(items) : IsItem(items[i], store') /\ items[i].do \notin Registering
    BY <2>9, <2>13, <2>15 DEF Registering
  <2>19. Current.do # "CallEnd" /\ Replaces(items[Len(items)].do, Current.do)
    BY <2>2, <2>9, <2>11 DEF Replaces, Leaving, ExpressionKinds
  <2>20. ResultAt(items[1], tmpResult', Env!CurFuncRetType')
    BY <2>1, <2>10, <2>11, <2>15
  <2>21. StackOK' /\ ResultFits'
    BY <2>1, <2>2, <2>11, <2>15, <2>16, <2>17, <2>18, <2>19, <2>20, Step
  <2> QED
    BY <2>1, <2>2, <2>15, <2>21, SameFlags DEF IInv, IsResult
<1> QED
  BY <1>2, <1>3
LEMMA RoundTakesAnInt ==
  LET params == BuiltinTable["round"].type.params
  IN  Len(params) = 2 /\ params[2].type = IntType
<1> DEFINE two == <<FloatType, IntType>>
           params == [i \in 1..2 |-> VariableType(two[i], FALSE)]
<1>1. BuiltinTable["round"] = Builtin("round", two, FloatType)
  BY DEF BuiltinTable
<1>2. DOMAIN two = 1..2 /\ two[2] = IntType
  OBVIOUS
<1> HIDE DEF two
<1>3. Builtin("round", two, FloatType).type.params = params
  BY <1>2 DEF Builtin, FunctionType
<1>4. Len(params) = 2
  BY SeqMade
<1>5. params[2].type = IntType
  BY <1>2 DEF VariableType
<1> HIDE DEF params
<1>6. BuiltinTable["round"].type.params = params
  BY <1>1, <1>3
<1> QED
  BY <1>4, <1>5, <1>6

LEMMA BuiltinReturns ==
  ASSUME IInv, CallBuiltin
  PROVE  Returns(tmpResult', Env!CurFuncRetType) /\ IsResult(tmpResult', store')
<1> DEFINE func == Current.func
           name == func.val.name
           args == [i \in DOMAIN Current.args |-> ExtractValue(Current.args[i], store)]
<1>1. /\ At("Call") /\ func.val.impl = "builtin"
      /\ tmpResult' \in BuiltinResults(name, args)
      /\ stack' = Below /\ UNCHANGED envVars /\ UNCHANGED flags
  BY DEF CallBuiltin, Calling, Below
<1>2. /\ EnvironmentOK /\ StackOK /\ FlagsAreBoolean /\ stack # <<>>
      /\ Current.do = "Call" /\ IsItem(Current, store)
      /\ Current.do \notin Owers \cup Registering
      /\ ResultAt(Current, tmpResult, Env!CurFuncRetType)
  BY <1>1, AtCall
<1>3. /\ IsFunction(func) /\ AreArgs(Current.args, store)
      /\ ArgsMatchParams(Current.args, func.type.params, store)
      /\ Env!CurFuncRetType = func.type.ret
  BY <1>2 DEF IsItem, ResultAt
<1>4. name \in DOMAIN BuiltinTable /\ func = BuiltinTable[name]
  BY <1>1, <1>3, FunctionParts
<1>5. ASSUME name = "round"
      PROVE  args[2].val \in Int
  <2> DEFINE params == func.type.params
  <2>1. Len(params) = 2 /\ params[2].type = IntType
    BY <1>4, <1>5, RoundTakesAnInt
  <2>2. IsSeq(Current.args) /\ Len(Current.args) = 2 /\ DOMAIN Current.args = 1..2
    BY <1>3, <2>1, SeqParts DEF AreArgs, ArgsMatchParams
  <2>3. IsArg(Current.args[2], store) /\ ArgMatchesParam(Current.args[2], params[2], store)
    BY <1>3, <2>2 DEF AreArgs, ArgsMatchParams
  <2>4. args[2] = ExtractValue(Current.args[2], store)
    BY <2>2
  <2>5. IsLegal(args[2]) /\ args[2].type = IntType
    BY <1>2, <2>1, <2>3, <2>4, ArgValue DEF EnvironmentOK, ArgMatchesParam
  <2>6. IsScalar(args[2])
    BY <2>5, LegalIsTyped, DistinctTypes
  <2> QED
    BY <2>5, <2>6, ScalarTypes, IntRange
<1>6. \/ tmpResult' = Nothing
      \/ /\ tmpResult' = ValueArg(tmpResult'.value) /\ IsScalar(tmpResult'.value)
         /\ tmpResult'.value.type = func.type.ret
  BY <1>1, <1>4, <1>5, BuiltinIsTyped
<1>7. Returns(tmpResult', Env!CurFuncRetType) /\ IsResult(tmpResult', store')
  BY <1>3, <1>6, ValueIsArg DEF Returns, IsResult, IsLegal
<1> QED
  BY <1>7

LEMMA CallBuiltinKeeps == ASSUME IInv, CallBuiltin PROVE IInv'
<1>1. At("Call") /\ stack' = Below /\ UNCHANGED envVars /\ UNCHANGED flags
  BY DEF CallBuiltin, Calling, Below
<1>2. /\ EnvironmentOK /\ StackOK /\ FlagsAreBoolean /\ stack # <<>>
      /\ Current.do = "Call" /\ Current.do \notin Owers \cup Registering
  BY <1>1, AtCall
<1>3. Returns(tmpResult', Env!CurFuncRetType) /\ IsResult(tmpResult', store')
  BY BuiltinReturns
<1>4. EnvironmentOK' /\ StackOK' /\ ResultFits'
  BY <1>1, <1>2, <1>3, Leave
<1> QED
  BY <1>1, <1>2, <1>3, <1>4, SameFlags DEF IInv

(* The values bound to the first parameters, then the arguments of the call,  *)
(* match the parameters of the function that they were bound to.             *)
LEMMA BoundArgsMatch ==
  ASSUME NEW st, NEW target, IsFunction(target), NEW bound, BindsTo(bound, target.type.params),
         \A i \in 1..Len(bound) : IsLegal(bound[i].value),
         NEW args, AreArgs(args, st),
         ArgsMatchParams(args, BoundFunction(target, bound).type.params, st)
  PROVE  AreArgs(bound \o args, st) /\ ArgsMatchParams(bound \o args, target.type.params, st)
<1> DEFINE params == target.type.params
           left == SubSeq(params, Len(bound) + 1, Len(params))
           all == bound \o args
<1>1. /\ IsSeq(params) /\ IsSeq(bound) /\ IsSeq(args)
      /\ Len(params) \in Nat /\ Len(bound) \in Nat /\ Len(args) \in Nat /\ Len(bound) <= Len(params)
  BY FunctionHasType, SeqParts DEF IsParams, BindsTo, AreArgs
<1>2. BoundFunction(target, bound).type.params = left
  BY DEF BoundFunction, BindFrontFuncType, FunctionType
<1>3. /\ Len(left) = Len(params) - Len(bound)
      /\ \A i \in 1..Len(left) : left[i] = params[Len(bound) + i]
  <2>1. /\ Len(left) = IF Len(bound) + 1 <= Len(params) THEN Len(params) - (Len(bound) + 1) + 1 ELSE 0
        /\ \A i \in 1..Len(left) : left[i] = params[Len(bound) + 1 + i - 1]
    BY <1>1, SeqSub
  <2> HIDE DEF left
  <2>2. Len(left) = Len(params) - Len(bound)
    BY <1>1, <2>1
  <2>3. \A i \in 1..Len(left) : Len(bound) + 1 + i - 1 = Len(bound) + i
    BY <1>1, <2>2
  <2> QED
    BY <2>1, <2>2, <2>3
<1> HIDE DEF left
<1>4. Len(args) = Len(left) /\ DOMAIN args = 1..Len(args)
      /\ \A i \in 1..Len(args) : ArgMatchesParam(args[i], left[i], st)
  BY <1>1, <1>2, SeqParts DEF ArgsMatchParams
<1>5. /\ IsSeq(all) /\ Len(all) = Len(params) /\ DOMAIN all = 1..Len(params)
      /\ \A i \in 1..Len(params) : all[i] = IF i <= Len(bound) THEN bound[i] ELSE args[i - Len(bound)]
  <2>1. /\ IsSeq(all) /\ Len(all) = Len(bound) + Len(args)
        /\ \A i \in 1..Len(all) : all[i] = IF i <= Len(bound) THEN bound[i] ELSE args[i - Len(bound)]
    BY <1>1, SeqConcat
  <2> HIDE DEF all
  <2>2. Len(all) = Len(params)
    BY <1>1, <1>3, <1>4, <2>1
  <2> QED
    BY <2>1, <2>2, SeqParts
<1> HIDE DEF all
<1>6. ASSUME NEW i \in 1..Len(params)
      PROVE  IsArg(all[i], st) /\ ArgMatchesParam(all[i], params[i], st)
  <2>1. CASE i <= Len(bound)
    <3>1. i \in 1..Len(bound) /\ all[i] = bound[i]
      BY <1>1, <1>5, <2>1
    <3>2. bound[i] = ValueArg(bound[i].value) /\ bound[i].value.type = params[i].type /\ IsLegal(bound[i].value)
      BY <3>1 DEF BindsTo
    <3>3. bound[i].tag = "value"
      BY <3>2 DEF ValueArg
    <3> QED
      BY <3>1, <3>2, <3>3 DEF IsArg, ArgMatchesParam, ArgType
  <2>2. CASE ~(i <= Len(bound))
    <3> DEFINE k == i - Len(bound)
    <3>1. k \in 1..Len(args) /\ k \in 1..Len(left) /\ Len(bound) + k = i
      BY <1>1, <1>3, <1>4, <2>2
    <3>2. all[i] = args[k]
      BY <1>5, <2>2
    <3> HIDE DEF k
    <3>3. left[k] = params[i]
      BY <1>3, <3>1
    <3> QED
      BY <1>4, <3>1, <3>2, <3>3 DEF AreArgs
  <2> QED
    BY <2>1, <2>2
<1>7. AreArgs(all, st) /\ ArgsMatchParams(all, params, st)
  BY <1>5, <1>6 DEF AreArgs, ArgsMatchParams
<1> QED
  BY <1>7 DEF all

LEMMA CallBindFrontKeeps == ASSUME IInv, CallBindFront PROVE IInv'
<1> DEFINE func == Current.func
           target == func.val.target
           bound == func.val.bound
           all == bound \o Current.args
           call == [do |-> "Call", func |-> target, args |-> all]
<1>1. /\ At("Call") /\ func.val.impl = "bindFront"
      /\ stack' = <<call>> \o Below
      /\ UNCHANGED envVars /\ UNCHANGED tmpResult /\ UNCHANGED flags
  BY DEF CallBindFront, Calling, Goto, Below
<1>2. /\ EnvironmentOK /\ StackOK /\ FlagsAreBoolean /\ stack # <<>>
      /\ Current.do = "Call" /\ IsItem(Current, store)
      /\ Current.do \notin Owers \cup Registering
      /\ ResultAt(Current, tmpResult, Env!CurFuncRetType)
  BY <1>1, AtCall
<1>3. /\ IsFunction(func) /\ AreArgs(Current.args, store)
      /\ ArgsMatchParams(Current.args, func.type.params, store)
      /\ tmpResult = Nothing /\ Env!CurFuncRetType = func.type.ret
  BY <1>2 DEF IsItem, ResultAt
<1>4. /\ IsFunction(target) /\ BindsTo(bound, target.type.params)
      /\ \A i \in 1..Len(bound) : IsLegal(bound[i].value)
      /\ func = BoundFunction(target, bound)
  BY <1>1, <1>3, FunctionParts
<1>5. func.type.ret = target.type.ret
  BY <1>4 DEF BoundFunction, BindFrontFuncType, FunctionType
<1>6. AreArgs(all, store) /\ ArgsMatchParams(all, target.type.params, store)
  <2> HIDE DEF target, bound
  <2>1. ArgsMatchParams(Current.args, BoundFunction(target, bound).type.params, store)
    BY <1>3, <1>4
  <2> QED
    BY <1>3, <1>4, <2>1, BoundArgsMatch
<1> HIDE DEF all, target
<1>7. /\ call.do = "Call" /\ IsItem(call, store)
      /\ ResultAt(call, tmpResult', Env!CurFuncRetType)
  BY <1>1, <1>3, <1>4, <1>5, <1>6 DEF IsItem, ExpressionKinds, StatementKinds, ResultAt, Between
<1> HIDE DEF call
<1>8. MayCome(call) /\ Replaces(call.do, Current.do)
  BY <1>2, <1>7 DEF MayCome, Replaces, Registering, Owers, FrameOwers, ScopeOwers, Leaving, ExpressionKinds
<1>9. EnvironmentOK' /\ StackOK' /\ ResultFits'
  BY <1>1, <1>2, <1>7, <1>8, Become
<1> QED
  BY <1>1, <1>3, <1>9, <1>2, SameFlags DEF IInv, IsResult
LEMMA CallGlobalKeeps == ASSUME IInv, CallGlobal PROVE IInv'
<1> DEFINE func == Current.func
           def == func.val.def
           args == Current.args
           params == [i \in DOMAIN args |-> [do |-> "Parameter", param |-> def.params[i], arg |-> args[i]]]
           body == <<def.body>>
           items == params \o body
<1>1. /\ At("Call") /\ func.val.impl = "global"
      /\ stack' = items \o Below
      /\ UNCHANGED envVars /\ UNCHANGED tmpResult /\ UNCHANGED flags
  BY DEF CallGlobal, Calling, Goto, Below
<1>2. /\ EnvironmentOK /\ StackOK /\ FlagsAreBoolean /\ stack # <<>>
      /\ Current.do = "Call" /\ IsItem(Current, store)
      /\ Current.do \notin Owers \cup Registering
      /\ ResultAt(Current, tmpResult, Env!CurFuncRetType)
  BY <1>1, AtCall
<1>3. /\ IsFunction(func) /\ AreArgs(args, store)
      /\ ArgsMatchParams(args, func.type.params, store)
      /\ tmpResult = Nothing
  BY <1>2 DEF IsItem, ResultAt
<1>4. IsDefinition(def) /\ func = GlobalFunction(def)
  BY <1>1, <1>3, FunctionParts
<1>5. func.type.params = [i \in DOMAIN def.params |-> def.params[i].vt]
  BY <1>4 DEF GlobalFunction, SignatureType, FunctionType
<1> HIDE DEF func, def, args
<1>6. /\ Len(args) \in Nat /\ DOMAIN args = 1..Len(args) /\ DOMAIN def.params = 1..Len(args)
      /\ \A i \in 1..Len(args) : func.type.params[i] = def.params[i].vt
  <2> DEFINE vts == [i \in DOMAIN def.params |-> def.params[i].vt]
  <2>1. IsSeq(def.params)
    BY <1>4 DEF IsDefinition, IsSeq
  <2>2. Len(def.params) \in Nat /\ DOMAIN def.params = 1..Len(def.params)
    BY <2>1, SeqParts
  <2>3. Len(vts) = Len(def.params)
    BY <2>2, SeqMade
  <2>4. Len(args) \in Nat /\ DOMAIN args = 1..Len(args)
    BY <1>3, SeqParts DEF AreArgs
  <2>5. Len(args) = Len(def.params)
    BY <1>3, <1>5, <2>3 DEF ArgsMatchParams
  <2>6. \A i \in DOMAIN def.params : vts[i] = def.params[i].vt
    OBVIOUS
  <2> HIDE DEF vts
  <2> QED
    BY <1>5, <2>2, <2>4, <2>5, <2>6 DEF vts
<1>7. /\ IsSeq(params) /\ Len(params) = Len(args)
      /\ \A i \in 1..Len(args) : params[i] = [do |-> "Parameter", param |-> def.params[i], arg |-> args[i]]
  BY <1>6, SeqMade
<1>8. IsSeq(body) /\ Len(body) = 1 /\ body[1] = def.body
  BY SeqSingle
<1>9. def.body \in Statements /\ def.body.do = "CodeBlock"
  BY <1>4, BlockComes DEF IsDefinition
<1> HIDE DEF params, body
<1>10. /\ IsSeq(items) /\ Len(items) = Len(args) + 1
       /\ \A i \in 1..Len(items) : items[i] = IF i <= Len(args) THEN params[i] ELSE body[i - Len(args)]
  <2>1. IsSeq(params) /\ IsSeq(body)
    BY <1>7, <1>8
  <2>2. /\ IsSeq(items) /\ Len(items) = Len(params) + Len(body)
        /\ \A i \in 1..Len(items) : items[i] = IF i <= Len(params) THEN params[i] ELSE body[i - Len(params)]
    BY <2>1, SeqConcat
  <2> HIDE DEF items
  <2> QED
    BY <1>7, <1>8, <2>2
<1> HIDE DEF items
<1>11. ASSUME NEW i \in 1..Len(args)
       PROVE  IsItem(items[i], store) /\ items[i].do = "Parameter"
  <2> DEFINE x == [do |-> "Parameter", param |-> def.params[i], arg |-> args[i]]
  <2>1. items[i] = x
    BY <1>6, <1>7, <1>10
  <2>2. x.do = "Parameter" /\ x.param = def.params[i] /\ x.arg = args[i]
    OBVIOUS
  <2>3. def.params[i].name \in Names /\ def.params[i].vt.mutable \in BOOLEAN
    BY <1>4, <1>6 DEF IsDefinition
  <2>4. IsArg(args[i], store) /\ ArgMatchesParam(args[i], def.params[i].vt, store)
    BY <1>3, <1>6 DEF AreArgs, ArgsMatchParams
  <2> HIDE DEF x
  <2> QED
    BY <2>1, <2>2, <2>3, <2>4 DEF IsItem, ExpressionKinds, StatementKinds
<1>12. /\ items[Len(args) + 1] = def.body /\ Len(args) + 1 \in 1..Len(items)
       /\ \A i \in 1..Len(items) : i \in 1..Len(args) \/ i = Len(args) + 1
  BY <1>6, <1>8, <1>10
<1>13. IsItem(def.body, store)
  BY <1>9, StatementComes
<1>14. \A i \in 1..Len(items) : IsItem(items[i], store) /\ items[i].do \in {"Parameter", "CodeBlock"}
  BY <1>9, <1>11, <1>12, <1>13
<1>15. Plain(items) /\ \A i \in 1..Len(items) : items[i].do \notin Registering
  BY <1>14 DEF Plain, Owers, FrameOwers, ScopeOwers, Registering
<1>16. InOrder(items)
  <2>1. \A i \in 1..(Len(items) - 1) : i \in 1..Len(items) /\ i + 1 \in 1..Len(items)
    BY <1>6, <1>10
  <2> QED
    BY <1>14, <2>1 DEF InOrder, MayFollow, Leaving, ExpressionKinds
<1>17. items # <<>> /\ 1 \in 1..Len(items) /\ Len(items) \in 1..Len(items)
  BY <1>6, <1>10, SeqParts
<1>18. Replaces(items[Len(items)].do, Current.do)
  BY <1>2, <1>14, <1>17 DEF Replaces, Leaving, ExpressionKinds
<1>19. ResultAt(items[1], tmpResult', Env!CurFuncRetType)
  <2>1. tmpResult' = Nothing
    BY <1>1, <1>3
  <2> QED
    BY <1>14, <1>17, <2>1 DEF ResultAt, Returns
<1>20. EnvironmentOK' /\ StackOK' /\ ResultFits'
  BY <1>1, <1>2, <1>10, <1>14, <1>15, <1>16, <1>17, <1>18, <1>19, PlainStep
<1> QED
  BY <1>1, <1>2, <1>3, <1>20, SameFlags DEF IInv, IsResult
-----------------------------------------------------------------------------
(* The start of a program: its functions are registered, then main is called. *)

LEMMA VisitFunctionDefinitionKeeps == ASSUME IInv, VisitFunctionDefinition PROVE IInv'
<1> DEFINE f == GlobalFunction(Current)
<1>1. At("FunctionDefinition")
  BY DEF VisitFunctionDefinition
<1>2. CASE Current.name \in DOMAIN functions
  BY <1>2, Thrown DEF VisitFunctionDefinition
<1>3. CASE Current.name \notin DOMAIN functions
  <2>1. /\ Env!RegisterFunction(Current.name, f) /\ Return
        /\ UNCHANGED tmpResult /\ UNCHANGED flags
    BY <1>3 DEF VisitFunctionDefinition
  <2>2. /\ EnvironmentOK /\ StackOK /\ FlagsAreBoolean /\ stack # <<>>
        /\ Current.do = "FunctionDefinition" /\ IsDefinition(Current)
    BY <1>1, Running DEF IsItem
  <2>3. stack' = Below
    BY <2>1, <2>2, Returned DEF Return, Goto
  <2>4. IsFunction(f) /\ Current.name \in Names
    BY <2>2, GlobalIsFunction DEF IsDefinition
  <2> HIDE DEF f
  <2>5. /\ functions' = [n \in DOMAIN functions \cup {Current.name} |-> IF n = Current.name THEN f ELSE functions[n]]
        /\ callFrames' = callFrames /\ store' = store
    BY <2>1 DEF Env!RegisterFunction
  <2>6. FunctionsOK'
    BY <2>2, <2>4, <2>5 DEF EnvironmentOK, FunctionsOK
  <2>7. EnvironmentOK'
    BY <2>2, <2>5, <2>6 DEF EnvironmentOK
  <2>8. /\ IsSeq(Below) /\ Len(Below) \in Nat /\ Len(stack) = Len(Below) + 1
        /\ stack = <<Current>> \o Below /\ Current = stack[1]
        /\ \A i \in 1..Len(Below) : IsItem(Below[i], store) /\ Below[i] = stack[i + 1]
    BY <2>2, StackParts
  <2>9. Starting(stack)
    <3>1. 1 \in 1..Len(stack)
      BY <2>8
    <3> QED
      BY <2>2, <2>8, <3>1 DEF StackOK, Underway
  <2>10. Below # <<>> /\ Len(Below) > 0
    <3>1. Len(stack) # 1
      BY <2>2, <2>8, <2>9 DEF Starting
    <3> QED
      BY <2>8, <3>1, SeqParts
  <2>11. Starting(Below)
    <3>1. \A i \in 1..(Len(Below) - 1) : i + 1 \in 1..(Len(stack) - 1) /\ i \in 1..Len(Below)
      BY <2>8
    <3>2. Len(Below) \in 1..Len(Below)
      BY <2>8, <2>10
    <3> QED
      BY <2>8, <2>9, <2>10, <3>1, <3>2 DEF Starting
  <2>12. Below[1].do \in Registering
    <3>1. CASE Len(Below) = 1
      BY <2>11, <3>1 DEF Starting, Registering
    <3>2. CASE Len(Below) # 1
      <4>1. 1 \in 1..(Len(Below) - 1)
        BY <2>8, <2>10, <3>2
      <4> QED
        BY <2>11, <4>1 DEF Starting, Registering
    <3> QED
      BY <3>1, <3>2
  <2>13. InOrder(Below)
    <3>1. \A i \in 1..(Len(Below) - 1) :
            i + 1 \in 1..(Len(stack) - 1) /\ i \in 1..Len(Below) /\ i + 1 \in 1..Len(Below)
      BY <2>8
    <3> QED
      BY <2>2, <2>8, <3>1 DEF StackOK, InOrder
  <2>14. Plain(<<Current>>) /\ IsSeq(<<Current>>)
    <3>1. \A i \in 1..Len(<<Current>>) : <<Current>>[i] = Current
      BY SeqSingle
    <3> QED
      BY <2>2, <3>1, SeqSingle DEF Plain, Owers, FrameOwers, ScopeOwers
  <2>15. Balanced(Scopes, Below)
    BY <2>2, <2>8, <2>14, BalancedPlain DEF StackOK
  <2>16. HalvesFit(callFrames, Below)
    <3>1. HalvesFit(callFrames, <<Current>> \o Below)
      BY <2>2, <2>8 DEF StackOK
    <3> QED
      BY <2>8, <2>14, <3>1, HalvesBelow
  <2>17. Scopes' = Scopes
    BY <2>5 DEF Scopes
  <2>18. StackOK'
    BY <2>3, <2>5, <2>8, <2>11, <2>13, <2>15, <2>16, <2>17 DEF StackOK, AreItems
  <2>19. tmpResult' = Nothing
    BY <2>1, <2>9 DEF IInv, ResultFits
  <2>20. Current' = Below[1]
    BY <2>3, <2>8, <2>10, SeqTail DEF Current, IsSeq
  <2>21. ResultFits'
    BY <2>12, <2>19, <2>20 DEF ResultFits, ResultAt, Registering, Between, StatementKinds
  <2> QED
    BY <2>1, <2>2, <2>7, <2>18, <2>19, <2>21, SameFlags DEF IInv, IsResult
<1> QED
  BY <1>2, <1>3

LEMMA ExecuteMainKeeps == ASSUME IInv, ExecuteMain PROVE IInv'
<1> DEFINE f == functions["main"]
           call == [do |-> "Call", func |-> f, args |-> <<>>]
           end == [do |-> "CallEnd"]
           items == <<call, end>>
<1>1. At("ExecuteMain")
  BY DEF ExecuteMain
<1>2. CASE "main" \notin DOMAIN functions
  BY <1>2, Thrown DEF ExecuteMain
<1>3. CASE "main" \in DOMAIN functions /\ f.type # MainType
  BY <1>3, Thrown DEF ExecuteMain
<1>4. CASE "main" \in DOMAIN functions /\ f.type = MainType
  <2>1. Env!CallingFunction(IntType) /\ UNCHANGED tmpResult /\ UNCHANGED flags /\ stack' = items \o Below
    BY <1>4 DEF ExecuteMain, Goto, Below
  <2>2. /\ EnvironmentOK /\ StackOK /\ FlagsAreBoolean /\ stack # <<>> /\ Current.do = "ExecuteMain"
    BY <1>1, Running
  <2>3. IsFunction(f)
    BY <1>4, <2>2 DEF EnvironmentOK, FunctionsOK
  <2>4. f.type.params = <<>> /\ f.type.ret = IntType
    BY <1>4 DEF MainType, FunctionType
  <2> HIDE DEF f
  <2>5. IsSeq(<<>>) /\ Len(<<>>) = 0 /\ DOMAIN <<>> = {}
    BY DEF IsSeq
  <2>6. \A st : AreArgs(<<>>, st) /\ ArgsMatchParams(<<>>, <<>>, st)
    BY <2>5 DEF AreArgs, ArgsMatchParams
  <2>7. call.do = "Call" /\ end.do = "CallEnd" /\ call.func = f /\ call.args = <<>>
    OBVIOUS
  <2>8. IsSeq(items) /\ Len(items) = 2 /\ items[1] = call /\ items[2] = end /\ items # <<>>
    BY SeqPair
  <2> HIDE DEF items, call, end
  <2>9. \A st : IsItem(call, st) /\ IsItem(end, st)
    BY <2>3, <2>4, <2>6, <2>7 DEF IsItem, ExpressionKinds, StatementKinds
  <2>10. /\ IsSeq(Below) /\ Len(Below) \in Nat /\ Len(stack) = Len(Below) + 1
         /\ Current = stack[1]
    BY <2>2, StackParts
  <2>11. Starting(stack)
    <3>1. 1 \in 1..Len(stack)
      BY <2>10
    <3> QED
      BY <2>2, <2>10, <3>1 DEF StackOK, Underway
  <2>12. Below = <<>>
    <3>1. ~(1 \in 1..(Len(stack) - 1))
      BY <2>2, <2>10, <2>11 DEF Starting
    <3>2. Len(Below) = 0
      BY <2>10, <3>1
    <3> QED
      BY <2>10, <3>2, SeqParts
  <2>13. stack' = items
    BY <2>1, <2>8, <2>12 DEF IsSeq
  <2>14. Current.do \notin Owers
    BY <2>2 DEF Owers, FrameOwers, ScopeOwers
  <2>15. \A i \in 1..Len(items) : items[i] \in {call, end} /\ i \in {1, 2}
    BY <2>8
  <2>16. Sole(items, 2) /\ items[2].do \in FrameOwers /\ 2 \in 1..Len(items)
    BY <2>7, <2>8, <2>15 DEF Sole, Owers, FrameOwers, ScopeOwers
  <2>17. /\ EnvironmentOK' /\ Balanced(Scopes', stack') /\ Env!CurFuncRetType' = IntType
    BY <2>1, <2>2, <2>8, <2>14, <2>16, FrameUp
  <2>18. HalvesFit(callFrames', items)
    <3>1. \A p \in 1..Len(items) : Waiting(items, p) \in {call, end}
      <4>1. \A p \in 1..Len(items) : Len(items) + 1 - p \in 1..Len(items)
        BY <2>8
      <4> QED
        BY <2>15, <4>1 DEF Waiting
    <3> QED
      BY <2>7, <3>1 DEF HalvesFit
  <2>19. InOrder(items) /\ Underway(items)
    <3>1. \A i \in 1..(Len(items) - 1) : i = 1
      BY <2>8
    <3> QED
      BY <2>7, <2>8, <2>15, <3>1 DEF InOrder, MayFollow, FrameOwers, Leaving, ExpressionKinds, Underway
  <2>20. AreItems(items, store')
    BY <2>8, <2>9, <2>15 DEF AreItems
  <2>21. StackOK'
    BY <2>13, <2>17, <2>18, <2>19, <2>20 DEF StackOK
  <2>22. tmpResult' = Nothing /\ tmpResult = Nothing
    BY <2>1, <2>11 DEF IInv, ResultFits
  <2>23. Current' = call
    BY <2>8, <2>13, SeqTail DEF Current
  <2>24. ResultFits'
    BY <2>4, <2>7, <2>17, <2>22, <2>23 DEF ResultFits, ResultAt, Between, StatementKinds
  <2> QED
    BY <2>1, <2>2, <2>17, <2>21, <2>22, <2>24, SameFlags DEF IInv, IsResult
<1> QED
  BY <1>2, <1>3, <1>4
-----------------------------------------------------------------------------
(* The invariant holds at the start and after every step.                    *)

LEMMA Initially == ASSUME Init PROVE IInv
<1> DEFINE main == [do |-> "ExecuteMain"]
           items == <<main>>
<1>1. /\ program \in Programs /\ stack = program \o items
      /\ functions = BuiltinTable /\ callFrames = <<>> /\ store = <<>> /\ tmpResult = Nothing
      /\ FlagsAreBoolean
  BY DEF Init, Constructed, VisitProgram, Env!Init, FlagsAreBoolean
<1>2. IsSeq(program) /\ \A i \in 1..Len(program) : IsDefinition(program[i])
  <2> DEFINE defs == {def \in {program[i] : i \in DOMAIN program} : IsDefinition(def)}
  <2>1. program \in Seq(defs)
    BY <1>1, ProgramsAreTrees
  <2>2. \A def \in defs : IsDefinition(def)
    OBVIOUS
  <2> HIDE DEF defs
  <2> QED
    BY <2>1, <2>2 DEF IsSeq
<1>3. main.do = "ExecuteMain" /\ \A i \in 1..Len(program) : program[i].do = "FunctionDefinition"
  BY <1>2 DEF IsDefinition
<1>4. IsSeq(items) /\ Len(items) = 1 /\ items[1] = main
  BY SeqSingle
<1> HIDE DEF main, items
<1>5. /\ IsSeq(stack) /\ Len(stack) = Len(program) + 1 /\ Len(program) \in Nat
      /\ \A i \in 1..Len(stack) : stack[i] = IF i <= Len(program) THEN program[i] ELSE items[i - Len(program)]
  <2> DEFINE s == program \o items
  <2>1. /\ IsSeq(s) /\ Len(s) = Len(program) + Len(items)
        /\ \A i \in 1..Len(s) : s[i] = IF i <= Len(program) THEN program[i] ELSE items[i - Len(program)]
    BY <1>2, <1>4, SeqConcat
  <2>2. stack = s /\ Len(program) \in Nat
    BY <1>1, <1>2, SeqParts
  <2> HIDE DEF s
  <2> QED
    BY <1>4, <2>1, <2>2
<1>6. /\ \A i \in 1..Len(program) : i \in 1..Len(stack) /\ stack[i] = program[i]
      /\ stack[Len(program) + 1] = main
      /\ \A i \in 1..Len(stack) : i \in 1..Len(program) \/ i = Len(program) + 1
  BY <1>4, <1>5
<1>7. IsItem(main, store) /\ \A i \in 1..Len(program) : IsItem(program[i], store)
  BY <1>2, <1>3 DEF IsItem, ExpressionKinds, StatementKinds
<1>8. \A i \in 1..Len(stack) : IsItem(stack[i], store) /\ stack[i].do \in Registering
  BY <1>3, <1>6, <1>7 DEF Registering
<1>9. stack # <<>> /\ Starting(stack)
  <2>1. stack # <<>>
    BY <1>5, SeqParts
  <2>2. \A i \in 1..(Len(stack) - 1) : i \in 1..Len(program)
    BY <1>5
  <2> QED
    BY <1>3, <1>5, <1>6, <2>1, <2>2 DEF Starting
<1>10. InOrder(stack)
  <2>1. \A i \in 1..(Len(stack) - 1) : i \in 1..Len(stack) /\ i + 1 \in 1..Len(stack)
    BY <1>5
  <2> QED
    BY <1>8, <2>1 DEF InOrder, MayFollow, Registering, Leaving, ExpressionKinds
<1>11. Balanced(Scopes, stack) /\ HalvesFit(callFrames, stack)
  <2>1. Plain(stack) /\ \A i \in 1..Len(stack) : stack[i].do # "HalfEnd"
    BY <1>8 DEF Plain, Registering, Owers, FrameOwers, ScopeOwers
  <2>2. IsSeq(<<>>) /\ stack = stack \o <<>> /\ Len(<<>>) = 0
    BY <1>5 DEF IsSeq
  <2>3. Scopes = <<>>
    BY <1>1 DEF Scopes
  <2>4. Balanced(Scopes, <<>>)
    <3>1. CallOf(<<>>, 0) = 0
      BY FS_EmptySet DEF CallOf
    <3>2. DOMAIN Scopes = {}
      BY <2>3
    <3> QED
      BY <2>2, <2>3, <3>1, <3>2 DEF Balanced
  <2>5. HalvesFit(callFrames, <<>>)
    BY <2>2 DEF HalvesFit
  <2> DEFINE none == <<>>
  <2>6. IsSeq(none) /\ stack = stack \o none /\ Balanced(Scopes, none) /\ HalvesFit(callFrames, none)
    BY <2>2, <2>4, <2>5
  <2> HIDE DEF none
  <2>7. Balanced(Scopes, stack \o none)
    BY <1>5, <2>1, <2>6, BalancedPlain
  <2>8. HalvesFit(callFrames, stack \o none)
    BY <1>5, <2>1, <2>6, HalvesAbove
  <2> QED
    BY <2>6, <2>7, <2>8, Zenon
<1>12. StackOK
  BY <1>5, <1>8, <1>9, <1>10, <1>11 DEF StackOK, AreItems
<1>13. FunctionsOK
  BY <1>1, BuiltinsAreNamed, BuiltinIsFunction DEF FunctionsOK
<1>14. IsStore(store) /\ AreFrames(callFrames, store)
  BY <1>1 DEF IsStore, AreFrames, IsSeq
<1>15. ResultFits
  <2>1. Current = stack[1] /\ 1 \in 1..Len(stack)
    BY <1>5, <1>9, SeqTail DEF Current
  <2>2. Current.do \in Registering
    BY <1>8, <2>1
  <2> QED
    BY <1>1, <2>2 DEF ResultFits, ResultAt, Registering, Between, StatementKinds
<1> QED
  BY <1>1, <1>12, <1>13, <1>14, <1>15 DEF IInv, EnvironmentOK, IsResult

(* Nothing but the status changes.                                           *)
LEMMA OtherwiseSame ==
  ASSUME IInv, UNCHANGED <<envVars, tmpResult, flags, stack>>
  PROVE  IInv'
<1>1. UNCHANGED <<functions, callFrames, store, tmpResult, stack>> /\ UNCHANGED flags
  BY DEF envVars
<1>2. EnvironmentOK' /\ IsResult(tmpResult, store)' /\ FlagsAreBoolean'
  BY <1>1 DEF IInv, EnvironmentOK, FunctionsOK, FlagsAreBoolean, flags
<1>3. Scopes' = Scopes /\ Env!CurFuncRetType' = Env!CurFuncRetType /\ Current' = Current
  BY <1>1 DEF Scopes, Env!CurFuncRetType, Env!Top, Current
<1>4. StackOK' /\ ResultFits'
  BY <1>1, <1>3 DEF IInv, StackOK, ResultFits
<1> QED
  BY <1>2, <1>4 DEF IInv

LEMMA Always == IInv /\ [Next]_vars => IInv'
<1> SUFFICES ASSUME IInv, [Next]_vars
             PROVE  IInv'
  OBVIOUS
<1>1. CASE VisitFunctionDefinition \/ ExecuteMain
  BY <1>1, VisitFunctionDefinitionKeeps, ExecuteMainKeeps
<1>2. CASE VisitExpression
  BY <1>2, VisitLiteralKeeps, VisitIdentifierKeeps, VisitFunctionCallKeeps, GetArgumentsKeeps,
     CollectArgumentKeeps, InvokeKeeps, EndCallKeeps, VisitTypeCastKeeps, ApplyCastKeeps, VisitBinaryKeeps,
     VisitRightOperandKeeps, ApplyBinaryKeeps, VisitUnaryKeeps, ApplyUnaryKeeps, VisitBindFrontKeeps,
     VisitBindTargetKeeps, ApplyBindFrontKeeps
     DEF VisitExpression
<1>3. CASE CallFunction
  BY <1>3, CallGlobalKeeps, BindParameterKeeps, CallBuiltinKeeps, CallBindFrontKeeps, CallComposedKeeps,
     EndHalfKeeps, CallSecondHalfKeeps
     DEF CallFunction
<1>4. CASE VisitStatement
  BY <1>4, VisitCodeBlockKeeps, EndStatementKeeps, LeaveCodeBlockKeeps, VisitVariableDeclarationKeeps,
     DeclareVariableKeeps, VisitAssignStatementKeeps, AssignVariableKeeps, VisitExpressionStatementKeeps,
     DiscardResultKeeps, VisitReturnStatementKeeps, ReturnResultKeeps, VisitContinueKeeps, VisitBreakKeeps,
     VisitForLoopKeeps, StartIterationKeeps, EndIterationKeeps, ExitLoopKeeps, VisitIfStatementKeeps,
     TestIfKeeps, NextElseIfKeeps, VisitElseIfKeeps, TestElseIfKeeps, EndIfKeeps
     DEF VisitStatement
<1>5. CASE Finish
  BY <1>5, OtherwiseSame DEF Finish
<1>6. CASE UNCHANGED vars
  <2>1. UNCHANGED <<envVars, tmpResult, flags, stack>>
    BY <1>6 DEF vars
  <2> QED
    BY <2>1, OtherwiseSame
<1>7. CASE Stopped
  BY <1>6, <1>7 DEF Stopped
<1> QED
  BY <1>1, <1>2, <1>3, <1>4, <1>5, <1>6, <1>7 DEF Next, Run

(* The inductive invariant holds in every state of every program.            *)
THEOREM Invariance == Spec => []IInv
BY Initially, Always, PTL DEF Spec

-----------------------------------------------------------------------------
(* What follows from it.                                                     *)

(* The interpreter has its types on every program: what an operator, a cast,  *)
(* a call or an assignment leaves is a value of the type it has, and every   *)
(* variable holds a value of the type it was declared with                   *)
(* (interpreter.cpp 86-131).                                                 *)
THEOREM TypeCorrect == Spec => []TypeOK
<1>1. IInv => TypeOK
  <2> SUFFICES ASSUME IInv
               PROVE  TypeOK
    OBVIOUS
  <2>1. DOMAIN functions \subseteq Names /\ IsStore(store) /\ AreFrames(callFrames, store)
    BY DEF IInv, EnvironmentOK, FunctionsOK
  <2>2. /\ tmpResult.tag \in {"nothing", "value", "holder"}
        /\ tmpResult.tag = "value" => WellTyped(tmpResult.value)
    <3>1. CASE tmpResult = Nothing
      BY <3>1 DEF Nothing
    <3>2. CASE tmpResult # Nothing
      BY <2>1, <3>2, ResultIsArg, ArgValue, LegalIsTyped DEF IInv
    <3> QED
      BY <3>1, <3>2
  <2>3. \A a \in DOMAIN store : WellTyped(store[a].value) /\ store[a].value.type = store[a].type
    BY <2>1, SeqParts, LegalIsTyped DEF IsStore, IsVariable
  <2>4. \A i \in DOMAIN callFrames : \A j \in DOMAIN callFrames[i].scopes :
          callFrames[i].scopes[j] \in Env!Scope
    <3>1. \A i \in DOMAIN callFrames : IsFrame(callFrames[i], store)
      BY <2>1, SeqParts DEF AreFrames
    <3> QED
      BY <3>1, SeqParts DEF IsFrame, IsScope
  <2> QED
    BY <2>1, <2>2, <2>3, <2>4 DEF TypeOK, IInv, FlagsAreBoolean
<1> QED
  BY <1>1, Invariance, PTL

(* However calls, blocks and loops end, there is a frame for each call in     *)
(* progress and a scope for each open block and loop of it                   *)
(* (interpreter.cpp 40-42, 56-65, 168-186, 400-412).                         *)
THEOREM CallsAreBalanced == Spec => []FramesMatchCalls
<1>1. IInv => FramesMatchCalls
  BY DEF IInv, StackOK, FramesMatchCalls
<1> QED
  BY <1>1, Invariance, PTL

(* A call of any kind of callable leaves nothing or a value of the return     *)
(* type, never a reference to a variable of the frame it leaves              *)
(* (interpreter.cpp 138-152).                                                *)
THEOREM CallsReturnValues == Spec => []ReturnsAreValues
<1>1. IInv => ReturnsAreValues
  <2> SUFFICES ASSUME IInv, At("CallEnd")
               PROVE  \/ tmpResult = Nothing
                      \/ tmpResult.tag = "value" /\ tmpResult.value.type = Env!CurFuncRetType
    BY DEF ReturnsAreValues
  <2>1. Returns(tmpResult, Env!CurFuncRetType)
    BY Running DEF ResultAt, Between
  <2> QED
    BY <2>1 DEF Returns, ValueArg
<1> QED
  BY <1>1, Invariance, PTL

(* A reference that waits in an argument list, in a call or in _tmp_result    *)
(* is to a variable that exists, with no more rights than its declaration    *)
(* gave (type_handler.cpp 35-48).                                            *)
THEOREM ReferencesStayValid == Spec => []HoldersInFlight
<1>1. IInv => HoldersInFlight
  <2> SUFFICES ASSUME IInv
               PROVE  HoldersInFlight
    OBVIOUS
  <2>1. \A arg : IsArg(arg, store) /\ arg.tag = "holder" => Env!HolderValid(arg.holder, store)
    BY ArgValue DEF IInv, EnvironmentOK
  <2>2. tmpResult.tag = "holder" => Env!HolderValid(tmpResult.holder, store)
    <3>1. tmpResult = Nothing => tmpResult.tag # "holder"
      BY DEF Nothing
    <3> QED
      BY <2>1, <3>1, ResultIsArg DEF IInv
  <2>3. \A args : AreArgs(args, store) => \A arg \in ToSet(args) : IsArg(arg, store)
    BY SeqParts DEF AreArgs, ToSet
  <2>4. ASSUME NEW i \in DOMAIN stack, NEW arg \in ArgsOf(stack[i])
        PROVE  IsArg(arg, store)
    <3> DEFINE x == stack[i]
    <3>1. IsItem(x, store)
      BY SeqParts DEF IInv, StackOK, AreItems
    <3> HIDE DEF x
    <3>2. arg \in ArgsOf(x)
      BY <2>4 DEF x
    <3>3. CASE x.do = "Argument"
      BY <2>3, <3>1, <3>2, <3>3 DEF IsItem, ArgsOf
    <3>4. CASE x.do \in {"Invoke", "Call", "BindTarget", "Bind"}
      BY <2>3, <3>1, <3>2, <3>4 DEF IsItem, ArgsOf
    <3>5. CASE x.do = "Parameter"
      BY <3>1, <3>2, <3>5 DEF IsItem, ArgsOf
    <3>6. CASE x.do \notin {"Argument", "Invoke", "Call", "BindTarget", "Bind", "Parameter"}
      BY <3>2, <3>6 DEF ArgsOf
    <3> QED
      BY <3>3, <3>4, <3>5, <3>6
  <2> QED
    BY <2>1, <2>2, <2>4 DEF HoldersInFlight
<1> QED
  BY <1>1, Invariance, PTL
(* Only an assignment changes a variable; the other steps at most add one.    *)
LEMMA StoreGrown ==
  ASSUME IsStore(store), NEW new, store' = Append(store, new)
  PROVE  Env!NoConstChange
<1>1. IsSeq(store) /\ DOMAIN store = 1..Len(store) /\ Len(store) \in Nat
  BY SeqParts DEF IsStore
<1>2. /\ IsSeq(store') /\ Len(store') = Len(store) + 1
      /\ \A i \in 1..Len(store') : store'[i] = IF i <= Len(store) THEN store[i] ELSE new
  <2> DEFINE more == Append(store, new)
  <2>1. /\ IsSeq(more) /\ Len(more) = Len(store) + 1
        /\ \A i \in 1..Len(more) : more[i] = IF i <= Len(store) THEN store[i] ELSE new
    BY <1>1, SeqAppend
  <2> HIDE DEF more
  <2>2. store' = more
    BY DEF more
  <2> QED
    BY <2>1, <2>2
<1>3. DOMAIN store' = 1..Len(store')
  BY <1>2, SeqParts
<1>4. \A a \in DOMAIN store : a \in DOMAIN store' /\ store'[a] = store[a]
  BY <1>1, <1>2, <1>3
<1> QED
  BY <1>4 DEF Env!NoConstChange

LEMMA StoreUnchanged == ASSUME UNCHANGED store PROVE Env!NoConstChange
BY DEF Env!NoConstChange

LEMMA AssignKeepsConstants == ASSUME IInv, AssignVariable PROVE Env!NoConstChange
<1>1. At("Assign")
  BY DEF AssignVariable
<1>2. CASE ~Assignable(store[Current.holder.var].type)
  BY <1>2, StoreUnchanged DEF AssignVariable, Throw, envVars
<1>3. CASE Assignable(store[Current.holder.var].type)
  <2> DEFINE target == Current.holder.var
  <2>1. store' = [store EXCEPT ![target].value = TmpValue]
    BY <1>3 DEF AssignVariable, Env!AssignThrough
  <2>2. IsLegal(TmpValue) /\ TmpValue.type = store[target].type
    BY <1>1, <1>3, AtContinuation DEF Assignable, IsEmpty
  <2>3. IsStore(store) /\ DOMAIN store = 1..Len(store)
    BY SeqParts DEF IInv, EnvironmentOK, IsStore, IsVariable
  <2>4. target \in DOMAIN store => store[target].mutable
    BY <1>1, AtContinuation DEF IsItem, Env!HolderValid
  <2> HIDE DEF target
  <2>5. Grows(store, store') /\ Len(store') = Len(store) /\ \A a \in 1..Len(store) : a # target => store'[a] = store[a]
    <3> DEFINE after == [store EXCEPT ![target].value = TmpValue]
    <3>1. after = [store EXCEPT ![target].value = TmpValue]
      OBVIOUS
    <3> HIDE DEF after
    <3>2. Grows(store, after)
      BY <2>2, <2>3, <3>1, VariableAssigned
    <3>3. Len(after) = Len(store)
      BY <2>2, <2>3, <3>1, VariableAssigned
    <3>4. \A a \in 1..Len(store) : a # target => after[a] = store[a]
      BY <2>2, <2>3, <3>1, VariableAssigned
    <3>5. store' = after
      BY <2>1, <3>1
    <3> QED
      BY <3>2, <3>3, <3>4, <3>5
  <2>6. DOMAIN store' = 1..Len(store)
    BY <2>5, SeqParts DEF Grows, IsStore, IsVariable
  <2>7. \A a \in DOMAIN store : store'[a].type = store[a].type /\ store'[a].mutable = store[a].mutable
    BY <2>3, <2>5 DEF Grows
  <2> QED
    BY <2>3, <2>4, <2>5, <2>6, <2>7 DEF Env!NoConstChange
<1> QED
  BY <1>2, <1>3

LEMMA OthersKeepConstants == ASSUME IInv, [Next]_vars, ~AssignVariable PROVE Env!NoConstChange
<1> USE DEF envVars, Return, Goto, Visit, Throw, Deliver, SetCondition
<1>1. ASSUME Env!DeclareVariable(Current.name, Current.vt, TmpValue) PROVE Env!NoConstChange
  BY <1>1, StoreGrown DEF Env!DeclareVariable, IInv, EnvironmentOK
<1>2. CASE VisitFunctionDefinition \/ ExecuteMain \/ Finish \/ Stopped \/ UNCHANGED vars
  <2>1. UNCHANGED store
    BY <1>2 DEF VisitFunctionDefinition, ExecuteMain, Finish, Stopped, vars, Env!RegisterFunction, Env!CallingFunction
  <2> QED
    BY <2>1, StoreUnchanged
<1>3. CASE VisitExpression
  <2>1. CASE VisitLiteral \/ VisitIdentifier \/ VisitFunctionCall \/ GetArguments \/ CollectArgument
    BY <2>1, StoreUnchanged DEF VisitLiteral, VisitIdentifier, VisitFunctionCall, GetArguments, CollectArgument
  <2>2. CASE Invoke \/ EndCall
    BY <2>2, StoreUnchanged DEF Invoke, EndCall, Env!CallingFunction, Env!ExitingFunction
  <2>3. CASE VisitTypeCast \/ ApplyCast \/ VisitBinary \/ VisitRightOperand
    BY <2>3, StoreUnchanged DEF VisitTypeCast, ApplyCast, VisitBinary, VisitRightOperand
  <2>4. CASE ApplyBinary \/ VisitUnary \/ ApplyUnary
    BY <2>4, StoreUnchanged DEF ApplyBinary, VisitUnary, ApplyUnary
  <2>5. CASE VisitBindFront \/ VisitBindTarget \/ ApplyBindFront
    BY <2>5, StoreUnchanged DEF VisitBindFront, VisitBindTarget, ApplyBindFront
  <2> QED
    BY <1>3, <2>1, <2>2, <2>3, <2>4, <2>5 DEF VisitExpression
<1>4. CASE CallFunction
  <2>1. CASE CallGlobal \/ CallBuiltin \/ CallBindFront \/ CallComposed
    BY <2>1, StoreUnchanged DEF CallGlobal, CallBuiltin, CallBindFront, CallComposed, Env!CallingFunction
  <2>2. CASE EndHalf \/ CallSecondHalf
    BY <2>2, StoreUnchanged DEF EndHalf, CallSecondHalf, Env!CallingFunction, Env!ExitingFunction
  <2>3. CASE BindParameter
    <3>1. IsStore(store)
      BY DEF IInv, EnvironmentOK
    <3>2. CASE Current.arg.tag = "holder"
      BY <2>3, <3>2, StoreUnchanged DEF BindParameter, Env!BindParam, Env!DeclareHolder
    <3>3. CASE Current.arg.tag # "holder"
      BY <2>3, <3>1, <3>3, StoreGrown DEF BindParameter, Env!BindParam, Env!DeclareVariable
    <3> QED
      BY <3>2, <3>3
  <2> QED
    BY <1>4, <2>1, <2>2, <2>3 DEF CallFunction
<1>5. CASE VisitStatement
  <2>1. CASE VisitCodeBlock \/ EndStatement \/ LeaveCodeBlock
    BY <2>1, StoreUnchanged DEF VisitCodeBlock, EndStatement, LeaveCodeBlock, Env!AddScope, Env!PopScope
  <2>2. CASE VisitVariableDeclaration \/ VisitAssignStatement \/ VisitExpressionStatement \/ DiscardResult
    BY <2>2, StoreUnchanged
       DEF VisitVariableDeclaration, VisitAssignStatement, VisitExpressionStatement, DiscardResult
  <2>3. CASE DeclareVariable
    BY <1>1, <2>3, StoreUnchanged DEF DeclareVariable
  <2>4. CASE VisitReturnStatement \/ ReturnResult \/ VisitContinue \/ VisitBreak
    BY <2>4, StoreUnchanged DEF VisitReturnStatement, ReturnResult, VisitContinue, VisitBreak
  <2>5. CASE VisitForLoop \/ StartIteration \/ EndIteration \/ ExitLoop
    BY <2>5, StoreUnchanged
       DEF VisitForLoop, StartIteration, EndIteration, ExitLoop, Env!AddScope, Env!PopScope
  <2>6. CASE VisitIfStatement \/ TestIf \/ NextElseIf \/ VisitElseIf \/ TestElseIf \/ EndIf
    BY <2>6, StoreUnchanged DEF VisitIfStatement, TestIf, NextElseIf, VisitElseIf, TestElseIf, EndIf
  <2> QED
    BY <1>5, <2>1, <2>2, <2>3, <2>4, <2>5, <2>6 DEF VisitStatement
<1> QED
  BY <1>2, <1>3, <1>4, <1>5 DEF Next, Run

(* A variable declared without mut keeps the value it was declared with,      *)
(* whatever the program assigns, passes by reference or binds, and no        *)
(* variable changes its type or its rights (interpreter.cpp 106-131,         *)
(* type_handler.cpp 35-48, global_function.cpp 15-27).                       *)
THEOREM ConstantsNeverChange == Spec => ConstantsStay
<1>1. IInv /\ [Next]_vars => [Env!NoConstChange]_vars
  BY AssignKeepsConstants, OthersKeepConstants
<1> QED
  BY <1>1, Invariance, PTL DEF Spec, ConstantsStay
-----------------------------------------------------------------------------
(* A pending return.                                                         *)

(* The items that can make a return pending, or pass one on, and those that   *)
(* wait below them: each ends what it stands for when a return is pending.   *)
Closing ==
  {"CodeBlock", "ReturnStatement", "ReturnResult", "BreakStatement", "ContinueStatement", "ForLoop",
   "IfStatement", "StatementEnd", "PopScope", "LoopTest", "LoopNext", "LoopEnd", "IfTest", "ElseIfs",
   "ElseIf", "ElseIfTest", "IfEnd"}
Enders == {"StatementEnd", "LoopNext", "IfEnd", "ElseIfs", "CallEnd", "HalfEnd"}
Nested(items) == \A i \in 1..(Len(items) - 1) : items[i].do \in Closing => items[i + 1].do \in Enders

Unwinding == Enders \cup {"PopScope", "LoopEnd", "SecondHalf"}

(* Where _tmp_result is in use by nobody, unless a return is pending.        *)
Idle == Between \ {"CallEnd", "HalfEnd"}

FlagInv ==
  /\ Nested(stack)
  /\ isReturning => stack # <<>> /\ Current.do \in Unwinding
  /\ stack # <<>> /\ Current.do \in Idle /\ tmpResult # Nothing => isReturning

(* What is known of the head of the stack.                                    *)
LEMMA NoReturnHere ==
  ASSUME FlagInv, stack # <<>>, Current.do \notin Unwinding
  PROVE  ~isReturning /\ (Current.do \in Idle => tmpResult = Nothing)
BY DEF FlagInv

LEMMA NestedBelow ==
  ASSUME StackOK, stack # <<>>, Nested(stack)
  PROVE  /\ Nested(Below)
         /\ Below # <<>> /\ Current.do \in Closing => Below[1].do \in Enders
<1>1. /\ Len(stack) = Len(Below) + 1 /\ Len(Below) \in Nat /\ Current = stack[1]
      /\ \A i \in 1..Len(Below) : Below[i] = stack[i + 1]
      /\ Below = <<>> <=> Len(Below) = 0
  BY StackParts, SeqParts
<1>2. \A i \in 1..(Len(Below) - 1) :
        i + 1 \in 1..(Len(stack) - 1) /\ Below[i] = stack[i + 1] /\ Below[i + 1] = stack[i + 1 + 1]
  BY <1>1
<1>3. Nested(Below)
  BY <1>2 DEF Nested
<1>4. ASSUME Below # <<>>, Current.do \in Closing
      PROVE  Below[1].do \in Enders
  <2>1. 1 \in 1..(Len(stack) - 1) /\ 1 \in 1..Len(Below)
    BY <1>1, <1>4
  <2> QED
    BY <1>1, <1>4, <2>1 DEF Nested
<1> QED
  BY <1>3, <1>4

LEMMA NestedKept ==
  ASSUME NEW items, NEW base, IsSeq(items), IsSeq(base), Nested(items), Nested(base),
         items # <<>> /\ base # <<>> /\ items[Len(items)].do \in Closing => base[1].do \in Enders
  PROVE  Nested(items \o base)
<1> DEFINE s == items \o base
<1> SUFFICES ASSUME NEW i \in 1..(Len(s) - 1), s[i].do \in Closing
             PROVE  s[i + 1].do \in Enders
  BY DEF Nested
<1>1. /\ Len(items) \in Nat /\ Len(base) \in Nat /\ Len(s) = Len(items) + Len(base)
      /\ items = <<>> <=> Len(items) = 0
      /\ base = <<>> <=> Len(base) = 0
      /\ \A j \in 1..Len(s) : s[j] = IF j <= Len(items) THEN items[j] ELSE base[j - Len(items)]
  BY SeqParts, SeqConcat
<1>2. i \in 1..Len(s) /\ i + 1 \in 1..Len(s)
  BY <1>1
<1> HIDE DEF s
<1>3. CASE i < Len(items)
  <2>1. s[i] = items[i] /\ s[i + 1] = items[i + 1] /\ i \in 1..(Len(items) - 1)
    BY <1>1, <1>2, <1>3
  <2> QED
    BY <2>1 DEF Nested
<1>4. CASE i = Len(items)
  <2>1. Len(base) # 0 /\ i + 1 - Len(items) = 1 /\ ~(i + 1 <= Len(items)) /\ i <= Len(items) /\ Len(items) # 0
    BY <1>1, <1>4
  <2>2. s[i] = items[Len(items)] /\ s[i + 1] = base[1]
    BY <1>1, <1>2, <1>4, <2>1
  <2> QED
    BY <1>1, <2>1, <2>2
<1>5. CASE i > Len(items)
  <2> DEFINE j == i - Len(items)
  <2>1. ~(i <= Len(items)) /\ ~(i + 1 <= Len(items)) /\ i + 1 - Len(items) = j + 1 /\ j \in 1..(Len(base) - 1)
    BY <1>1, <1>5
  <2>2. s[i] = base[j] /\ s[i + 1] = base[j + 1]
    BY <1>1, <1>2, <2>1
  <2> QED
    BY <2>1, <2>2 DEF Nested
<1> QED
  BY <1>1, <1>3, <1>4, <1>5

(* The head of the stack gives way to items: a return goes on to one that     *)
(* ends something, and a result to one that takes it.                        *)
LEMMA FlagStep ==
  ASSUME StackOK, FlagInv, stack # <<>>,
         NEW items, IsSeq(items), stack' = items \o Below, Nested(items),
         items # <<>> /\ items[Len(items)].do \in Closing => Current.do \in Closing \cup {"Call"},
         isReturning' => IF items # <<>> THEN items[1].do \in Unwinding ELSE Current.do \in Closing \cup {"HalfEnd"},
         \/ isReturning' \/ tmpResult' = Nothing
         \/ IF items # <<>> THEN items[1].do \notin Idle ELSE Current.do \in Leaving \cup {"Call", "HalfEnd"}
  PROVE  FlagInv'
<1>1. /\ IsSeq(Below) /\ Nested(Below)
      /\ Below # <<>> => MayFollow(Current.do, Below[1].do)
      /\ Below # <<>> /\ Current.do \in Closing => Below[1].do \in Enders
  BY StackParts, NestedBelow DEF FlagInv
<1>2. Below # <<>> /\ Current.do \in Closing \cup {"Call"} => Below[1].do \in Enders
  BY <1>1 DEF MayFollow, FrameOwers, Enders
<1>3. Nested(stack')
  <2> DEFINE s == items \o Below
  <2>1. Nested(s)
    BY <1>1, <1>2, NestedKept
  <2>2. stack' = s
    OBVIOUS
  <2> HIDE DEF s
  <2> QED
    BY <2>1, <2>2
<1>4. CASE items # <<>>
  <2>1. stack' # <<>> /\ Head(stack') = items[1]
    <3> DEFINE s == items \o Below
    <3>1. Len(items) \in Nat /\ Len(items) # 0 /\ Len(Below) \in Nat
      BY <1>1, <1>4, SeqParts
    <3>2. /\ IsSeq(s) /\ Len(s) = Len(items) + Len(Below)
          /\ \A j \in 1..Len(s) : s[j] = IF j <= Len(items) THEN items[j] ELSE Below[j - Len(items)]
      BY <1>1, SeqConcat
    <3>3. stack' = s
      OBVIOUS
    <3> HIDE DEF s
    <3>4. 1 \in 1..Len(s) /\ 1 <= Len(items) /\ Len(s) # 0
      BY <3>1, <3>2
    <3>5. s # <<>> /\ Head(s) = s[1]
      BY <3>2, <3>4, SeqParts, SeqTail
    <3> QED
      BY <3>2, <3>3, <3>4, <3>5
  <2>2. isReturning' => Head(stack').do \in Unwinding
    BY <1>4, <2>1
  <2>3. Head(stack').do \in Idle /\ tmpResult' # Nothing => isReturning'
    BY <1>4, <2>1
  <2> QED
    BY <1>3, <2>1, <2>2, <2>3 DEF FlagInv, Current
<1>5. CASE items = <<>>
  <2>1. stack' = Below
    BY <1>1, <1>5 DEF IsSeq
  <2>2. Below # <<>> => Head(Below) = Below[1]
    BY <1>1, SeqTail
  <2>3. ASSUME isReturning'
        PROVE  Below # <<>> /\ Below[1].do \in Unwinding
    <3>1. Current.do \in Closing \cup {"HalfEnd"}
      BY <1>5, <2>3
    <3>2. Below # <<>>
      BY <3>1, InProgress DEF Closing, Registering
    <3> QED
      BY <1>1, <3>1, <3>2 DEF MayFollow, FrameOwers, Enders, Unwinding
  <2>4. ASSUME Below # <<>>, Below[1].do \in Idle, tmpResult' # Nothing
        PROVE  isReturning'
    <3>1. Current.do \in Leaving \cup {"Call", "HalfEnd"} => Below[1].do \in Taking \cup FrameOwers \cup {"SecondHalf"}
      BY <1>1, <2>4 DEF MayFollow
    <3>2. Below[1].do \notin Taking \cup FrameOwers \cup {"SecondHalf"}
      BY <2>4 DEF Idle, Between, StatementKinds, Taking, FrameOwers
    <3> QED
      BY <1>5, <2>4, <3>1, <3>2
  <2> QED
    BY <1>3, <2>1, <2>2, <2>3, <2>4 DEF FlagInv, Current
<1> QED
  BY <1>4, <1>5
(* ... to nothing, to one item, to two or to three.                          *)
LEMMA FlagLeave ==
  ASSUME StackOK, FlagInv, stack # <<>>, Return,
         isReturning' => Current.do \in Closing \cup {"HalfEnd"},
         isReturning' \/ tmpResult' = Nothing \/ Current.do \in Leaving \cup {"Call", "HalfEnd"}
  PROVE  FlagInv'
<1> DEFINE items == <<>>
<1>1. IsSeq(items) /\ Len(items) = 0 /\ stack' = items \o Below
  BY DEF IsSeq, Return, Goto, Below
<1>2. Nested(items)
  BY <1>1 DEF Nested
<1> QED
  BY <1>1, <1>2, FlagStep

LEMMA FlagOne ==
  ASSUME StackOK, FlagInv, stack # <<>>, NEW x, stack' = <<x>> \o Below,
         x.do \in Closing => Current.do \in Closing \cup {"Call"},
         isReturning' => x.do \in Unwinding,
         isReturning' \/ tmpResult' = Nothing \/ x.do \notin Idle
  PROVE  FlagInv'
<1> DEFINE items == <<x>>
<1>1. IsSeq(items) /\ Len(items) = 1 /\ items[1] = x /\ items # <<>> /\ stack' = items \o Below
  BY SeqSingle
<1> HIDE DEF items
<1>2. Nested(items)
  BY <1>1 DEF Nested
<1> QED
  BY <1>1, <1>2, FlagStep

LEMMA FlagTwo ==
  ASSUME StackOK, FlagInv, stack # <<>>, NEW x, NEW y, stack' = <<x, y>> \o Below,
         x.do \in Closing => y.do \in Enders,
         y.do \in Closing => Current.do \in Closing \cup {"Call"},
         isReturning' => x.do \in Unwinding,
         isReturning' \/ tmpResult' = Nothing \/ x.do \notin Idle
  PROVE  FlagInv'
<1> DEFINE items == <<x, y>>
<1>1. /\ IsSeq(items) /\ Len(items) = 2 /\ items[1] = x /\ items[2] = y /\ items # <<>>
      /\ stack' = items \o Below
  BY SeqPair
<1> HIDE DEF items
<1>2. \A i \in 1..(Len(items) - 1) : i = 1
  BY <1>1
<1>3. Nested(items)
  BY <1>1, <1>2 DEF Nested
<1> QED
  BY <1>1, <1>3, FlagStep

LEMMA FlagThree ==
  ASSUME StackOK, FlagInv, stack # <<>>, NEW x, NEW y, NEW z, stack' = <<x, y, z>> \o Below,
         x.do \in Closing => y.do \in Enders,
         y.do \in Closing => z.do \in Enders,
         z.do \in Closing => Current.do \in Closing \cup {"Call"},
         isReturning' => x.do \in Unwinding,
         isReturning' \/ tmpResult' = Nothing \/ x.do \notin Idle
  PROVE  FlagInv'
<1> DEFINE items == <<x, y, z>>
<1>1. /\ IsSeq(items) /\ Len(items) = 3 /\ items[1] = x /\ items[2] = y /\ items[3] = z
      /\ items # <<>> /\ stack' = items \o Below
  BY SeqTriple
<1> HIDE DEF items
<1>2. \A i \in 1..(Len(items) - 1) : i \in {1, 2}
  BY <1>1
<1>3. Nested(items)
  BY <1>1, <1>2 DEF Nested
<1> QED
  BY <1>1, <1>3, FlagStep

LEMMA NoReturnAt ==
  ASSUME IInv, FlagInv, NEW what, what \notin Unwinding, At(what)
  PROVE  /\ StackOK /\ stack # <<>> /\ Current.do = what /\ ~isReturning
         /\ what \in Idle => tmpResult = Nothing
BY NoReturnHere DEF At, IInv

LEMMA FlagThrown == ASSUME FlagInv, NEW exception, Throw(exception) PROVE FlagInv'
<1>1. stack' = stack /\ tmpResult' = tmpResult /\ isReturning' = isReturning
  BY DEF Throw, flags
<1> QED
  BY <1>1 DEF FlagInv, Nested, Current

(* An expression, or what evaluates one, leaves its result.                  *)
LEMMA FlagResult ==
  ASSUME IInv, FlagInv, NEW what \in Leaving \ {"CallEnd"}, At(what), Return, UNCHANGED flags
  PROVE  FlagInv'
<1>1. what \notin Unwinding
  BY DEF Leaving, ExpressionKinds, Unwinding, Enders
<1>2. StackOK /\ stack # <<>> /\ Current.do = what /\ ~isReturning
  BY <1>1, NoReturnAt
<1> QED
  BY <1>2, FlagLeave DEF flags

LEMMA FlagDelivered ==
  ASSUME IInv, FlagInv, NEW what \in Leaving \ {"CallEnd"}, At(what), NEW outcomes, Deliver(outcomes)
  PROVE  FlagInv'
<1>1. PICK o \in outcomes :
        IF o.tag = "error"
        THEN Throw(o.error)
        ELSE tmpResult' = o /\ Return /\ UNCHANGED <<envVars, flags>>
  BY DEF Deliver
<1>2. CASE o.tag = "error"
  BY <1>1, <1>2, FlagThrown
<1>3. CASE o.tag # "error"
  BY <1>1, <1>3, FlagResult
<1> QED
  BY <1>2, <1>3

(* A node is visited before the current item goes on as another.             *)
LEMMA FlagVisited ==
  ASSUME IInv, FlagInv, NEW what, what \notin Unwinding, At(what), NEW x \in Expressions, NEW y,
         Goto(<<x, y>>), UNCHANGED isReturning,
         y.do \in Closing => Current.do \in Closing
  PROVE  FlagInv'
<1>1. x.do \notin Closing \cup Idle
  BY ExpressionComes DEF ExpressionKinds, Closing, Idle, Between, StatementKinds
<1>2. StackOK /\ stack # <<>> /\ ~isReturning'
  BY NoReturnAt
<1>3. stack' = <<x, y>> \o Below
  BY DEF Goto, Below
<1> QED
  BY <1>1, <1>2, <1>3, FlagTwo

LEMMA FlagArguments ==
  ASSUME IInv, FlagInv, NEW what, what \notin Unwinding, At(what),
         NEW exprs \in Seq(Expressions), NEW got, NEW then, TakesArgs(then),
         Goto(ArgList(exprs, got, then)), UNCHANGED isReturning
  PROVE  FlagInv'
<1>1. StackOK /\ stack # <<>> /\ ~isReturning'
  BY NoReturnAt
<1>2. CASE exprs = <<>>
  <2> DEFINE x == [then EXCEPT !.args = got]
  <2>1. x.do \in {"Invoke", "BindTarget"}
    BY DEF TakesArgs
  <2>2. stack' = <<x>> \o Below
    BY <1>2 DEF ArgList, Goto, Below
  <2> HIDE DEF x
  <2>3. x.do \notin Closing \cup Idle
    BY <2>1 DEF Closing, Idle, Between, StatementKinds
  <2> QED
    BY <1>1, <2>2, <2>3, FlagOne
<1>3. CASE exprs # <<>>
  <2> DEFINE x == Head(exprs)
             y == [do |-> "Argument", rest |-> Tail(exprs), got |-> got, then |-> then]
  <2>1. x \in Expressions /\ y.do = "Argument"
    BY <1>3
  <2>2. Goto(<<x, y>>)
    BY <1>3 DEF ArgList
  <2> HIDE DEF x, y
  <2>3. y.do \notin Closing
    BY <2>1 DEF Closing
  <2> QED
    BY <2>1, <2>2, <2>3, FlagVisited
<1> QED
  BY <1>2, <1>3
-----------------------------------------------------------------------------
(* A node is visited, and the current method resumes as another item.         *)
GoesInto ==
  \E what : \E x \in Expressions : \E y :
    /\ At(what) /\ what \notin Unwinding \cup LoopOwers
    /\ Goto(<<x, y>>) /\ UNCHANGED flags
    /\ y.do \notin LoopOwers
    /\ y.do \in Closing => Current.do \in Closing

VisitChild ==
  \/ VisitFunctionCall \/ VisitTypeCast \/ VisitBinary \/ VisitUnary \/ VisitBindTarget \/ VisitRightOperand
  \/ VisitVariableDeclaration \/ VisitAssignStatement \/ VisitExpressionStatement \/ VisitIfStatement \/ VisitElseIf

LEMMA VisitFunctionCallGoes == ASSUME IInv, VisitFunctionCall PROVE GoesInto \/ \E exception : Throw(exception)
<1> DEFINE y == [do |-> "Callee", args |-> Current.args]
<1>1. At("FunctionCall") /\ "FunctionCall" \notin Unwinding \cup LoopOwers /\ "FunctionCall" \in ExpressionKinds
  BY DEF VisitFunctionCall, Unwinding, Enders, LoopOwers, ExpressionKinds
<1>2. Current.callee \in Expressions
  BY <1>1, AtExpression DEF IsExpression
<1>3. y.do \notin Closing \cup LoopOwers
  BY DEF Closing, LoopOwers
<1>4. Goto(<<Current.callee, y>>) /\ UNCHANGED flags
  BY DEF VisitFunctionCall, Visit
<1> HIDE DEF y
<1> QED
  BY <1>1, <1>2, <1>3, <1>4 DEF GoesInto

LEMMA VisitTypeCastGoes == ASSUME IInv, VisitTypeCast PROVE GoesInto \/ \E exception : Throw(exception)
<1> DEFINE y == [do |-> "Cast", target |-> Current.target]
<1>1. At("TypeCast") /\ "TypeCast" \notin Unwinding \cup LoopOwers /\ "TypeCast" \in ExpressionKinds
  BY DEF VisitTypeCast, Unwinding, Enders, LoopOwers, ExpressionKinds
<1>2. Current.expr \in Expressions
  BY <1>1, AtExpression DEF IsExpression
<1>3. y.do \notin Closing \cup LoopOwers
  BY DEF Closing, LoopOwers
<1>4. Goto(<<Current.expr, y>>) /\ UNCHANGED flags
  BY DEF VisitTypeCast, Visit
<1> HIDE DEF y
<1> QED
  BY <1>1, <1>2, <1>3, <1>4 DEF GoesInto

LEMMA VisitBinaryGoes == ASSUME IInv, VisitBinary PROVE GoesInto \/ \E exception : Throw(exception)
<1> DEFINE y == [do |-> "RightOperand", kind |-> Current.kind, right |-> Current.right]
<1>1. At("Binary") /\ "Binary" \notin Unwinding \cup LoopOwers /\ "Binary" \in ExpressionKinds
  BY DEF VisitBinary, Unwinding, Enders, LoopOwers, ExpressionKinds
<1>2. Current.left \in Expressions
  BY <1>1, AtExpression DEF IsExpression
<1>3. y.do \notin Closing \cup LoopOwers
  BY DEF Closing, LoopOwers
<1>4. Goto(<<Current.left, y>>) /\ UNCHANGED flags
  BY DEF VisitBinary, Visit
<1> HIDE DEF y
<1> QED
  BY <1>1, <1>2, <1>3, <1>4 DEF GoesInto

LEMMA VisitUnaryGoes == ASSUME IInv, VisitUnary PROVE GoesInto \/ \E exception : Throw(exception)
<1> DEFINE y == [do |-> "UnaryOperator", kind |-> Current.kind]
<1>1. At("Unary") /\ "Unary" \notin Unwinding \cup LoopOwers /\ "Unary" \in ExpressionKinds
  BY DEF VisitUnary, Unwinding, Enders, LoopOwers, ExpressionKinds
<1>2. Current.expr \in Expressions
  BY <1>1, AtExpression DEF IsExpression
<1>3. y.do \notin Closing \cup LoopOwers
  BY DEF Closing, LoopOwers
<1>4. Goto(<<Current.expr, y>>) /\ UNCHANGED flags
  BY DEF VisitUnary, Visit
<1> HIDE DEF y
<1> QED
  BY <1>1, <1>2, <1>3, <1>4 DEF GoesInto

LEMMA VisitBindTargetGoes == ASSUME IInv, VisitBindTarget PROVE GoesInto \/ \E exception : Throw(exception)
<1> DEFINE y == [do |-> "Bind", args |-> Current.args]
<1>1. At("BindTarget") /\ "BindTarget" \notin Unwinding \cup LoopOwers
  BY DEF VisitBindTarget, Unwinding, Enders, LoopOwers
<1>2. Current.target \in Expressions
  BY <1>1, AtOperation DEF IsItem
<1>3. y.do \notin Closing \cup LoopOwers
  BY DEF Closing, LoopOwers
<1>4. Goto(<<Current.target, y>>) /\ UNCHANGED flags
  BY DEF VisitBindTarget, Visit
<1> HIDE DEF y
<1> QED
  BY <1>1, <1>2, <1>3, <1>4 DEF GoesInto

LEMMA VisitRightOperandGoes == ASSUME IInv, VisitRightOperand PROVE GoesInto \/ \E exception : Throw(exception)
<1> DEFINE y == [do |-> "Operator", kind |-> Current.kind, left |-> TmpValue]
<1>1. At("RightOperand") /\ "RightOperand" \notin Unwinding \cup LoopOwers
  BY DEF VisitRightOperand, Unwinding, Enders, LoopOwers
<1>2. Current.right \in Expressions
  BY <1>1, AtOperation DEF IsItem
<1>3. y.do \notin Closing \cup LoopOwers
  BY DEF Closing, LoopOwers
<1>4. \/ Goto(<<Current.right, y>>) /\ UNCHANGED flags
     \/ \E exception : Throw(exception)
  BY DEF VisitRightOperand, Visit
<1> HIDE DEF y
<1> QED
  BY <1>1, <1>2, <1>3, <1>4 DEF GoesInto

LEMMA VisitVariableDeclarationGoes == ASSUME IInv, VisitVariableDeclaration PROVE GoesInto \/ \E exception : Throw(exception)
<1> DEFINE y == [do |-> "Declare", name |-> Current.name, vt |-> Current.vt]
<1>1. At("VariableDeclaration") /\ "VariableDeclaration" \notin Unwinding \cup LoopOwers /\ "VariableDeclaration" \in StatementKinds
  BY DEF VisitVariableDeclaration, Unwinding, Enders, LoopOwers, StatementKinds
<1>2. Current.expr \in Expressions
  BY <1>1, AtStatement DEF IsStatement
<1>3. y.do \notin Closing \cup LoopOwers
  BY DEF Closing, LoopOwers
<1>4. \/ Goto(<<Current.expr, y>>) /\ UNCHANGED flags
     \/ \E exception : Throw(exception)
  BY DEF VisitVariableDeclaration, Visit
<1> HIDE DEF y
<1> QED
  BY <1>1, <1>2, <1>3, <1>4 DEF GoesInto

LEMMA VisitAssignStatementGoes == ASSUME IInv, VisitAssignStatement PROVE GoesInto \/ \E exception : Throw(exception)
<1> DEFINE y == [do |-> "Assign", holder |-> Env!FindVariable(Current.name)]
<1>1. At("AssignStatement") /\ "AssignStatement" \notin Unwinding \cup LoopOwers /\ "AssignStatement" \in StatementKinds
  BY DEF VisitAssignStatement, Unwinding, Enders, LoopOwers, StatementKinds
<1>2. Current.expr \in Expressions
  BY <1>1, AtStatement DEF IsStatement
<1>3. y.do \notin Closing \cup LoopOwers
  BY DEF Closing, LoopOwers
<1>4. \/ Goto(<<Current.expr, y>>) /\ UNCHANGED flags
     \/ \E exception : Throw(exception)
  BY DEF VisitAssignStatement, Visit
<1> HIDE DEF y
<1> QED
  BY <1>1, <1>2, <1>3, <1>4 DEF GoesInto

LEMMA VisitExpressionStatementGoes == ASSUME IInv, VisitExpressionStatement PROVE GoesInto \/ \E exception : Throw(exception)
<1> DEFINE y == [do |-> "Discard"]
<1>1. At("ExpressionStatement") /\ "ExpressionStatement" \notin Unwinding \cup LoopOwers /\ "ExpressionStatement" \in StatementKinds
  BY DEF VisitExpressionStatement, Unwinding, Enders, LoopOwers, StatementKinds
<1>2. Current.expr \in Expressions
  BY <1>1, AtStatement DEF IsStatement
<1>3. y.do \notin Closing \cup LoopOwers
  BY DEF Closing, LoopOwers
<1>4. Goto(<<Current.expr, y>>) /\ UNCHANGED flags
  BY DEF VisitExpressionStatement, Visit
<1> HIDE DEF y
<1> QED
  BY <1>1, <1>2, <1>3, <1>4 DEF GoesInto

LEMMA VisitIfStatementGoes == ASSUME IInv, VisitIfStatement PROVE GoesInto \/ \E exception : Throw(exception)
<1> DEFINE y == [do |-> "IfTest", if |-> Current]
<1>1. At("IfStatement") /\ "IfStatement" \notin Unwinding \cup LoopOwers /\ "IfStatement" \in StatementKinds
  BY DEF VisitIfStatement, Unwinding, Enders, LoopOwers, StatementKinds
<1>2. Current.cond \in Expressions
  BY <1>1, AtStatement DEF IsStatement
<1>3. y.do \notin LoopOwers /\ (y.do \in Closing => Current.do \in Closing)
  BY <1>1, AtStatement DEF Closing, LoopOwers
<1>4. Goto(<<Current.cond, y>>) /\ UNCHANGED flags
  BY DEF VisitIfStatement, Visit
<1> HIDE DEF y
<1> QED
  BY <1>1, <1>2, <1>3, <1>4 DEF GoesInto

LEMMA VisitElseIfGoes == ASSUME IInv, VisitElseIf PROVE GoesInto \/ \E exception : Throw(exception)
<1> DEFINE y == [do |-> "ElseIfTest", body |-> Current.body]
<1>1. At("ElseIf") /\ "ElseIf" \notin Unwinding \cup LoopOwers
  BY DEF VisitElseIf, Unwinding, Enders, LoopOwers
<1>2. Current.cond \in Expressions
  BY <1>1, AtStatement DEF IsStatement
<1>3. y.do \notin LoopOwers /\ (y.do \in Closing => Current.do \in Closing)
  BY <1>1, AtStatement DEF Closing, LoopOwers
<1>4. Goto(<<Current.cond, y>>) /\ UNCHANGED flags
  BY DEF VisitElseIf, Visit
<1> HIDE DEF y
<1> QED
  BY <1>1, <1>2, <1>3, <1>4 DEF GoesInto

LEMMA ChildVisited == ASSUME IInv, VisitChild PROVE GoesInto \/ \E exception : Throw(exception)
BY VisitFunctionCallGoes, VisitTypeCastGoes, VisitBinaryGoes, VisitUnaryGoes, VisitBindTargetGoes,
   VisitRightOperandGoes, VisitVariableDeclarationGoes, VisitAssignStatementGoes, VisitExpressionStatementGoes,
   VisitIfStatementGoes, VisitElseIfGoes
   DEF VisitChild

LEMMA VisitChildEnds == ASSUME IInv, FlagInv, VisitChild PROVE FlagInv'
BY ChildVisited, FlagVisited, FlagThrown DEF GoesInto, flags
-----------------------------------------------------------------------------
LEMMA ExpressionEnds == ASSUME IInv, FlagInv, VisitExpression PROVE FlagInv'
<1>1. ASSUME VisitLiteral \/ VisitIdentifier
      PROVE  FlagInv'
  <2>1. \E what \in Leaving \ {"CallEnd"} : At(what)
    BY <1>1 DEF VisitLiteral, VisitIdentifier, Leaving, ExpressionKinds
  <2>2. (Return /\ UNCHANGED flags) \/ \E exception : Throw(exception)
    BY <1>1 DEF VisitLiteral, VisitIdentifier
  <2> QED
    BY <2>1, <2>2, FlagResult, FlagThrown
<1>2. ASSUME GetArguments
      PROVE  FlagInv'
  <2> DEFINE then == [do |-> "Invoke", func |-> TmpValue, args |-> <<>>]
  <2>1. At("Callee") /\ "Callee" \notin Unwinding
    BY <1>2 DEF GetArguments, Unwinding, Enders
  <2>2. Current.args \in Seq(Expressions)
    BY <2>1, AtOperation DEF IsItem
  <2>3. CASE ~IsCallable(tmpResult, store)
    BY <1>2, <2>3, FlagThrown DEF GetArguments
  <2>4. CASE IsCallable(tmpResult, store)
    <3>1. IsFunction(TmpValue)
      BY <2>1, <2>4, CallableIsFunction, Running
    <3>2. TakesArgs(then)
      BY <3>1 DEF TakesArgs
    <3>3. Goto(ArgList(Current.args, <<>>, then)) /\ UNCHANGED isReturning
      BY <1>2, <2>4 DEF GetArguments, flags
    <3> HIDE DEF then
    <3> QED
      BY <2>1, <2>2, <3>2, <3>3, FlagArguments
  <2> QED
    BY <2>3, <2>4
<1>3. ASSUME CollectArgument
      PROVE  FlagInv'
  <2>1. At("Argument") /\ "Argument" \notin Unwinding
    BY <1>3 DEF CollectArgument, Unwinding, Enders
  <2>2. Current.rest \in Seq(Expressions) /\ TakesArgs(Current.then)
    BY <2>1, AtOperation DEF IsItem
  <2>3. \/ \E exception : Throw(exception)
        \/ Goto(ArgList(Current.rest, Append(Current.got, tmpResult), Current.then)) /\ UNCHANGED isReturning
    BY <1>3 DEF CollectArgument, flags
  <2> QED
    BY <2>1, <2>2, <2>3, FlagArguments, FlagThrown
<1>4. ASSUME VisitBindFront
      PROVE  FlagInv'
  <2> DEFINE then == [do |-> "BindTarget", target |-> Current.target, args |-> <<>>]
  <2>1. At("BindFront") /\ "BindFront" \in ExpressionKinds /\ "BindFront" \notin Unwinding
    BY <1>4 DEF VisitBindFront, ExpressionKinds, Unwinding, Enders
  <2>2. Current.args \in Seq(Expressions) /\ Current.target \in Expressions
    BY <2>1, AtExpression DEF IsExpression
  <2>3. TakesArgs(then)
    BY <2>2 DEF TakesArgs
  <2>4. Goto(ArgList(Current.args, <<>>, then)) /\ UNCHANGED isReturning
    BY <1>4 DEF VisitBindFront, flags
  <2> HIDE DEF then
  <2> QED
    BY <2>1, <2>2, <2>3, <2>4, FlagArguments
<1>5. ASSUME ApplyCast \/ ApplyBinary \/ ApplyUnary \/ ApplyBindFront
      PROVE  FlagInv'
  <2>1. \E what \in Leaving \ {"CallEnd"} : At(what)
    BY <1>5 DEF ApplyCast, ApplyBinary, ApplyUnary, ApplyBindFront, Leaving
  <2>2. (\E outcomes : Deliver(outcomes)) \/ (\E exception : Throw(exception))
    BY <1>5 DEF ApplyCast, ApplyBinary, ApplyUnary, ApplyBindFront
  <2> QED
    BY <2>1, <2>2, FlagDelivered, FlagThrown
<1>6. ASSUME Invoke
      PROVE  FlagInv'
  <2> DEFINE x == [do |-> "Call", func |-> Current.func, args |-> Current.args]
             y == [do |-> "CallEnd"]
  <2>1. At("Invoke") /\ "Invoke" \notin Unwinding
    BY <1>6 DEF Invoke, Unwinding, Enders
  <2>2. StackOK /\ stack # <<>> /\ ~isReturning
    BY <2>1, NoReturnAt
  <2>3. x.do \notin Closing \cup Idle /\ y.do \notin Closing
    BY DEF Closing, Idle, Between, StatementKinds
  <2>4. \/ \E exception : Throw(exception)
        \/ stack' = <<x, y>> \o Below /\ ~isReturning'
    BY <1>6, <2>2 DEF Invoke, Goto, Below, flags
  <2> HIDE DEF x, y
  <2> QED
    BY <2>2, <2>3, <2>4, FlagTwo, FlagThrown
<1>7. ASSUME EndCall
      PROVE  FlagInv'
  <2>1. At("CallEnd") /\ Return /\ ~isReturning'
    BY <1>7 DEF EndCall
  <2>2. StackOK /\ stack # <<>> /\ Current.do \in Leaving
    BY <2>1, Running DEF Leaving
  <2> QED
    BY <2>1, <2>2, FlagLeave
<1> QED
  BY <1>1, <1>2, <1>3, <1>4, <1>5, <1>6, <1>7, VisitChildEnds DEF VisitExpression, VisitChild

LEMMA CallGlobalEnds == ASSUME IInv, FlagInv, CallGlobal PROVE FlagInv'
<1> DEFINE def == Current.func.val.def
           args == Current.args
           params == [i \in DOMAIN args |-> [do |-> "Parameter", param |-> def.params[i], arg |-> args[i]]]
           body == <<def.body>>
           items == params \o body
<1>1. At("Call") /\ "Call" \notin Unwinding /\ stack' = items \o Below /\ UNCHANGED <<tmpResult, isReturning>>
  BY DEF CallGlobal, Calling, Goto, Below, flags, Unwinding, Enders
<1>2. StackOK /\ stack # <<>> /\ Current.do = "Call" /\ ~isReturning
  BY <1>1, NoReturnAt
<1>3. AreArgs(args, store) /\ tmpResult = Nothing
  BY <1>1, <1>2, AtCall DEF IsItem, ResultAt
<1> HIDE DEF args, def
<1>4. Len(args) \in Nat /\ DOMAIN args = 1..Len(args)
  BY <1>3, SeqParts DEF AreArgs
<1>5. IsSeq(params) /\ Len(params) = Len(args) /\ \A i \in 1..Len(args) : params[i].do = "Parameter"
  BY <1>4, SeqMade
<1>6. IsSeq(body) /\ Len(body) = 1
  BY SeqSingle
<1> HIDE DEF params, body
<1>7. /\ IsSeq(items) /\ Len(items) = Len(args) + 1
      /\ \A i \in 1..Len(items) : items[i] = IF i <= Len(args) THEN params[i] ELSE body[i - Len(args)]
  <2>1. /\ IsSeq(items) /\ Len(items) = Len(params) + Len(body)
        /\ \A i \in 1..Len(items) : items[i] = IF i <= Len(params) THEN params[i] ELSE body[i - Len(params)]
    BY <1>5, <1>6, SeqConcat
  <2> HIDE DEF items
  <2> QED
    BY <1>5, <1>6, <2>1
<1> HIDE DEF items
<1>8. Nested(items)
  <2>1. \A i \in 1..(Len(items) - 1) : i \in 1..Len(args) /\ i \in 1..Len(items) /\ i <= Len(args)
    BY <1>4, <1>7
  <2>2. \A i \in 1..(Len(items) - 1) : items[i].do = "Parameter"
    BY <1>5, <1>7, <2>1
  <2> QED
    BY <2>2 DEF Nested, Closing
<1>9. items # <<>>
  BY <1>4, <1>7, SeqParts
<1> QED
  BY <1>1, <1>2, <1>3, <1>7, <1>8, <1>9, FlagStep
LEMMA CallEnds == ASSUME IInv, FlagInv, ~ReturnEscapes, CallFunction PROVE FlagInv'
<1>1. ASSUME BindParameter
      PROVE  FlagInv'
  <2>1. At("Parameter") /\ Return /\ UNCHANGED <<tmpResult, isReturning>>
    BY <1>1 DEF BindParameter, flags
  <2>2. "Parameter" \notin Unwinding /\ "Parameter" \in Idle
    BY DEF Unwinding, Enders, Idle, Between
  <2>3. StackOK /\ stack # <<>> /\ ~isReturning /\ tmpResult = Nothing
    BY <2>1, <2>2, NoReturnAt
  <2> QED
    BY <2>1, <2>3, FlagLeave
<1>2. ASSUME CallBuiltin
      PROVE  FlagInv'
  <2>1. At("Call") /\ stack' = Below /\ isReturning' = isReturning /\ "Call" \notin Unwinding
    BY <1>2 DEF CallBuiltin, Calling, Below, flags, Unwinding, Enders
  <2>2. StackOK /\ stack # <<>> /\ Current.do = "Call" /\ ~isReturning
    BY <2>1, NoReturnAt
  <2> DEFINE items == <<>>
  <2>3. IsSeq(items) /\ Len(items) = 0
    BY DEF IsSeq
  <2>4. Nested(items)
    BY <2>3 DEF Nested
  <2>5. stack' = items \o Below
    BY <2>1, <2>2, StackParts DEF IsSeq
  <2> QED
    BY <2>1, <2>2, <2>3, <2>4, <2>5, FlagStep
<1>3. ASSUME CallBindFront
      PROVE  FlagInv'
  <2> DEFINE x == [do |-> "Call", func |-> Current.func.val.target,
                   args |-> Current.func.val.bound \o Current.args]
  <2>1. At("Call") /\ stack' = <<x>> \o Below /\ isReturning' = isReturning /\ "Call" \notin Unwinding
    BY <1>3 DEF CallBindFront, Calling, Goto, Below, flags, Unwinding, Enders
  <2>2. StackOK /\ stack # <<>> /\ ~isReturning
    BY <2>1, NoReturnAt
  <2>3. x.do \notin Closing \cup Idle
    BY DEF Closing, Idle, Between, StatementKinds
  <2> HIDE DEF x
  <2> QED
    BY <2>1, <2>2, <2>3, FlagOne
<1>4. ASSUME CallComposed
      PROVE  FlagInv'
  <2> DEFINE x == [do |-> "Call", func |-> Current.func.val.first, args |-> Current.args]
             y == [do |-> "HalfEnd"]
             z == [do |-> "SecondHalf", second |-> Current.func.val.second]
  <2>1. At("Call") /\ stack' = <<x, y, z>> \o Below /\ isReturning' = isReturning /\ "Call" \notin Unwinding
    BY <1>4 DEF CallComposed, Calling, Goto, Below, flags, Unwinding, Enders
  <2>2. StackOK /\ stack # <<>> /\ ~isReturning
    BY <2>1, NoReturnAt
  <2>3. x.do \notin Closing \cup Idle /\ y.do \notin Closing /\ z.do \notin Closing
    BY DEF Closing, Idle, Between, StatementKinds
  <2> HIDE DEF x, y, z
  <2> QED
    BY <2>1, <2>2, <2>3, FlagThree
<1>5. ASSUME EndHalf
      PROVE  FlagInv'
  <2>1. At("HalfEnd") /\ Return
    BY <1>5 DEF EndHalf
  <2>2. StackOK /\ stack # <<>> /\ Current.do = "HalfEnd"
    BY <2>1, Running
  <2> QED
    BY <2>1, <2>2, FlagLeave
<1>6. ASSUME CallSecondHalf
      PROVE  FlagInv'
  <2> DEFINE x == [do |-> "Call", func |-> Current.second, args |-> <<tmpResult>>]
             y == [do |-> "HalfEnd"]
  <2>1. At("SecondHalf") /\ ~isReturning
    BY <1>6 DEF CallSecondHalf, ReturnEscapes
  <2>2. StackOK /\ stack # <<>>
    BY <2>1, Running
  <2>3. \/ \E exception : Throw(exception)
        \/ stack' = <<x, y>> \o Below /\ ~isReturning'
    BY <1>6, <2>1 DEF CallSecondHalf, Goto, Below, flags
  <2>4. x.do \notin Closing \cup Idle /\ y.do \notin Closing
    BY DEF Closing, Idle, Between, StatementKinds
  <2> HIDE DEF x, y
  <2> QED
    BY <2>2, <2>3, <2>4, FlagTwo, FlagThrown
<1> QED
  BY <1>1, <1>2, <1>3, <1>4, <1>5, <1>6, CallGlobalEnds DEF CallFunction
-----------------------------------------------------------------------------
(* A statement that does not return finds and leaves nothing.                *)
LEMMA VisitCodeBlockEnds == ASSUME IInv, FlagInv, VisitCodeBlock PROVE FlagInv'
<1> DEFINE pop == [do |-> "PopScope"]
           x == Head(Current.statements)
           y == [do |-> "StatementEnd", rest |-> Tail(Current.statements)]
<1>1. At("CodeBlock") /\ UNCHANGED <<tmpResult, isReturning>> /\ stack' = NextStatement(Current.statements) \o Below
  BY DEF VisitCodeBlock, Goto, Below, flags
<1>2. "CodeBlock" \notin Unwinding /\ "CodeBlock" \in Idle
  BY DEF Unwinding, Enders, Idle, Between, StatementKinds
<1>3. StackOK /\ stack # <<>> /\ Current.do = "CodeBlock" /\ ~isReturning' /\ tmpResult' = Nothing
  BY <1>1, <1>2, NoReturnAt
<1>4. Current.do \in Closing /\ y.do \in Enders
  BY <1>3 DEF Closing, Enders
<1>5. CASE Current.statements = <<>>
  <2>1. stack' = <<pop>> \o Below
    BY <1>1, <1>5 DEF NextStatement
  <2> HIDE DEF pop
  <2> QED
    BY <1>3, <1>4, <2>1, FlagOne
<1>6. CASE Current.statements # <<>>
  <2>1. stack' = <<x, y>> \o Below
    BY <1>1, <1>6 DEF NextStatement
  <2> HIDE DEF x, y
  <2> QED
    BY <1>3, <1>4, <2>1, FlagTwo
<1> QED
  BY <1>5, <1>6

LEMMA VisitReturnStatementEnds == ASSUME IInv, FlagInv, VisitReturnStatement PROVE FlagInv'
<1> DEFINE y == [do |-> "ReturnResult"]
<1>1. /\ At("ReturnStatement") /\ "ReturnStatement" \in StatementKinds /\ "ReturnStatement" \notin Unwinding
      /\ Goto(Current.optExpr \o <<y>>) /\ UNCHANGED isReturning
  BY DEF VisitReturnStatement, StatementKinds, Unwinding, Enders, flags
<1>2. Current.optExpr \in AtMostOne(Expressions)
  BY <1>1, AtStatement DEF IsStatement
<1>3. StackOK /\ stack # <<>> /\ Current.do = "ReturnStatement" /\ ~isReturning'
  BY <1>1, NoReturnAt
<1>4. Current.do \in Closing /\ y.do \notin Idle
  BY <1>3 DEF Closing, Idle, Between, StatementKinds
<1> HIDE DEF y
<1>5. CASE Current.optExpr = <<>>
  <2>1. stack' = <<y>> \o Below
    BY <1>1, <1>5 DEF Goto, Below
  <2> QED
    BY <1>3, <1>4, <2>1, FlagOne
<1>6. ASSUME NEW x \in Expressions, Current.optExpr = <<x>>
      PROVE  FlagInv'
  <2>1. Goto(<<x, y>>)
    BY <1>1, <1>6 DEF Goto
  <2> QED
    BY <1>1, <1>4, <2>1, FlagVisited
<1> QED
  BY <1>2, <1>5, <1>6 DEF AtMostOne

LEMMA VisitForLoopEnds == ASSUME IInv, FlagInv, VisitForLoop PROVE FlagInv'
<1> DEFINE x == Current.decl
           y == Current.cond
           z == [do |-> "LoopTest", loop |-> Current]
<1>1. /\ At("ForLoop") /\ "ForLoop" \in StatementKinds /\ UNCHANGED <<tmpResult, isReturning>>
      /\ stack' = <<x, y, z>> \o Below
  <2>1. <<x>> \o TestLoop(Current) = <<x, y, z>>
    BY SeqTriplet DEF TestLoop
  <2>2. /\ At("ForLoop") /\ UNCHANGED <<tmpResult, isReturning>>
        /\ stack' = (<<x>> \o TestLoop(Current)) \o Below
    BY DEF VisitForLoop, Goto, Below
  <2> QED
    BY <2>1, <2>2 DEF StatementKinds
<1>2. "ForLoop" \notin Unwinding /\ "ForLoop" \in Idle
  BY DEF Unwinding, Enders, Idle, Between, StatementKinds
<1>3. StackOK /\ stack # <<>> /\ Current.do = "ForLoop" /\ ~isReturning' /\ tmpResult' = Nothing
  BY <1>1, <1>2, NoReturnAt
<1>4. x.do = "VariableDeclaration" /\ y \in Expressions
  BY <1>1, <1>3, AtStatement DEF IsStatement, Declarations
<1>5. x.do \notin Closing /\ y.do \notin Closing /\ Current.do \in Closing
  BY <1>3, <1>4, ExpressionComes DEF Closing, ExpressionKinds
<1> HIDE DEF x, y, z
<1> QED
  BY <1>1, <1>3, <1>5, FlagThree

LEMMA StartIterationEnds == ASSUME IInv, FlagInv, StartIteration PROVE FlagInv'
<1> DEFINE x == Current.loop.body
           y == [do |-> "LoopNext", loop |-> Current.loop]
           end == [do |-> "LoopEnd"]
<1>1. At("LoopTest") /\ "LoopTest" \notin Unwinding
  BY DEF StartIteration, Unwinding, Enders
<1>2. StackOK /\ stack # <<>> /\ Current.do = "LoopTest" /\ ~isReturning
  BY <1>1, NoReturnAt
<1>3. Current.do \in Closing /\ y.do \in Enders
  BY <1>2 DEF Closing, Enders
<1>4. \/ \E exception : Throw(exception)
      \/ /\ tmpResult' = Nothing /\ ~isReturning'
         /\ stack' = <<x, y>> \o Below \/ stack' = <<end>> \o Below
  BY <1>2 DEF StartIteration, SetCondition, Goto, Below
<1> HIDE DEF x, y, end
<1> QED
  BY <1>2, <1>3, <1>4, FlagTwo, FlagOne, FlagThrown

LEMMA TestIfEnds == ASSUME IInv, FlagInv, TestIf PROVE FlagInv'
<1> DEFINE x == Current.if.body
           y == [do |-> "IfEnd"]
           others == [do |-> "ElseIfs", rest |-> Current.if.elseIfs, optElse |-> Current.if.optElse]
<1>1. At("IfTest") /\ "IfTest" \notin Unwinding
  BY DEF TestIf, Unwinding, Enders
<1>2. StackOK /\ stack # <<>> /\ Current.do = "IfTest" /\ ~isReturning
  BY <1>1, NoReturnAt
<1>3. Current.do \in Closing /\ y.do \in Enders
  BY <1>2 DEF Closing, Enders
<1>4. \/ \E exception : Throw(exception)
      \/ /\ tmpResult' = Nothing /\ ~isReturning'
         /\ stack' = <<x, y>> \o Below \/ stack' = <<others>> \o Below
  BY <1>2 DEF TestIf, SetCondition, Goto, Below
<1> HIDE DEF x, y, others
<1> QED
  BY <1>2, <1>3, <1>4, FlagTwo, FlagOne, FlagThrown

LEMMA TestElseIfEnds == ASSUME IInv, FlagInv, TestElseIf PROVE FlagInv'
<1> DEFINE x == Current.body
<1>1. At("ElseIfTest") /\ "ElseIfTest" \notin Unwinding
  BY DEF TestElseIf, Unwinding, Enders
<1>2. StackOK /\ stack # <<>> /\ Current.do = "ElseIfTest" /\ ~isReturning
  BY <1>1, NoReturnAt
<1>3. Current.do \in Closing
  BY <1>2 DEF Closing
<1>4. \/ \E exception : Throw(exception)
      \/ /\ tmpResult' = Nothing /\ ~isReturning'
         /\ stack' = <<x>> \o Below \/ Return
  BY <1>2 DEF TestElseIf, SetCondition, Goto, Below, Return
<1> HIDE DEF x
<1> QED
  BY <1>2, <1>3, <1>4, FlagOne, FlagLeave, FlagThrown
LEMMA SimpleStatementEnds ==
  ASSUME IInv, FlagInv, VisitContinue \/ VisitBreak \/ DeclareVariable \/ AssignVariable \/ DiscardResult
  PROVE  FlagInv'
<1>1. PICK what \in {"ContinueStatement", "BreakStatement", "Declare", "Assign", "Discard"} : At(what)
  BY DEF VisitContinue, VisitBreak, DeclareVariable, AssignVariable, DiscardResult
<1>2. what \notin Unwinding
  BY <1>1 DEF Unwinding, Enders
<1>3. what \in {"ContinueStatement", "BreakStatement"} => what \in Idle
  BY DEF Idle, Between, StatementKinds
<1>4. StackOK /\ stack # <<>> /\ Current.do = what /\ ~isReturning /\ (what \in Idle => tmpResult = Nothing)
  BY <1>1, <1>2, NoReturnAt
<1>5. \/ \E exception : Throw(exception)
      \/ Return /\ ~isReturning' /\ tmpResult' = Nothing
  <2>1. CASE VisitContinue \/ VisitBreak
    BY <1>3, <1>4, <2>1 DEF VisitContinue, VisitBreak, At
  <2>2. CASE DeclareVariable \/ AssignVariable \/ DiscardResult
    BY <1>4, <2>2 DEF DeclareVariable, AssignVariable, DiscardResult, flags
  <2> QED
    BY <2>1, <2>2
<1> QED
  BY <1>4, <1>5, FlagLeave, FlagThrown

LEMMA ReturnResultEnds == ASSUME IInv, FlagInv, ReturnResult PROVE FlagInv'
<1>1. StackOK /\ stack # <<>> /\ Current.do = "ReturnResult"
  BY Running DEF ReturnResult
<1>2. Current.do \in Closing
  BY <1>1 DEF Closing
<1>3. (Return /\ isReturning') \/ \E exception : Throw(exception)
  BY DEF ReturnResult
<1> QED
  BY <1>1, <1>2, <1>3, FlagLeave, FlagThrown

(* What ends with a return pending ends for it, and leaves no result behind   *)
(* without one.                                                              *)
LEMMA EndOfStatementEnds ==
  ASSUME IInv, FlagInv, LeaveCodeBlock \/ ExitLoop \/ EndIf
  PROVE  FlagInv'
<1>1. PICK what \in {"PopScope", "LoopEnd", "IfEnd"} : At(what)
  BY DEF LeaveCodeBlock, ExitLoop, EndIf
<1>2. what \in Closing /\ what \in Idle
  BY <1>1 DEF Closing, Idle, Between
<1>3. StackOK /\ stack # <<>> /\ Current.do = what
  BY <1>1, Running
<1>4. Return /\ UNCHANGED <<tmpResult, isReturning>>
  BY DEF LeaveCodeBlock, ExitLoop, EndIf, flags
<1>5. isReturning \/ tmpResult = Nothing
  BY <1>2, <1>3 DEF FlagInv
<1> QED
  BY <1>2, <1>3, <1>4, <1>5, FlagLeave

LEMMA EndStatementEnds == ASSUME IInv, FlagInv, EndStatement PROVE FlagInv'
<1> DEFINE pop == [do |-> "PopScope"]
           x == Head(Current.rest)
           y == [do |-> "StatementEnd", rest |-> Tail(Current.rest)]
<1>1. At("StatementEnd") /\ UNCHANGED <<tmpResult, isReturning>>
  BY DEF EndStatement, flags
<1>2. StackOK /\ stack # <<>> /\ Current.do = "StatementEnd"
  BY <1>1, Running
<1>3. Current.do \in Closing /\ Current.do \in Idle /\ y.do \in Enders /\ pop.do \in Unwinding
  BY <1>2 DEF Closing, Enders, Idle, Between, Unwinding
<1>4. isReturning \/ tmpResult = Nothing
  BY <1>2, <1>3 DEF FlagInv
<1>5. CASE ShouldExitCodeBlock \/ Current.rest = <<>>
  <2>1. stack' = <<pop>> \o Below
    BY <1>5 DEF EndStatement, NextStatement, Goto, Below
  <2> HIDE DEF pop
  <2> QED
    BY <1>1, <1>2, <1>3, <1>4, <2>1, FlagOne
<1>6. CASE ~ShouldExitCodeBlock /\ Current.rest # <<>>
  <2>1. stack' = <<x, y>> \o Below /\ ~isReturning
    BY <1>6 DEF EndStatement, NextStatement, Goto, Below, ShouldExitCodeBlock
  <2> HIDE DEF x, y
  <2> QED
    BY <1>1, <1>2, <1>3, <1>4, <2>1, FlagTwo
<1> QED
  BY <1>5, <1>6

LEMMA EndIterationEnds == ASSUME IInv, FlagInv, EndIteration PROVE FlagInv'
<1> DEFINE end == [do |-> "LoopEnd"]
           x == Current.loop.update
           y == Current.loop.cond
           z == [do |-> "LoopTest", loop |-> Current.loop]
<1>1. At("LoopNext") /\ UNCHANGED <<tmpResult, isReturning>>
  BY DEF EndIteration, flags
<1>2. StackOK /\ stack # <<>> /\ Current.do = "LoopNext" /\ IsItem(Current, store)
  BY <1>1, Running
<1>3. Current.do \in Closing /\ Current.do \in Idle /\ end.do \in Unwinding
  BY <1>2 DEF Closing, Idle, Between, Unwinding
<1>4. isReturning \/ tmpResult = Nothing
  BY <1>2, <1>3 DEF FlagInv
<1>5. CASE onBreak \/ isReturning
  <2>1. stack' = <<end>> \o Below
    BY <1>5 DEF EndIteration, Goto, Below
  <2> HIDE DEF end
  <2> QED
    BY <1>1, <1>2, <1>3, <1>4, <2>1, FlagOne
<1>6. CASE ~(onBreak \/ isReturning)
  <2>1. stack' = <<x, y, z>> \o Below
    <3>1. <<x>> \o TestLoop(Current.loop) = <<x, y, z>>
      BY SeqTriplet DEF TestLoop
    <3>2. stack' = (<<x>> \o TestLoop(Current.loop)) \o Below
      BY <1>6 DEF EndIteration, Goto, Below
    <3> QED
      BY <3>1, <3>2
  <2>2. x.do = "AssignStatement" /\ y \in Expressions
    <3>1. Current.loop \in Statements /\ Current.loop.do = "ForLoop"
      BY <1>2 DEF IsItem
    <3> QED
      BY <3>1, StatementComes DEF IsStatement, Assignments
  <2>3. x.do \notin Closing /\ y.do \notin Closing
    BY <2>2, ExpressionComes DEF Closing, ExpressionKinds
  <2> HIDE DEF x, y, z
  <2> QED
    BY <1>1, <1>2, <1>3, <1>4, <1>6, <2>1, <2>3, FlagThree
<1> QED
  BY <1>5, <1>6

LEMMA NextElseIfEnds == ASSUME IInv, FlagInv, ~ReturnEscapes, NextElseIf PROVE FlagInv'
<1> DEFINE end == [do |-> "IfEnd"]
           next == [Current EXCEPT !.rest = Tail(@)]
<1>1. At("ElseIfs") /\ UNCHANGED <<tmpResult, isReturning>>
  BY DEF NextElseIf, flags
<1>2. /\ StackOK /\ stack # <<>> /\ Current.do = "ElseIfs"
      /\ Current = [do |-> "ElseIfs", rest |-> Current.rest, optElse |-> Current.optElse]
      /\ Current.optElse \in AtMostOne(Blocks)
  BY <1>1, Running, AtContinuation DEF IsItem
<1>3. Current.do \in Closing /\ Current.do \in Idle /\ end.do \in Enders /\ end.do \in Unwinding
  BY <1>2 DEF Closing, Enders, Idle, Between, Unwinding
<1>4. isReturning \/ tmpResult = Nothing
  BY <1>2, <1>3 DEF FlagInv
<1>5. CASE stack' = <<end>> \o Below
  <2> HIDE DEF end
  <2> QED
    BY <1>1, <1>2, <1>3, <1>4, <1>5, FlagOne
<1>6. CASE conditionMet
  BY <1>5, <1>6 DEF NextElseIf, Goto, Below
<1>7. ~conditionMet => ~isReturning
  BY <1>1 DEF ReturnEscapes
<1>8. CASE ~conditionMet /\ Current.rest = <<>>
  <2>1. stack' = (Current.optElse \o <<end>>) \o Below
    BY <1>8 DEF NextElseIf, Goto, Below
  <2>2. CASE Current.optElse = <<>>
    BY <1>5, <2>1, <2>2
  <2>3. ASSUME NEW x \in Blocks, Current.optElse = <<x>>
        PROVE  FlagInv'
    <3> HIDE DEF end
    <3>1. stack' = <<x, end>> \o Below
      BY <2>1, <2>3
    <3> QED
      BY <1>1, <1>2, <1>3, <1>4, <1>7, <1>8, <3>1, FlagTwo
  <2> QED
    BY <1>2, <2>2, <2>3 DEF AtMostOne
<1>9. CASE ~conditionMet /\ Current.rest # <<>>
  <2> DEFINE x == Head(Current.rest)
  <2>1. stack' = <<x, next>> \o Below
    BY <1>9 DEF NextElseIf, Goto, Below
  <2>2. next.do = "ElseIfs"
    BY <1>2
  <2>3. next.do \in Enders
    BY <2>2 DEF Enders
  <2> HIDE DEF x, next
  <2> QED
    BY <1>1, <1>2, <1>3, <1>4, <1>7, <1>9, <2>1, <2>3, FlagTwo
<1> QED
  BY <1>6, <1>8, <1>9

LEMMA StatementEnds == ASSUME IInv, FlagInv, ~ReturnEscapes, VisitStatement PROVE FlagInv'
BY VisitCodeBlockEnds, EndStatementEnds, EndOfStatementEnds, SimpleStatementEnds, VisitChildEnds,
   VisitReturnStatementEnds, ReturnResultEnds, VisitForLoopEnds, StartIterationEnds, EndIterationEnds,
   TestIfEnds, NextElseIfEnds, TestElseIfEnds
   DEF VisitStatement, VisitChild
-----------------------------------------------------------------------------
LEMMA ProgramEnds == ASSUME IInv, FlagInv, VisitFunctionDefinition \/ ExecuteMain PROVE FlagInv'
<1>1. PICK what \in Registering : At(what)
  BY DEF VisitFunctionDefinition, ExecuteMain, Registering
<1>2. what \notin Unwinding
  BY <1>1 DEF Registering, Unwinding, Enders
<1>3. StackOK /\ stack # <<>> /\ Current.do = what /\ ~isReturning
  BY <1>1, <1>2, NoReturnAt
<1>4. tmpResult = Nothing
  <2>1. Current = stack[1] /\ 1 \in 1..Len(stack)
    BY <1>3, StackParts
  <2>2. ~Underway(stack)
    BY <1>1, <1>3, <2>1 DEF Underway, Registering
  <2> QED
    BY <1>3, <2>2 DEF StackOK, IInv, ResultFits
<1>5. CASE VisitFunctionDefinition
  <2>1. (Return /\ UNCHANGED <<tmpResult, isReturning>>) \/ \E exception : Throw(exception)
    BY <1>5 DEF VisitFunctionDefinition, flags
  <2> QED
    BY <1>3, <1>4, <2>1, FlagLeave, FlagThrown
<1>6. CASE ExecuteMain
  <2> DEFINE x == [do |-> "Call", func |-> functions["main"], args |-> <<>>]
             y == [do |-> "CallEnd"]
  <2>1. \/ \E exception : Throw(exception)
        \/ stack' = <<x, y>> \o Below /\ UNCHANGED <<tmpResult, isReturning>>
    BY <1>6 DEF ExecuteMain, Goto, Below, flags
  <2>2. x.do \notin Closing /\ y.do \notin Closing
    BY DEF Closing
  <2> HIDE DEF x, y
  <2> QED
    BY <1>3, <1>4, <2>1, <2>2, FlagTwo, FlagThrown
<1> QED
  BY <1>5, <1>6

LEMMA OnlyRegistering == ASSUME Init PROVE \A i \in 1..Len(stack) : stack[i].do \in Registering
<1> DEFINE items == <<[do |-> "ExecuteMain"]>>
<1>1. IsSeq(program) /\ \A i \in 1..Len(program) : IsDefinition(program[i])
  <2> DEFINE defs == {def \in {program[i] : i \in DOMAIN program} : IsDefinition(def)}
  <2>1. program \in Seq(defs)
    BY ProgramsAreTrees DEF Init
  <2> QED
    BY <2>1 DEF IsSeq
<1>2. IsSeq(items) /\ Len(items) = 1 /\ items[1].do = "ExecuteMain"
  BY SeqSingle
<1>3. stack = program \o items
  BY DEF Init, VisitProgram
<1> HIDE DEF items
<1>4. /\ Len(program) \in Nat /\ Len(stack) = Len(program) + 1
      /\ \A i \in 1..Len(stack) : stack[i] = IF i <= Len(program) THEN program[i] ELSE items[i - Len(program)]
  BY <1>1, <1>2, <1>3, SeqParts, SeqConcat
<1> DEFINE k == Len(program)
<1>5. SUFFICES ASSUME NEW i \in 1..(k + 1)
               PROVE  stack[i].do \in Registering
  BY <1>4
<1>6. CASE i <= k
  <2>1. i \in 1..k /\ i \in 1..Len(stack)
    BY <1>4, <1>6
  <2>2. program[i].do = "FunctionDefinition"
    BY <1>1, <2>1 DEF IsDefinition
  <2> QED
    BY <1>4, <1>6, <2>1, <2>2 DEF Registering
<1>7. CASE ~(i <= k)
  <2>1. i - k = 1
    BY <1>4, <1>7
  <2> QED
    BY <1>2, <1>4, <1>7, <2>1 DEF Registering
<1> QED
  BY <1>6, <1>7

LEMMA FlagInitially == ASSUME Init PROVE FlagInv
<1>1. IInv /\ tmpResult = Nothing /\ isReturning = FALSE
  BY Initially DEF Init, Constructed
<1>2. \A i \in 1..Len(stack) : stack[i].do \in Registering
  BY OnlyRegistering
<1>3. \A i \in 1..(Len(stack) - 1) : i \in 1..Len(stack)
  <2>1. Len(stack) \in Nat
    BY <1>1, SeqParts DEF IInv, StackOK, AreItems
  <2> QED
    BY <2>1
<1>4. Nested(stack)
  BY <1>2, <1>3 DEF Nested, Registering, Closing
<1> QED
  BY <1>1, <1>4 DEF FlagInv

LEMMA FlagAlways == IInv /\ FlagInv /\ ~ReturnEscapes /\ [Next]_vars => FlagInv'
<1> SUFFICES ASSUME IInv, FlagInv, ~ReturnEscapes, [Next]_vars
             PROVE  FlagInv'
  OBVIOUS
<1>1. CASE Finish \/ Stopped \/ UNCHANGED vars
  <2>1. stack' = stack /\ tmpResult' = tmpResult /\ isReturning' = isReturning
    BY <1>1 DEF Finish, Stopped, vars, flags
  <2> QED
    BY <2>1 DEF FlagInv, Nested, Current
<1> QED
  BY <1>1, ProgramEnds, ExpressionEnds, CallEnds, StatementEnds DEF Next, Run

(* A return that does not escape ends exactly the call it is in: no body       *)
(* starts with one pending, and no statement finds what another one left      *)
(* (interpreter.cpp 61-65, 138-152, 400-412).                                 *)
THEOREM ReturnsEndCalls == Spec => ReturnsEndTheirCall
<1>1. IInv /\ FlagInv => NoReturnPending /\ NothingLeftBehind
  <2> SUFFICES ASSUME IInv, FlagInv
               PROVE  NoReturnPending /\ NothingLeftBehind
    OBVIOUS
  <2>1. "Call" \notin Unwinding
    BY DEF Unwinding, Enders
  <2>2. \A what \in StatementKinds : what \notin Unwinding /\ what \in Idle
    BY DEF StatementKinds, Unwinding, Enders, Idle, Between
  <2> QED
    BY <2>1, <2>2, NoReturnHere DEF NoReturnPending, NothingLeftBehind, At
<1> QED
  BY <1>1, FlagInitially, FlagAlways, Invariance, PTL DEF Spec, ReturnsEndTheirCall
-----------------------------------------------------------------------------
(* A pending break: the items that end with one.                               *)
Breaking == Unwinding \ {"SecondHalf"}
BreakInv == onBreak => stack # <<>> /\ Current.do \in Breaking

LEMMA HeadBecomes ==
  ASSUME StackOK, stack # <<>>, NEW x, stack' = <<x>> \o Below
  PROVE  stack' # <<>> /\ Current' = x
<1> DEFINE s == <<x>> \o Below
           items == <<x>>
<1>1. IsSeq(Below) /\ Len(Below) \in Nat
  BY StackParts
<1>2. IsSeq(items) /\ Len(items) = 1 /\ items[1] = x
  BY SeqSingle
<1> HIDE DEF items
<1>3. /\ IsSeq(items \o Below) /\ Len(items \o Below) = 1 + Len(Below)
      /\ \A i \in 1..Len(items \o Below) : (items \o Below)[i] = IF i <= 1 THEN items[i] ELSE Below[i - 1]
  BY <1>1, <1>2, SeqConcat
<1>4. s = items \o Below /\ stack' = s
  BY DEF items
<1> HIDE DEF s
<1>5. 1 \in 1..Len(s) /\ Len(s) # 0 /\ s[1] = x
  BY <1>1, <1>2, <1>3, <1>4
<1>6. s # <<>> /\ Head(s) = s[1]
  BY <1>3, <1>4, <1>5, SeqParts, SeqTail
<1> QED
  BY <1>4, <1>5, <1>6 DEF Current

LEMMA HeadUncovered ==
  ASSUME StackOK, FlagInv, stack # <<>>, Current.do \in Closing, Return
  PROVE  stack' # <<>> /\ Current'.do \in Enders
<1>1. IsSeq(Below) /\ (Below # <<>> => Below[1].do \in Enders)
  BY StackParts, NestedBelow DEF FlagInv
<1>2. Below # <<>>
  BY InProgress DEF Closing, Registering
<1>3. stack' = Below
  BY <1>1 DEF Return, Goto, Below, IsSeq
<1>4. Head(Below) = Below[1]
  BY <1>1, <1>2, SeqTail
<1> QED
  BY <1>1, <1>2, <1>3, <1>4 DEF Current

(* Only what ends with a break pending runs while one is.                     *)
LEMMA BreakKept ==
  ASSUME BreakInv, NEW what, what \notin Breaking, At(what), onBreak' = onBreak
  PROVE  BreakInv'
BY DEF BreakInv, At

LEMMA BreakThrown == ASSUME BreakInv, NEW exception, Throw(exception) PROVE BreakInv'
<1>1. stack' = stack /\ onBreak' = onBreak
  BY DEF Throw, flags
<1> QED
  BY <1>1 DEF BreakInv, Current

LEMMA BreakInExpression == ASSUME IInv, BreakInv, ~BreakEscapes, VisitExpression PROVE BreakInv'
<1>1. CASE VisitChild
  BY <1>1, ChildVisited, BreakKept, BreakThrown DEF GoesInto, Breaking, flags
<1>2. CASE EndCall
  BY <1>2 DEF EndCall, BreakEscapes, BreakInv
<1>3. ASSUME VisitLiteral \/ VisitIdentifier \/ GetArguments \/ CollectArgument \/ Invoke
             \/ ApplyCast \/ ApplyBinary \/ ApplyUnary \/ VisitBindFront \/ ApplyBindFront
      PROVE  BreakInv'
  <2>1. \E what : what \notin Breaking /\ At(what)
    BY <1>3 DEF VisitLiteral, VisitIdentifier, GetArguments, CollectArgument, Invoke, ApplyCast, ApplyBinary,
         ApplyUnary, VisitBindFront, ApplyBindFront, Breaking, Unwinding, Enders
  <2>2. onBreak' = onBreak \/ \E exception : Throw(exception)
    BY <1>3 DEF VisitLiteral, VisitIdentifier, GetArguments, CollectArgument, Invoke, ApplyCast, ApplyBinary,
         ApplyUnary, VisitBindFront, ApplyBindFront, Deliver, flags
  <2> QED
    BY <2>1, <2>2, BreakKept, BreakThrown
<1> QED
  BY <1>1, <1>2, <1>3 DEF VisitExpression, VisitChild

LEMMA BreakInCall == ASSUME BreakInv, ~BreakEscapes, CallFunction PROVE BreakInv'
<1>1. CASE EndHalf
  BY <1>1 DEF EndHalf, BreakEscapes, BreakInv, flags
<1>2. CASE ~EndHalf
  <2>1. \E what : what \notin Breaking /\ At(what)
    BY <1>2 DEF CallFunction, CallGlobal, BindParameter, CallBuiltin, CallBindFront, CallComposed,
         CallSecondHalf, Calling, Breaking, Unwinding, Enders
  <2>2. onBreak' = onBreak \/ \E exception : Throw(exception)
    BY <1>2 DEF CallFunction, CallGlobal, BindParameter, CallBuiltin, CallBindFront, CallComposed,
         CallSecondHalf, flags
  <2> QED
    BY <2>1, <2>2, BreakKept, BreakThrown
<1> QED
  BY <1>1, <1>2

LEMMA BreakInStatement == ASSUME IInv, FlagInv, BreakInv, ~BreakEscapes, VisitStatement PROVE BreakInv'
<1>1. ASSUME VisitBreak \/ LeaveCodeBlock \/ EndIf
      PROVE  BreakInv'
  <2>1. PICK what \in {"BreakStatement", "PopScope", "IfEnd"} : At(what)
    BY <1>1 DEF VisitBreak, LeaveCodeBlock, EndIf
  <2>2. StackOK /\ stack # <<>> /\ Current.do \in Closing
    BY <2>1, Running DEF Closing
  <2>3. Return \/ \E exception : Throw(exception)
    BY <1>1 DEF VisitBreak, LeaveCodeBlock, EndIf
  <2> QED
    BY <2>2, <2>3, HeadUncovered, BreakThrown DEF BreakInv, Breaking, Unwinding, Enders
<1>2. CASE EndStatement
  <2> DEFINE x == [do |-> "PopScope"]
  <2>1. StackOK /\ stack # <<>> /\ onBreak' = onBreak /\ x.do \in Breaking
    BY <1>2, Running DEF EndStatement, flags, Breaking, Unwinding
  <2>2. onBreak => stack' = <<x>> \o Below
    BY <1>2 DEF EndStatement, ShouldExitCodeBlock, NextStatement, Goto, Below
  <2> HIDE DEF x
  <2> QED
    BY <2>1, <2>2, HeadBecomes DEF BreakInv
<1>3. CASE EndIteration
  <2> DEFINE x == [do |-> "LoopEnd"]
  <2>1. StackOK /\ stack # <<>> /\ onBreak' = onBreak /\ x.do \in Breaking
    BY <1>3, Running DEF EndIteration, flags, Breaking, Unwinding
  <2>2. onBreak => stack' = <<x>> \o Below
    BY <1>3 DEF EndIteration, Goto, Below
  <2> HIDE DEF x
  <2> QED
    BY <2>1, <2>2, HeadBecomes DEF BreakInv
<1>4. CASE NextElseIf
  <2> DEFINE x == [do |-> "IfEnd"]
  <2>1. StackOK /\ stack # <<>> /\ onBreak' = onBreak /\ x.do \in Breaking
    BY <1>4, Running DEF NextElseIf, flags, Breaking, Unwinding, Enders
  <2>2. onBreak => stack' = <<x>> \o Below
    BY <1>4 DEF NextElseIf, BreakEscapes, Goto, Below
  <2> HIDE DEF x
  <2> QED
    BY <2>1, <2>2, HeadBecomes DEF BreakInv
<1>5. CASE ExitLoop
  BY <1>5 DEF ExitLoop, BreakInv
<1>6. CASE VisitChild
  BY <1>6, ChildVisited, BreakKept, BreakThrown DEF GoesInto, Breaking, flags
<1>7. ASSUME VisitCodeBlock \/ DeclareVariable \/ AssignVariable \/ DiscardResult \/ VisitReturnStatement
             \/ ReturnResult \/ VisitContinue \/ VisitForLoop \/ StartIteration \/ TestIf \/ TestElseIf
      PROVE  BreakInv'
  <2>1. \E what : what \notin Breaking /\ At(what)
    BY <1>7 DEF VisitCodeBlock, DeclareVariable, AssignVariable, DiscardResult, VisitReturnStatement, ReturnResult,
         VisitContinue, VisitForLoop, StartIteration, TestIf, TestElseIf, Breaking, Unwinding, Enders
  <2>2. onBreak' = onBreak \/ \E exception : Throw(exception)
    BY <1>7 DEF VisitCodeBlock, DeclareVariable, AssignVariable, DiscardResult, VisitReturnStatement, ReturnResult,
         VisitContinue, VisitForLoop, StartIteration, TestIf, TestElseIf, SetCondition, flags
  <2> QED
    BY <2>1, <2>2, BreakKept, BreakThrown
<1> QED
  BY <1>1, <1>2, <1>3, <1>4, <1>5, <1>6, <1>7 DEF VisitStatement, VisitChild

LEMMA BreakAlways == IInv /\ FlagInv /\ BreakInv /\ ~BreakEscapes /\ [Next]_vars => BreakInv'
<1> SUFFICES ASSUME IInv, FlagInv, BreakInv, ~BreakEscapes, [Next]_vars
             PROVE  BreakInv'
  OBVIOUS
<1>1. CASE Finish \/ Stopped \/ UNCHANGED vars
  <2>1. stack' = stack /\ onBreak' = onBreak
    BY <1>1 DEF Finish, Stopped, vars, flags
  <2> QED
    BY <2>1 DEF BreakInv, Current
<1>2. CASE VisitFunctionDefinition \/ ExecuteMain
  <2>1. \E what : what \notin Breaking /\ At(what)
    BY <1>2 DEF VisitFunctionDefinition, ExecuteMain, Breaking, Unwinding, Enders
  <2>2. onBreak' = onBreak \/ \E exception : Throw(exception)
    BY <1>2 DEF VisitFunctionDefinition, ExecuteMain, flags
  <2> QED
    BY <2>1, <2>2, BreakKept, BreakThrown
<1> QED
  BY <1>1, <1>2, BreakInExpression, BreakInCall, BreakInStatement DEF Next, Run

(* A break that ends a loop of the function it is in ends just that: no body   *)
(* starts with one pending (interpreter.cpp 161-166, 176-180, 400-412).       *)
THEOREM BreaksEndLoops == Spec => BreaksEndTheirLoop
<1>1. BreakInv => NoBreakPending
  BY DEF BreakInv, NoBreakPending, At, Breaking, Unwinding, Enders
<1>2. Init => BreakInv
  BY DEF Init, Constructed, BreakInv
<1> QED
  BY <1>1, <1>2, BreakAlways, FlagInitially, FlagAlways, Invariance, PTL DEF Spec, BreaksEndTheirLoop
-----------------------------------------------------------------------------
(* Whether a loop is open.                                                     *)
InsideInv == insideLoop <=> LoopsIn(stack)

(* A step that neither opens nor closes a loop.                                *)
LoopsKept == insideLoop' = insideLoop /\ (LoopsIn(stack)' <=> LoopsIn(stack))

LEMMA LoopsJoin ==
  ASSUME NEW items, NEW base, IsSeq(items), IsSeq(base)
  PROVE  LoopsIn(items \o base) <=> LoopsIn(items) \/ LoopsIn(base)
<1> DEFINE s == items \o base
           m == Len(items)
           n == Len(base)
<1>1. /\ m \in Nat /\ n \in Nat /\ Len(s) = m + n
      /\ \A i \in 1..Len(s) : s[i] = IF i <= m THEN items[i] ELSE base[i - m]
  BY SeqParts, SeqConcat
<1> HIDE DEF s, m, n
<1>2. \A i \in 1..m : i \in 1..Len(s) /\ s[i] = items[i]
  BY <1>1
<1>3. ASSUME NEW i \in 1..n
      PROVE  m + i \in 1..Len(s) /\ s[m + i] = base[i]
  <2>1. m + i \in 1..Len(s) /\ ~(m + i <= m) /\ (m + i) - m = i
    BY <1>1
  <2> QED
    BY <1>1, <2>1
<1>4. \A i \in 1..Len(s) : i \in 1..m \/ (i - m \in 1..n /\ s[i] = base[i - m])
  BY <1>1
<1>5. LoopsIn(items) => LoopsIn(s)
  BY <1>2 DEF LoopsIn, m
<1>6. LoopsIn(base) => LoopsIn(s)
  BY <1>3 DEF LoopsIn, n
<1>7. LoopsIn(s) => LoopsIn(items) \/ LoopsIn(base)
  BY <1>2, <1>4 DEF LoopsIn, m, n
<1> QED
  BY <1>5, <1>6, <1>7 DEF s

LEMMA LoopsBelow ==
  ASSUME StackOK, stack # <<>>
  PROVE  IsSeq(Below) /\ (LoopsIn(stack) <=> Current.do \in LoopOwers \/ LoopsIn(Below))
<1> DEFINE items == <<Current>>
<1>1. IsSeq(items) /\ Len(items) = 1 /\ items[1] = Current
  BY SeqSingle
<1>2. IsSeq(Below) /\ stack = items \o Below
  BY StackParts
<1> HIDE DEF items
<1>3. LoopsIn(items) <=> Current.do \in LoopOwers
  BY <1>1 DEF LoopsIn
<1> QED
  BY <1>1, <1>2, <1>3, LoopsJoin

(* The head of the stack gives way to items.                                   *)
LEMMA LoopsAfter ==
  ASSUME StackOK, stack # <<>>, NEW items, IsSeq(items), stack' = items \o Below
  PROVE  LoopsIn(stack)' <=> LoopsIn(items) \/ LoopsIn(Below)
<1> DEFINE s == items \o Below
<1>1. LoopsIn(s) <=> LoopsIn(items) \/ LoopsIn(Below)
  BY LoopsBelow, LoopsJoin
<1>2. stack' = s
  OBVIOUS
<1> HIDE DEF s
<1>3. LoopsIn(stack)' <=> LoopsIn(s)
  BY <1>2 DEF LoopsIn
<1> QED
  BY <1>1, <1>3

LEMMA LoopsKeptStep ==
  ASSUME StackOK, stack # <<>>, NEW items, IsSeq(items), stack' = items \o Below,
         insideLoop' = insideLoop, LoopsIn(items) <=> Current.do \in LoopOwers
  PROVE  LoopsKept
BY LoopsAfter, LoopsBelow DEF LoopsKept

LEMMA LoopsKeptLeft ==
  ASSUME StackOK, stack # <<>>, Return,
         insideLoop' = insideLoop, Current.do \notin LoopOwers
  PROVE  LoopsKept
<1> DEFINE items == <<>>
<1>1. IsSeq(items) /\ Len(items) = 0 /\ stack' = items \o Below
  BY DEF IsSeq, Return, Goto, Below
<1> HIDE DEF items
<1>2. ~LoopsIn(items)
  BY <1>1 DEF LoopsIn
<1> QED
  BY <1>1, <1>2, LoopsKeptStep

LEMMA LoopsKeptOne ==
  ASSUME StackOK, stack # <<>>, NEW x, stack' = <<x>> \o Below, insideLoop' = insideLoop,
         x.do \in LoopOwers <=> Current.do \in LoopOwers
  PROVE  LoopsKept
<1> DEFINE items == <<x>>
<1>1. IsSeq(items) /\ Len(items) = 1 /\ items[1] = x /\ stack' = items \o Below
  BY SeqSingle
<1> HIDE DEF items
<1>2. LoopsIn(items) <=> Current.do \in LoopOwers
  BY <1>1 DEF LoopsIn
<1> QED
  BY <1>1, <1>2, LoopsKeptStep

LEMMA LoopsKeptTwo ==
  ASSUME StackOK, stack # <<>>, NEW x, NEW y, stack' = <<x, y>> \o Below, insideLoop' = insideLoop,
         x.do \notin LoopOwers, y.do \in LoopOwers <=> Current.do \in LoopOwers
  PROVE  LoopsKept
<1> DEFINE items == <<x, y>>
<1>1. IsSeq(items) /\ Len(items) = 2 /\ items[1] = x /\ items[2] = y /\ stack' = items \o Below
  BY SeqPair
<1> HIDE DEF items
<1>2. LoopsIn(items) <=> Current.do \in LoopOwers
  <2>1. \A i \in 1..Len(items) : i \in {1, 2}
    BY <1>1
  <2>2. 1 \in 1..Len(items) /\ 2 \in 1..Len(items)
    BY <1>1
  <2> QED
    BY <1>1, <2>1, <2>2 DEF LoopsIn
<1> QED
  BY <1>1, <1>2, LoopsKeptStep

LEMMA LoopsKeptThree ==
  ASSUME StackOK, stack # <<>>, NEW x, NEW y, NEW z, stack' = <<x, y, z>> \o Below,
         x.do \notin LoopOwers, y.do \notin LoopOwers, insideLoop' = insideLoop,
         z.do \in LoopOwers <=> Current.do \in LoopOwers
  PROVE  LoopsKept
<1> DEFINE items == <<x, y, z>>
<1>1. /\ IsSeq(items) /\ Len(items) = 3 /\ items[1] = x /\ items[2] = y /\ items[3] = z
      /\ stack' = items \o Below
  BY SeqTriple
<1> HIDE DEF items
<1>2. LoopsIn(items) <=> z.do \in LoopOwers
  <2>1. \A i \in 1..Len(items) : i \in {1, 2, 3}
    BY <1>1
  <2>2. 3 \in 1..Len(items)
    BY <1>1
  <2> QED
    BY <1>1, <2>1, <2>2 DEF LoopsIn
<1> QED
  BY <1>1, <1>2, LoopsKeptStep

LEMMA LoopsKeptThrown == ASSUME NEW exception, Throw(exception) PROVE LoopsKept
<1>1. stack' = stack /\ insideLoop' = insideLoop
  BY DEF Throw, flags
<1> QED
  BY <1>1 DEF LoopsKept, LoopsIn

LEMMA NodesOweNoLoop ==
  /\ \A x \in Expressions : x.do \notin LoopOwers
  /\ \A x \in Statements : x.do \notin LoopOwers
BY ExpressionComes, StatementComes DEF ExpressionKinds, StatementKinds, LoopOwers

(* What neither begins nor ends a loop.                                        *)
LEMMA LoopsKeptChild == ASSUME IInv, VisitChild PROVE LoopsKept
<1>1. ASSUME GoesInto
      PROVE  LoopsKept
  <2>1. PICK what : \E x \in Expressions : \E y :
          /\ At(what) /\ what \notin Unwinding \cup LoopOwers
          /\ Goto(<<x, y>>) /\ UNCHANGED flags
          /\ y.do \notin LoopOwers
    BY <1>1 DEF GoesInto
  <2>2. PICK x \in Expressions : \E y :
          /\ At(what) /\ what \notin Unwinding \cup LoopOwers
          /\ Goto(<<x, y>>) /\ UNCHANGED flags
          /\ y.do \notin LoopOwers
    BY <2>1
  <2>3. PICK y : Goto(<<x, y>>) /\ UNCHANGED flags /\ y.do \notin LoopOwers
    BY <2>2
  <2>4. StackOK /\ stack # <<>> /\ Current.do \notin LoopOwers
    BY <2>2, Running
  <2>5. stack' = <<x, y>> \o Below /\ insideLoop' = insideLoop /\ x.do \notin LoopOwers
    BY <2>3, NodesOweNoLoop DEF Goto, Below, flags
  <2> QED
    BY <2>3, <2>4, <2>5, LoopsKeptTwo
<1> QED
  BY <1>1, ChildVisited, LoopsKeptThrown

LEMMA LoopsKeptDelivered ==
  ASSUME IInv, NEW what, what \notin LoopOwers, At(what), NEW outcomes, Deliver(outcomes)
  PROVE  LoopsKept
<1>1. PICK o \in outcomes :
        IF o.tag = "error"
        THEN Throw(o.error)
        ELSE tmpResult' = o /\ Return /\ UNCHANGED <<envVars, flags>>
  BY DEF Deliver
<1>2. StackOK /\ stack # <<>> /\ Current.do \notin LoopOwers
  BY Running
<1> QED
  BY <1>1, <1>2, LoopsKeptThrown, LoopsKeptLeft DEF flags

LEMMA LoopsKeptArguments ==
  ASSUME IInv, NEW what, what \notin LoopOwers, At(what),
         NEW exprs \in Seq(Expressions), NEW got, NEW then, TakesArgs(then),
         Goto(ArgList(exprs, got, then)), UNCHANGED insideLoop
  PROVE  LoopsKept
<1>1. StackOK /\ stack # <<>> /\ Current.do \notin LoopOwers
  BY Running
<1>2. CASE exprs = <<>>
  <2> DEFINE x == [then EXCEPT !.args = got]
  <2>1. x.do \in {"Invoke", "BindTarget"}
    BY DEF TakesArgs
  <2>2. stack' = <<x>> \o Below
    BY <1>2 DEF ArgList, Goto, Below
  <2> HIDE DEF x
  <2>3. x.do \notin LoopOwers
    BY <2>1 DEF LoopOwers
  <2> QED
    BY <1>1, <2>2, <2>3, LoopsKeptOne
<1>3. CASE exprs # <<>>
  <2> DEFINE x == Head(exprs)
             y == [do |-> "Argument", rest |-> Tail(exprs), got |-> got, then |-> then]
  <2>1. x.do \notin LoopOwers /\ y.do \notin LoopOwers
    BY <1>3, NodesOweNoLoop DEF LoopOwers
  <2>2. stack' = <<x, y>> \o Below
    BY <1>3 DEF ArgList, Goto, Below
  <2> HIDE DEF x, y
  <2> QED
    BY <1>1, <2>1, <2>2, LoopsKeptTwo
<1> QED
  BY <1>2, <1>3

LEMMA LoopsKeptReturned ==
  ASSUME IInv,
         \/ VisitLiteral \/ VisitIdentifier \/ EndCall \/ BindParameter \/ EndHalf \/ LeaveCodeBlock
         \/ DeclareVariable \/ AssignVariable \/ DiscardResult \/ ReturnResult \/ VisitContinue \/ VisitBreak
         \/ EndIf \/ VisitFunctionDefinition
  PROVE  LoopsKept
<1>1. PICK what : what \notin LoopOwers /\ At(what)
  BY DEF VisitLiteral, VisitIdentifier, EndCall, BindParameter, EndHalf, LeaveCodeBlock, DeclareVariable,
         AssignVariable, DiscardResult, ReturnResult, VisitContinue, VisitBreak, EndIf, VisitFunctionDefinition,
         LoopOwers
<1>2. StackOK /\ stack # <<>> /\ Current.do \notin LoopOwers
  BY <1>1, Running
<1>3. (Return /\ insideLoop' = insideLoop) \/ \E exception : Throw(exception)
  BY DEF VisitLiteral, VisitIdentifier, EndCall, BindParameter, EndHalf, LeaveCodeBlock, DeclareVariable,
         AssignVariable, DiscardResult, ReturnResult, VisitContinue, VisitBreak, EndIf, VisitFunctionDefinition,
         flags
<1> QED
  BY <1>2, <1>3, LoopsKeptLeft, LoopsKeptThrown
LEMMA LoopsKeptExpression == ASSUME IInv, VisitExpression PROVE LoopsKept
<1>1. CASE VisitChild
  BY <1>1, LoopsKeptChild
<1>2. CASE VisitLiteral \/ VisitIdentifier \/ EndCall
  BY <1>2, LoopsKeptReturned
<1>3. CASE GetArguments
  <2> DEFINE then == [do |-> "Invoke", func |-> TmpValue, args |-> <<>>]
  <2>1. At("Callee") /\ "Callee" \notin LoopOwers
    BY <1>3 DEF GetArguments, LoopOwers
  <2>2. Current.args \in Seq(Expressions)
    BY <2>1, AtOperation DEF IsItem
  <2>3. CASE ~IsCallable(tmpResult, store)
    BY <1>3, <2>3, LoopsKeptThrown DEF GetArguments
  <2>4. CASE IsCallable(tmpResult, store)
    <3>1. IsFunction(TmpValue)
      BY <2>1, <2>4, CallableIsFunction, Running
    <3>2. TakesArgs(then)
      BY <3>1 DEF TakesArgs
    <3>3. Goto(ArgList(Current.args, <<>>, then)) /\ UNCHANGED insideLoop
      BY <1>3, <2>4 DEF GetArguments, flags
    <3> HIDE DEF then
    <3> QED
      BY <2>1, <2>2, <3>2, <3>3, LoopsKeptArguments
  <2> QED
    BY <2>3, <2>4
<1>4. CASE CollectArgument
  <2>1. At("Argument") /\ "Argument" \notin LoopOwers
    BY <1>4 DEF CollectArgument, LoopOwers
  <2>2. Current.rest \in Seq(Expressions) /\ TakesArgs(Current.then)
    BY <2>1, AtOperation DEF IsItem
  <2>3. \/ \E exception : Throw(exception)
        \/ Goto(ArgList(Current.rest, Append(Current.got, tmpResult), Current.then)) /\ UNCHANGED insideLoop
    BY <1>4 DEF CollectArgument, flags
  <2> QED
    BY <2>1, <2>2, <2>3, LoopsKeptArguments, LoopsKeptThrown
<1>5. CASE VisitBindFront
  <2> DEFINE then == [do |-> "BindTarget", target |-> Current.target, args |-> <<>>]
  <2>1. At("BindFront") /\ "BindFront" \in ExpressionKinds /\ "BindFront" \notin LoopOwers
    BY <1>5 DEF VisitBindFront, ExpressionKinds, LoopOwers
  <2>2. Current.args \in Seq(Expressions) /\ Current.target \in Expressions
    BY <2>1, AtExpression DEF IsExpression
  <2>3. TakesArgs(then)
    BY <2>2 DEF TakesArgs
  <2>4. Goto(ArgList(Current.args, <<>>, then)) /\ UNCHANGED insideLoop
    BY <1>5 DEF VisitBindFront, flags
  <2> HIDE DEF then
  <2> QED
    BY <2>1, <2>2, <2>3, <2>4, LoopsKeptArguments
<1>6. CASE ApplyCast \/ ApplyBinary \/ ApplyUnary \/ ApplyBindFront
  <2>1. \E what : what \notin LoopOwers /\ At(what)
    BY <1>6 DEF ApplyCast, ApplyBinary, ApplyUnary, ApplyBindFront, LoopOwers
  <2>2. (\E outcomes : Deliver(outcomes)) \/ (\E exception : Throw(exception))
    BY <1>6 DEF ApplyCast, ApplyBinary, ApplyUnary, ApplyBindFront
  <2> QED
    BY <2>1, <2>2, LoopsKeptDelivered, LoopsKeptThrown
<1>7. CASE Invoke
  <2> DEFINE x == [do |-> "Call", func |-> Current.func, args |-> Current.args]
             y == [do |-> "CallEnd"]
  <2>1. StackOK /\ stack # <<>> /\ Current.do = "Invoke"
    BY <1>7, Running DEF Invoke
  <2>2. x.do \notin LoopOwers /\ y.do \notin LoopOwers /\ Current.do \notin LoopOwers
    BY <2>1 DEF LoopOwers
  <2>3. \/ \E exception : Throw(exception)
        \/ stack' = <<x, y>> \o Below /\ insideLoop' = insideLoop
    BY <1>7 DEF Invoke, Goto, Below, flags
  <2> HIDE DEF x, y
  <2> QED
    BY <2>1, <2>2, <2>3, LoopsKeptTwo, LoopsKeptThrown
<1> QED
  BY <1>1, <1>2, <1>3, <1>4, <1>5, <1>6, <1>7 DEF VisitExpression, VisitChild

LEMMA LoopsKeptCallGlobal == ASSUME IInv, CallGlobal PROVE LoopsKept
<1> DEFINE def == Current.func.val.def
           args == Current.args
           params == [i \in DOMAIN args |-> [do |-> "Parameter", param |-> def.params[i], arg |-> args[i]]]
           body == <<def.body>>
           items == params \o body
<1>1. /\ At("Call") /\ Calling("global") /\ stack' = items \o Below /\ insideLoop' = insideLoop
  BY DEF CallGlobal, Calling, Goto, Below, flags
<1>2. StackOK /\ stack # <<>> /\ Current.do = "Call" /\ Current.do \notin LoopOwers /\ IsItem(Current, store)
  BY <1>1, Running DEF LoopOwers
<1>3. AreArgs(args, store) /\ def.body.do = "CodeBlock"
  <2>1. AreArgs(args, store) /\ IsFunction(Current.func)
    BY <1>2 DEF IsItem
  <2>2. IsDefinition(def)
    BY <1>1, <2>1, FunctionParts DEF Calling
  <2> QED
    BY <2>1, <2>2, BlockComes DEF IsDefinition
<1> HIDE DEF args, def
<1>4. Len(args) \in Nat /\ DOMAIN args = 1..Len(args)
  BY <1>3, SeqParts DEF AreArgs
<1>5. IsSeq(params) /\ Len(params) = Len(args) /\ \A i \in 1..Len(args) : params[i].do = "Parameter"
  BY <1>4, SeqMade
<1>6. IsSeq(body) /\ Len(body) = 1 /\ body[1].do = "CodeBlock"
  BY <1>3, SeqSingle
<1> HIDE DEF params, body
<1>7. ~LoopsIn(params) /\ ~LoopsIn(body)
  BY <1>5, <1>6 DEF LoopsIn, LoopOwers
<1>8. IsSeq(items) /\ ~LoopsIn(items)
  BY <1>5, <1>6, <1>7, SeqConcat, LoopsJoin
<1> HIDE DEF items
<1> QED
  BY <1>1, <1>2, <1>8, LoopsKeptStep

LEMMA LoopsKeptCall == ASSUME IInv, CallFunction PROVE LoopsKept
<1>1. CASE BindParameter \/ EndHalf
  BY <1>1, LoopsKeptReturned
<1>2. CASE CallGlobal
  BY <1>2, LoopsKeptCallGlobal
<1>3. CASE CallBuiltin
  <2> DEFINE items == <<>>
  <2>1. At("Call") /\ stack' = Below /\ insideLoop' = insideLoop
    BY <1>3 DEF CallBuiltin, Calling, Below, flags
  <2>2. StackOK /\ stack # <<>> /\ Current.do \notin LoopOwers
    BY <2>1, Running DEF LoopOwers
  <2>3. IsSeq(items) /\ Len(items) = 0
    BY DEF IsSeq
  <2>4. stack' = items \o Below
    BY <2>1, <2>2, StackParts DEF IsSeq
  <2> HIDE DEF items
  <2>5. ~LoopsIn(items)
    BY <2>3 DEF LoopsIn
  <2> QED
    BY <2>1, <2>2, <2>3, <2>4, <2>5, LoopsKeptStep
<1>4. CASE CallBindFront
  <2> DEFINE x == [do |-> "Call", func |-> Current.func.val.target,
                   args |-> Current.func.val.bound \o Current.args]
  <2>1. At("Call") /\ stack' = <<x>> \o Below /\ insideLoop' = insideLoop
    BY <1>4 DEF CallBindFront, Calling, Goto, Below, flags
  <2>2. StackOK /\ stack # <<>> /\ Current.do \notin LoopOwers /\ x.do \notin LoopOwers
    BY <2>1, Running DEF LoopOwers
  <2> HIDE DEF x
  <2> QED
    BY <2>1, <2>2, LoopsKeptOne
<1>5. CASE CallComposed
  <2> DEFINE x == [do |-> "Call", func |-> Current.func.val.first, args |-> Current.args]
             y == [do |-> "HalfEnd"]
             z == [do |-> "SecondHalf", second |-> Current.func.val.second]
  <2>1. At("Call") /\ stack' = <<x, y, z>> \o Below /\ insideLoop' = insideLoop
    BY <1>5 DEF CallComposed, Calling, Goto, Below, flags
  <2>2. /\ StackOK /\ stack # <<>> /\ Current.do \notin LoopOwers
        /\ x.do \notin LoopOwers /\ y.do \notin LoopOwers /\ z.do \notin LoopOwers
    BY <2>1, Running DEF LoopOwers
  <2> HIDE DEF x, y, z
  <2> QED
    BY <2>1, <2>2, LoopsKeptThree
<1>6. CASE CallSecondHalf
  <2> DEFINE x == [do |-> "Call", func |-> Current.second, args |-> <<tmpResult>>]
             y == [do |-> "HalfEnd"]
  <2>1. /\ StackOK /\ stack # <<>> /\ Current.do \notin LoopOwers
        /\ x.do \notin LoopOwers /\ y.do \notin LoopOwers
    BY <1>6, Running DEF CallSecondHalf, LoopOwers
  <2>2. \/ \E exception : Throw(exception)
        \/ stack' = <<x, y>> \o Below /\ insideLoop' = insideLoop
    BY <1>6 DEF CallSecondHalf, Goto, Below, flags
  <2> HIDE DEF x, y
  <2> QED
    BY <2>1, <2>2, LoopsKeptTwo, LoopsKeptThrown
<1> QED
  BY <1>1, <1>2, <1>3, <1>4, <1>5, <1>6 DEF CallFunction

(* The statements of a block, one after the other.                             *)
LEMMA LoopsKeptBlock ==
  ASSUME IInv, NEW what, what \notin LoopOwers, At(what),
         NEW rest \in Seq(NestedStatements), Goto(NextStatement(rest)), insideLoop' = insideLoop
  PROVE  LoopsKept
<1> DEFINE pop == [do |-> "PopScope"]
           x == Head(rest)
           y == [do |-> "StatementEnd", rest |-> Tail(rest)]
<1>1. StackOK /\ stack # <<>> /\ Current.do \notin LoopOwers
  BY Running
<1>2. pop.do \notin LoopOwers /\ y.do \notin LoopOwers
  BY DEF LoopOwers
<1>3. CASE rest = <<>>
  <2>1. stack' = <<pop>> \o Below
    BY <1>3 DEF NextStatement, Goto, Below
  <2> HIDE DEF pop
  <2> QED
    BY <1>1, <1>2, <2>1, LoopsKeptOne
<1>4. CASE rest # <<>>
  <2>1. stack' = <<x, y>> \o Below /\ x.do \notin LoopOwers
    BY <1>4, NodesOweNoLoop DEF NextStatement, Goto, Below, NestedStatements
  <2> HIDE DEF x, y
  <2> QED
    BY <1>1, <1>2, <2>1, LoopsKeptTwo
<1> QED
  BY <1>3, <1>4

LEMMA LoopsKeptBranches == ASSUME IInv, TestIf \/ NextElseIf \/ TestElseIf PROVE LoopsKept
<1> DEFINE end == [do |-> "IfEnd"]
           others == [do |-> "ElseIfs", rest |-> Current.if.elseIfs, optElse |-> Current.if.optElse]
           next == [Current EXCEPT !.rest = Tail(@)]
<1>1. PICK what \in {"IfTest", "ElseIfs", "ElseIfTest"} : At(what)
  BY DEF TestIf, NextElseIf, TestElseIf
<1>2. StackOK /\ stack # <<>> /\ Current.do = what /\ Current.do \notin LoopOwers /\ IsItem(Current, store)
  BY <1>1, Running DEF LoopOwers
<1>3. end.do \notin LoopOwers /\ others.do \notin LoopOwers
  BY DEF LoopOwers
<1>4. CASE TestIf
  <2> DEFINE x == Current.if.body
  <2>1. x.do \notin LoopOwers
    <3>1. Current.if \in Statements /\ Current.if.do = "IfStatement"
      BY <1>2, <1>4 DEF TestIf, At, IsItem
    <3> QED
      BY <3>1, StatementComes, BlockComes, NodesOweNoLoop DEF IsStatement
  <2>2. \/ \E exception : Throw(exception)
        \/ /\ insideLoop' = insideLoop
           /\ stack' = <<x, end>> \o Below \/ stack' = <<others>> \o Below
    BY <1>4 DEF TestIf, SetCondition, Goto, Below
  <2> HIDE DEF x, end, others
  <2> QED
    BY <1>2, <1>3, <2>1, <2>2, LoopsKeptOne, LoopsKeptTwo, LoopsKeptThrown
<1>5. CASE TestElseIf
  <2> DEFINE x == Current.body
  <2>1. x.do \notin LoopOwers
    BY <1>2, <1>5, BlockComes, NodesOweNoLoop DEF TestElseIf, At, IsItem
  <2>2. \/ \E exception : Throw(exception)
        \/ /\ insideLoop' = insideLoop
           /\ stack' = <<x>> \o Below \/ Return
    BY <1>5 DEF TestElseIf, SetCondition, Goto, Below, Return
  <2> HIDE DEF x
  <2> QED
    BY <1>2, <2>1, <2>2, LoopsKeptOne, LoopsKeptLeft, LoopsKeptThrown
<1>6. CASE NextElseIf
  <2>1. /\ Current = [do |-> "ElseIfs", rest |-> Current.rest, optElse |-> Current.optElse]
        /\ Current.rest \in Seq(ElseIfs) /\ Current.optElse \in AtMostOne(Blocks)
        /\ insideLoop' = insideLoop
    BY <1>2, <1>6 DEF NextElseIf, At, IsItem, flags
  <2>2. ASSUME stack' = <<end>> \o Below
        PROVE  LoopsKept
    <3> HIDE DEF end
    <3> QED
      BY <1>2, <1>3, <2>1, <2>2, LoopsKeptOne
  <2>3. CASE conditionMet
    BY <1>6, <2>2, <2>3 DEF NextElseIf, Goto, Below
  <2>4. CASE ~conditionMet /\ Current.rest = <<>>
    <3>1. stack' = (Current.optElse \o <<end>>) \o Below
      BY <1>6, <2>4 DEF NextElseIf, Goto, Below
    <3>2. CASE Current.optElse = <<>>
      BY <2>2, <3>1, <3>2
    <3>3. ASSUME NEW x \in Blocks, Current.optElse = <<x>>
          PROVE  LoopsKept
      <4> HIDE DEF end
      <4>1. stack' = <<x, end>> \o Below /\ x.do \notin LoopOwers
        BY <3>1, <3>3, BlockComes, NodesOweNoLoop
      <4> QED
        BY <1>2, <1>3, <2>1, <4>1, LoopsKeptTwo
    <3> QED
      BY <2>1, <3>2, <3>3 DEF AtMostOne
  <2>5. CASE ~conditionMet /\ Current.rest # <<>>
    <3> DEFINE x == Head(Current.rest)
    <3>1. stack' = <<x, next>> \o Below
      BY <1>6, <2>5 DEF NextElseIf, Goto, Below
    <3>2. x.do \notin LoopOwers
      BY <2>1, <2>5, NodesOweNoLoop DEF ElseIfs
    <3>3. next.do = "ElseIfs"
      BY <2>1
    <3>4. next.do \notin LoopOwers
      BY <3>3 DEF LoopOwers
    <3> HIDE DEF x, next
    <3> QED
      BY <1>2, <2>1, <3>1, <3>2, <3>4, LoopsKeptTwo
  <2> QED
    BY <2>3, <2>4, <2>5
<1> QED
  BY <1>4, <1>5, <1>6

LEMMA LoopsKeptLoops ==
  ASSUME IInv, StartIteration \/ EndIteration
  PROVE  LoopsKept
<1> DEFINE end == [do |-> "LoopEnd"]
<1>1. PICK what \in {"LoopTest", "LoopNext"} : At(what)
  BY DEF StartIteration, EndIteration
<1>2. StackOK /\ stack # <<>> /\ Current.do = what /\ IsItem(Current, store)
  BY <1>1, Running
<1>3. \A loop \in Statements : loop.do = "ForLoop" =>
        loop.decl.do \notin LoopOwers /\ loop.cond.do \notin LoopOwers
        /\ loop.body.do \notin LoopOwers /\ loop.update.do \notin LoopOwers
  BY StatementComes, BlockComes, NodesOweNoLoop DEF IsStatement, Declarations, Assignments
<1>4. end.do \in LoopOwers
  BY DEF LoopOwers
<1>6. CASE StartIteration
  <2> DEFINE x == Current.loop.body
             y == [do |-> "LoopNext", loop |-> Current.loop]
  <2>1. Current.do \in LoopOwers /\ x.do \notin LoopOwers /\ y.do \in LoopOwers
    <3>1. Current.do = "LoopTest"
      BY <1>2, <1>6 DEF StartIteration, At
    <3>2. Current.loop \in Statements /\ Current.loop.do = "ForLoop"
      BY <1>2, <3>1 DEF IsItem
    <3> QED
      BY <1>3, <3>1, <3>2 DEF LoopOwers
  <2>2. \/ \E exception : Throw(exception)
        \/ /\ insideLoop' = insideLoop
           /\ stack' = <<x, y>> \o Below \/ stack' = <<end>> \o Below
    BY <1>6 DEF StartIteration, SetCondition, Goto, Below
  <2> HIDE DEF x, y, end
  <2> QED
    BY <1>2, <1>4, <2>1, <2>2, LoopsKeptOne, LoopsKeptTwo, LoopsKeptThrown
<1>7. CASE EndIteration
  <2> DEFINE x == Current.loop.update
             y == Current.loop.cond
             z == [do |-> "LoopTest", loop |-> Current.loop]
  <2>1. /\ Current.do \in LoopOwers /\ insideLoop' = insideLoop
        /\ x.do \notin LoopOwers /\ y.do \notin LoopOwers /\ z.do \in LoopOwers
    <3>1. Current.do = "LoopNext" /\ insideLoop' = insideLoop
      BY <1>2, <1>7 DEF EndIteration, At, flags
    <3>2. Current.loop \in Statements /\ Current.loop.do = "ForLoop"
      BY <1>2, <3>1 DEF IsItem
    <3> QED
      BY <1>3, <3>1, <3>2 DEF LoopOwers
  <2>2. stack' = <<end>> \o Below \/ stack' = <<x, y, z>> \o Below
    <3>1. <<x>> \o TestLoop(Current.loop) = <<x, y, z>>
      BY SeqTriplet DEF TestLoop
    <3>2. stack' = <<end>> \o Below \/ stack' = (<<x>> \o TestLoop(Current.loop)) \o Below
      BY <1>7 DEF EndIteration, Goto, Below
    <3> QED
      BY <3>1, <3>2
  <2> HIDE DEF x, y, z, end
  <2> QED
    BY <1>2, <1>4, <2>1, <2>2, LoopsKeptOne, LoopsKeptThree
<1> QED
  BY <1>6, <1>7

(* What opens a loop, and what closes one.                                     *)
LEMMA LoopOpened ==
  ASSUME IInv, VisitForLoop
  PROVE  insideLoop' = TRUE /\ LoopsIn(stack)'
<1> DEFINE x == Current.decl
           y == Current.cond
           z == [do |-> "LoopTest", loop |-> Current]
           items == <<x, y, z>>
<1>1. StackOK /\ stack # <<>>
  BY Running DEF VisitForLoop
<1>2. stack' = items \o Below /\ insideLoop' = TRUE
  <2>1. <<x>> \o TestLoop(Current) = <<x, y, z>>
    BY SeqTriplet DEF TestLoop
  <2>2. stack' = (<<x>> \o TestLoop(Current)) \o Below /\ insideLoop' = TRUE
    BY DEF VisitForLoop, Goto, Below
  <2> QED
    BY <2>1, <2>2
<1>3. z.do \in LoopOwers
  BY DEF LoopOwers
<1>4. IsSeq(items) /\ Len(items) = 3 /\ items[3] = z
  BY SeqTriple
<1> HIDE DEF items, x, y, z
<1>5. LoopsIn(items)
  <2>1. 3 \in 1..Len(items)
    BY <1>4
  <2> QED
    BY <1>3, <1>4, <2>1 DEF LoopsIn
<1> QED
  BY <1>1, <1>2, <1>4, <1>5, LoopsAfter

LEMMA LoopClosed ==
  ASSUME IInv, ExitLoop
  PROVE  /\ insideLoop' = FALSE /\ onBreak' = FALSE /\ onContinue' = FALSE
         /\ LoopsIn(stack)' <=> LoopsIn(Tail(stack))
<1> DEFINE items == <<>>
<1>1. StackOK /\ stack # <<>>
  BY Running DEF ExitLoop
<1>2. IsSeq(items) /\ Len(items) = 0 /\ stack' = items \o Below
  BY DEF IsSeq, ExitLoop, Return, Goto, Below
<1> HIDE DEF items
<1>3. ~LoopsIn(items)
  BY <1>2 DEF LoopsIn
<1> QED
  BY <1>1, <1>2, <1>3, LoopsAfter DEF ExitLoop, Below

LEMMA LoopsKeptStatement == ASSUME IInv, VisitStatement, ~VisitForLoop, ~ExitLoop PROVE LoopsKept
<1>1. CASE VisitCodeBlock
  <2>1. /\ At("CodeBlock") /\ "CodeBlock" \in StatementKinds /\ "CodeBlock" \notin LoopOwers
        /\ Goto(NextStatement(Current.statements)) /\ insideLoop' = insideLoop
    BY <1>1 DEF VisitCodeBlock, StatementKinds, LoopOwers, flags
  <2>2. Current.statements \in Seq(NestedStatements)
    BY <2>1, AtStatement DEF IsStatement
  <2> QED
    BY <2>1, <2>2, LoopsKeptBlock
<1>2. CASE EndStatement
  <2> DEFINE rest == IF ShouldExitCodeBlock THEN <<>> ELSE Current.rest
  <2>1. /\ At("StatementEnd") /\ "StatementEnd" \notin LoopOwers
        /\ Goto(NextStatement(rest)) /\ insideLoop' = insideLoop
    BY <1>2 DEF EndStatement, LoopOwers, flags
  <2>2. rest \in Seq(NestedStatements)
    BY <2>1, Running DEF IsItem
  <2> HIDE DEF rest
  <2> QED
    BY <2>1, <2>2, LoopsKeptBlock
<1>3. CASE VisitReturnStatement
  <2> DEFINE y == [do |-> "ReturnResult"]
  <2>1. /\ At("ReturnStatement") /\ "ReturnStatement" \in StatementKinds
        /\ stack' = (Current.optExpr \o <<y>>) \o Below /\ insideLoop' = insideLoop
    BY <1>3 DEF VisitReturnStatement, StatementKinds, Goto, Below, flags
  <2>2. StackOK /\ stack # <<>> /\ Current.do \notin LoopOwers /\ y.do \notin LoopOwers
    BY <2>1, Running DEF LoopOwers
  <2>3. Current.optExpr \in AtMostOne(Expressions)
    BY <2>1, AtStatement DEF IsStatement
  <2> HIDE DEF y
  <2>4. CASE Current.optExpr = <<>>
    <3>1. stack' = <<y>> \o Below
      BY <2>1, <2>4
    <3> QED
      BY <2>1, <2>2, <3>1, LoopsKeptOne
  <2>5. ASSUME NEW x \in Expressions, Current.optExpr = <<x>>
        PROVE  LoopsKept
    <3>1. stack' = <<x, y>> \o Below /\ x.do \notin LoopOwers
      BY <2>1, <2>5, NodesOweNoLoop
    <3> QED
      BY <2>1, <2>2, <3>1, LoopsKeptTwo
  <2> QED
    BY <2>3, <2>4, <2>5 DEF AtMostOne
<1>4. CASE \/ LeaveCodeBlock \/ DeclareVariable \/ AssignVariable \/ DiscardResult \/ ReturnResult
           \/ VisitContinue \/ VisitBreak \/ EndIf
  BY <1>4, LoopsKeptReturned
<1>5. CASE TestIf \/ NextElseIf \/ TestElseIf
  BY <1>5, LoopsKeptBranches
<1> QED
  BY <1>1, <1>2, <1>3, <1>4, <1>5, LoopsKeptLoops, LoopsKeptChild DEF VisitStatement, VisitChild

LEMMA LoopsKeptMain == ASSUME IInv, ExecuteMain PROVE LoopsKept
<1> DEFINE x == [do |-> "Call", func |-> functions["main"], args |-> <<>>]
           y == [do |-> "CallEnd"]
<1>1. StackOK /\ stack # <<>> /\ Current.do \notin LoopOwers
  BY Running DEF ExecuteMain, LoopOwers
<1>2. \/ \E exception : Throw(exception)
      \/ stack' = <<x, y>> \o Below /\ insideLoop' = insideLoop
  BY DEF ExecuteMain, Goto, Below, flags
<1>3. x.do \notin LoopOwers /\ y.do \notin LoopOwers
  BY DEF LoopOwers
<1> HIDE DEF x, y
<1> QED
  BY <1>1, <1>2, <1>3, LoopsKeptTwo, LoopsKeptThrown

LEMMA InsideInitially == ASSUME Init PROVE InsideInv
<1>1. insideLoop = FALSE
  BY DEF Init, Constructed
<1>2. \A i \in 1..Len(stack) : stack[i].do \in Registering
  BY OnlyRegistering
<1> QED
  BY <1>1, <1>2 DEF InsideInv, LoopsIn, LoopOwers, Registering

LEMMA LoopsOpenedOrClosed == IInv /\ [Next]_vars => LoopsKept \/ VisitForLoop \/ ExitLoop
<1> SUFFICES ASSUME IInv, [Next]_vars, ~VisitForLoop, ~ExitLoop
             PROVE  LoopsKept
  OBVIOUS
<1>1. CASE Finish \/ Stopped \/ UNCHANGED vars
  <2>1. stack' = stack /\ insideLoop' = insideLoop
    BY <1>1 DEF Finish, Stopped, vars, flags
  <2> QED
    BY <2>1 DEF LoopsKept, LoopsIn
<1>2. CASE VisitFunctionDefinition
  BY <1>2, LoopsKeptReturned
<1> QED
  BY <1>1, <1>2, LoopsKeptMain, LoopsKeptExpression, LoopsKeptCall, LoopsKeptStatement DEF Next, Run

LEMMA InsideAlways == IInv /\ InsideInv /\ ~LoopEndsInside /\ [Next]_vars => InsideInv'
<1> SUFFICES ASSUME IInv, InsideInv, ~LoopEndsInside, [Next]_vars
             PROVE  InsideInv'
  OBVIOUS
<1>1. ASSUME LoopsKept
      PROVE  InsideInv'
  BY <1>1 DEF LoopsKept, InsideInv
<1>2. CASE VisitForLoop
  BY <1>2, LoopOpened DEF InsideInv
<1>3. CASE ExitLoop
  <2>1. ~LoopsIn(Tail(stack))
    BY <1>3 DEF ExitLoop, LoopEndsInside
  <2> QED
    BY <1>3, <2>1, LoopClosed DEF InsideInv
<1> QED
  BY <1>1, <1>2, <1>3, LoopsOpenedOrClosed

(* As long as no loop ends within another one, of its own function or of a     *)
(* caller, the flag says whether a loop is open (interpreter.hpp 200,         *)
(* interpreter.cpp 400-412).                                                  *)
THEOREM InsideLoopIsRight == Spec => InsideLoopUnlessNested
<1>1. InsideInv => InsideLoopIsAccurate
  BY DEF InsideInv, InsideLoopIsAccurate
<1> QED
  BY <1>1, InsideInitially, InsideAlways, Invariance, PTL DEF Spec, InsideLoopUnlessNested

(* What may set a flag that a break or a continue leaves.                      *)
LEMMA JumpsBegin ==
  ASSUME [Next]_vars
  PROVE  \/ VisitForLoop \/ ExitLoop \/ VisitBreak \/ VisitContinue
         \/ (onBreak' => onBreak) /\ (onContinue' => onContinue)
<1>1. CASE VisitExpression
  BY <1>1 DEF VisitExpression, VisitLiteral, VisitIdentifier, VisitFunctionCall, GetArguments, CollectArgument, Invoke,
       EndCall, VisitTypeCast, ApplyCast, VisitBinary, VisitRightOperand, ApplyBinary, VisitUnary, ApplyUnary,
       VisitBindFront, VisitBindTarget, ApplyBindFront, Visit, Deliver, Throw, flags
<1>2. CASE CallFunction
  BY <1>2 DEF CallFunction, CallGlobal, BindParameter, CallBuiltin, CallBindFront, CallComposed, EndHalf,
       CallSecondHalf, Throw, flags
<1>3. CASE VisitStatement
  BY <1>3 DEF VisitStatement, VisitCodeBlock, EndStatement, LeaveCodeBlock, VisitVariableDeclaration, DeclareVariable,
       VisitAssignStatement, AssignVariable, VisitExpressionStatement, DiscardResult, VisitReturnStatement,
       ReturnResult, StartIteration, EndIteration, VisitIfStatement, TestIf, NextElseIf, VisitElseIf, TestElseIf,
       EndIf, Visit, SetCondition, Throw, flags
<1>4. CASE VisitFunctionDefinition \/ ExecuteMain \/ Finish \/ Stopped \/ UNCHANGED vars
  BY <1>4 DEF VisitFunctionDefinition, ExecuteMain, Finish, Stopped, Throw, vars, flags
<1> QED
  BY <1>1, <1>2, <1>3, <1>4 DEF Next, Run

LEMMA JumpsKept == IInv /\ JumpsHaveALoop /\ [Next]_vars => JumpsHaveALoop'
<1> SUFFICES ASSUME IInv, JumpsHaveALoop, [Next]_vars
             PROVE  JumpsHaveALoop'
  OBVIOUS
<1>1. CASE VisitForLoop
  BY <1>1, LoopOpened DEF JumpsHaveALoop
<1>2. CASE ExitLoop
  BY <1>2, LoopClosed DEF JumpsHaveALoop
<1>3. CASE VisitBreak \/ VisitContinue
  <2>1. LoopsKept
    BY <1>3, LoopsKeptReturned
  <2>2. insideLoop \/ (onBreak' = onBreak /\ onContinue' = onContinue)
    BY <1>3 DEF VisitBreak, VisitContinue, Throw, flags
  <2> QED
    BY <2>1, <2>2 DEF LoopsKept, JumpsHaveALoop
<1>4. ASSUME LoopsKept, onBreak' => onBreak, onContinue' => onContinue
      PROVE  JumpsHaveALoop'
  BY <1>4 DEF LoopsKept, JumpsHaveALoop
<1> QED
  BY <1>1, <1>2, <1>3, <1>4, JumpsBegin, LoopsOpenedOrClosed

(* Of every program, whatever it does: no break and no continue is pending,    *)
(* and the flag that lets one through is down, unless a loop of a call in      *)
(* progress is open (interpreter.cpp 154-166, 405-409).                        *)
THEOREM JumpsStayInLoops == Spec => []JumpsHaveALoop
<1>1. Init => JumpsHaveALoop
  BY DEF Init, Constructed, JumpsHaveALoop
<1> QED
  BY <1>1, JumpsKept, Invariance, PTL DEF Spec
=============================================================================
