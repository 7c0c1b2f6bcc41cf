---------------------------- MODULE TypeHandler ----------------------------
(***************************************************************************)
(* Types, values and the checks the interpreter makes on them:             *)
(* include/type.hpp, include/variable.hpp and the part of                  *)
(* src/interpreter/type_handler.cpp that compares types.                   *)
(*                                                                         *)
(* A value carries its type, so that deduce_type is a field access.  A     *)
(* variable lives in a store (shared_ptr<Variable>); a VariableHolder is   *)
(* the index of its variable and the right to change it.  What the         *)
(* interpreter keeps in _tmp_result is nothing, a value or a holder.       *)
(***************************************************************************)
EXTENDS Naturals, Sequences

(* TypeKind, and the absence of a type: "none" as a return type.           *)
NoneType == [kind |-> "NONE"]
IntType == [kind |-> "INT"]
FloatType == [kind |-> "FLOAT"]
BoolType == [kind |-> "BOOL"]
StringType == [kind |-> "STRING"]
FunctionType(params, ret) == [kind |-> "FUNCTION", params |-> params, ret |-> ret]

(* A VariableType: a declared type and whether the variable may change.  Its *)
(* constructor refuses a function that may (std::invalid_argument); is_mutable*)
(* is set without it where a loop declares its variable.                    *)
VariableType(type, mutable) == [type |-> type, mutable |-> mutable]
VariableTypeThrows(type, mutable) == type.kind = "FUNCTION" /\ mutable

(* The three contents of an opt_vhold_or_val.                              *)
Nothing == [tag |-> "nothing"]
ValueArg(v) == [tag |-> "value", value |-> v]
HolderArg(h) == [tag |-> "holder", holder |-> h]

ExtractValue(arg, store) ==
  IF arg.tag = "holder" THEN store[arg.holder.var].value ELSE arg.value

ArgType(arg, store) ==
  IF arg.tag = "holder" THEN store[arg.holder.var].type ELSE arg.value.type

IsCallable(r, store) ==
  r.tag # "nothing" /\ ExtractValue(r, store).type.kind = "FUNCTION"

(* Slip: the right to change the argument is not asked for.                 *)
ArgMatchesParamByType(arg, param, store) == ArgType(arg, store) = param.type

(* A mutable variable may be passed where an immutable one is wanted, never *)
(* the other way; a temporary value is accepted by either.                  *)
ArgMatchesParam(arg, param, store) ==
  /\ arg.tag = "holder" /\ param.mutable => arg.holder.can
  /\ ArgType(arg, store) = param.type

ArgsMatchParams(args, params, store) ==
  /\ Len(args) = Len(params)
  /\ \A i \in DOMAIN args : ArgMatchesParam(args[i], params[i], store)

MatchesReturnType(r, ret, store) ==
  IF r = Nothing
  THEN ret = NoneType
  ELSE ret # NoneType /\ ExtractValue(r, store).type = ret

(* Both operands hold the same alternative of std::variant: any two         *)
(* functions do, whatever their signatures.                                 *)
AreTheSameType(left, right) == left.type.kind = right.type.kind

RetTypeMatchesParamType(ret, param) == ret # NoneType /\ ret = param.type

CanCompose(left, right) ==
  /\ Len(right.type.params) = 1
  /\ RetTypeMatchesParamType(left.type.ret, right.type.params[1])

(* Slip: the type of the result is taken from the first function.           *)
ComposedFuncTypeOfFirst(left, right) == left.type

ComposedFuncType(left, right) == FunctionType(left.type.params, right.type.ret)

BindFrontFuncType(target, args) ==
  FunctionType(SubSeq(target.type.params, Len(args) + 1, Len(target.type.params)),
               target.type.ret)
=============================================================================
