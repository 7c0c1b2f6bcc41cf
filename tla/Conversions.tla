---------------------------- MODULE Conversions ----------------------------
(***************************************************************************)
(* The explicit conversions of "as" (type_handler.cpp 76-179) and the      *)
(* built-in functions (builtin_functions.cpp).  Text is abstracted: which  *)
(* strings std::stoi and std::stod accept, and what the case functions     *)
(* make of a string, are tables of the instance.                           *)
(***************************************************************************)
EXTENDS OperHandler, TLC

CONSTANTS
  IntStrings,    (* string -> the integer it spells, where it is one in full *)
  FloatStrings,  (* string -> the fraction it spells, likewise             *)
  CaseTable,     (* function name -> (string -> string)                    *)
  Inputs         (* the lines a user may type                              *)

NotConvertible == Fails("CannotCast")

AsString(v) ==
  CASE v.type = IntType    -> Yields(Str(ToString(v.val)))
    [] v.type = FloatType  -> Yields(Str(ToString(v.val)))
    [] v.type = BoolType   -> Yields(Str(IF v.val THEN "true" ELSE "false"))
    [] v.type = StringType -> Yields(v)
    [] OTHER               -> NotConvertible

(* NaN and a double outside the range of int have no int: what (int)val     *)
(* gives is undefined, and no error is raised.                              *)
FloatAsInt(n, d) ==
  IF d # 0 /\ Truncated(n, d) \in Ints
  THEN Yields(Int32(Truncated(n, d)))
  ELSE {ValueArg(Int32(i)) : i \in Ints}

BoolAsInt(b) == IF b THEN 1 ELSE 0

AsInt(v) ==
  CASE v.type = IntType    -> Yields(v)
    [] v.type = FloatType  -> FloatAsInt(v.val[1], v.val[2])
    [] v.type = BoolType   -> Yields(Int32(BoolAsInt(v.val)))
    [] v.type = StringType -> IF v.val \in DOMAIN IntStrings /\ IntStrings[v.val] \in Ints
                              THEN Yields(Int32(IntStrings[v.val]))
                              ELSE NotConvertible
    [] OTHER               -> NotConvertible

AsFloat(v) ==
  CASE v.type = IntType    -> Yields(Float(v.val, 1))
    [] v.type = FloatType  -> Yields(v)
    [] v.type = BoolType   -> Yields(Float(BoolAsInt(v.val), 1))
    [] v.type = StringType -> IF v.val \in DOMAIN FloatStrings
                              THEN Yields(Float(FloatStrings[v.val][1], FloatStrings[v.val][2]))
                              ELSE NotConvertible
    [] OTHER               -> NotConvertible

AsBool(v) ==
  CASE v.type = IntType    -> Yields(Bool(v.val # 0))
    [] v.type = FloatType  -> Yields(Bool(v.val[1] # 0 \/ ~IsFinite(v.val)))
    [] v.type = BoolType   -> Yields(v)
    [] v.type = StringType -> Yields(Bool(v.val # ""))
    [] OTHER               -> NotConvertible

AsType(target, v) ==
  CASE target = IntType    -> AsInt(v)
    [] target = FloatType  -> AsFloat(v)
    [] target = BoolType   -> AsBool(v)
    [] target = StringType -> AsString(v)
    [] OTHER               -> NotConvertible

-----------------------------------------------------------------------------
(* Built-in functions.                                                     *)

Builtin(name, paramTypes, ret) ==
  [type |-> FunctionType([i \in DOMAIN paramTypes |-> VariableType(paramTypes[i], FALSE)], ret),
   val |-> [impl |-> "builtin", name |-> name]]

BuiltinTable ==
  [print       |-> Builtin("print", <<StringType>>, NoneType),
   round       |-> Builtin("round", <<FloatType, IntType>>, FloatType),
   input       |-> Builtin("input", <<>>, StringType),
   is_int      |-> Builtin("is_int", <<StringType>>, BoolType),
   is_float    |-> Builtin("is_float", <<StringType>>, BoolType),
   lower       |-> Builtin("lower", <<StringType>>, StringType),
   upper       |-> Builtin("upper", <<StringType>>, StringType),
   capitalized |-> Builtin("capitalized", <<StringType>>, StringType)]

(* Slip: halves are rounded up, negative ones towards zero.                 *)
HalfUp(n, d) == (2 * n + d) \div (2 * d)

(* std::round: to the nearest integer, halves away from zero.               *)
NearestInt(n, d) ==
  IF n < 0 THEN -((2 * Abs(n) + d) \div (2 * d)) ELSE (2 * n + d) \div (2 * d)

(* A negative precision rounds to tens, hundreds, ...                       *)
RoundFloat(n, d, precision) ==
  LET factor == 10 ^ Abs(precision)
  IN  CASE d = 0                   -> Float(n, d)
        [] d # 0 /\ precision < 0  -> Float(NearestInt(n, d * factor) * factor, 1)
        [] d # 0 /\ precision >= 0 -> Float(NearestInt(n * factor, d), factor)

IsValue(outcomes) == \E o \in outcomes : o.tag = "value"

(* What a built-in function may leave in _tmp_result, from the values of    *)
(* its arguments.  Only input depends on more than them.                    *)
BuiltinResults(name, args) ==
  CASE name = "print"    -> {Nothing}
    [] name = "round"    -> Yields(RoundFloat(args[1].val[1], args[1].val[2], args[2].val))
    [] name = "input"    -> {ValueArg(Str(line)) : line \in Inputs}
    [] name = "is_int"   -> Yields(Bool(IsValue(AsInt(args[1]))))
    [] name = "is_float" -> Yields(Bool(IsValue(AsFloat(args[1]))))
    [] OTHER             -> Yields(Str(CaseTable[name][args[1].val]))

Printed(name, args) == IF name = "print" THEN <<args[1].val>> ELSE <<>>
=============================================================================
