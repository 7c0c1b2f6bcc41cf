---------------------------- MODULE OperHandler ----------------------------
(***************************************************************************)
(* The operators of the language: src/interpreter/oper_handler.cpp.        *)
(*                                                                         *)
(* An operator yields the set of its possible outcomes: one value, one     *)
(* error, or, where the C++ has undefined behaviour, whatever the build    *)
(* may do.  Integers have the bounds of int.  A float is a fraction        *)
(* <<n, d>> with d > 0, exact: rounding is left out.  The infinities are    *)
(* <<1, 0>> and <<-1, 0>>, NaN is <<0, 0>>.                                 *)
(***************************************************************************)
EXTENDS Integers, TypeHandler

CONSTANTS
  MaxInt,       (* std::numeric_limits<int>::max()                         *)
  StringOrder   (* the strings programs compare, in lexicographic order    *)

ASSUME MaxIntIsPositive == MaxInt \in Nat \ {0}

MinInt == -MaxInt - 1
Ints == MinInt..MaxInt

Int32(n) == [type |-> IntType, val |-> n]
Float(n, d) == [type |-> FloatType, val |-> <<n, d>>]
Bool(b) == [type |-> BoolType, val |-> b]
Str(s) == [type |-> StringType, val |-> s]

(* What a value may be: an int has the width of int.                        *)
IsScalar(v) ==
  \/ v.type = IntType /\ v.val \in Ints
  \/ v.type = BoolType /\ v.val \in BOOLEAN
  \/ v.type \in {FloatType, StringType}
WellTyped(v) == IsScalar(v) \/ v.type.kind = "FUNCTION"

Error(e) == [tag |-> "error", error |-> e]
Yields(v) == {ValueArg(v)}
Fails(e) == {Error(e)}

Abs(n) == IF n < 0 THEN -n ELSE n

(* Slip: only the upper bound is compared.                                  *)
IntExceeds(n) == n > MaxInt

(* |result| is computed in double and compared with the largest int, so     *)
(* that the smallest int counts as an overflow too.                         *)
IntOverflows(n) == Abs(n) > MaxInt
CheckedInt(n) == IF IntOverflows(n) THEN Fails("IntOverflow") ELSE Yields(Int32(n))

(* Slip: division rounds down.                                              *)
Floored(n, d) == IF d < 0 THEN (-n) \div (-d) ELSE n \div d

(* Division of C++ ints: towards zero.                                      *)
Truncated(n, d) ==
  IF (n < 0) = (d < 0) THEN Abs(n) \div Abs(d) ELSE -(Abs(n) \div Abs(d))

(* Doubles: what a fraction of this sign and this magnitude is.             *)
NaN == <<0, 0>>
IsFinite(x) == x[2] # 0
Sign(n) == CASE n < 0 -> -1 [] n = 0 -> 0 [] n > 0 -> 1
Fraction(n, d) == Float(IF d = 0 THEN Sign(n) ELSE n, d)

FloatSum(x, y) ==
  CASE IsFinite(x) /\ IsFinite(y)   -> Fraction(x[1] * y[2] + y[1] * x[2], x[2] * y[2])
    [] IsFinite(x) /\ ~IsFinite(y)  -> Float(y[1], 0)
    [] ~IsFinite(x) /\ IsFinite(y)  -> Float(x[1], 0)
    [] ~IsFinite(x) /\ ~IsFinite(y) -> Float(IF x = y THEN x[1] ELSE 0, 0)
FloatProduct(x, y) == Fraction(x[1] * y[1], x[2] * y[2])
FloatQuotient(x, y) == Fraction(x[1] * y[2] * Sign(y[1]), x[2] * Abs(y[1]))

CannotPerform == Fails("CantPerformOperation")

Add(l, r) ==
  CASE l.type = IntType    -> CheckedInt(l.val + r.val)
    [] l.type = FloatType  -> Yields(FloatSum(l.val, r.val))
    [] l.type = StringType -> Yields(Str(l.val \o r.val))
    [] OTHER               -> CannotPerform

Subtract(l, r) ==
  CASE l.type = IntType   -> CheckedInt(l.val - r.val)
    [] l.type = FloatType -> Yields(FloatSum(l.val, <<-r.val[1], r.val[2]>>))
    [] OTHER              -> CannotPerform

Multiply(l, r) ==
  CASE l.type = IntType   -> CheckedInt(l.val * r.val)
    [] l.type = FloatType -> Yields(FloatProduct(l.val, r.val))
    [] OTHER              -> CannotPerform

(* INT_MIN / -1 is undefined: the idiv instruction of the build traps.      *)
DivideInts(n, d) ==
  CASE d = 0                    -> Fails("DivByZero")
    [] n = MinInt /\ d = -1     -> Fails("SIGFPE")
    [] OTHER                    -> Yields(Int32(Truncated(n, d)))

Divide(l, r) ==
  CASE l.type = IntType   -> DivideInts(l.val, r.val)
    [] l.type = FloatType -> IF r.val[1] = 0 /\ IsFinite(r.val)
                             THEN Fails("DivByZero")
                             ELSE Yields(FloatQuotient(l.val, r.val))
    [] OTHER              -> CannotPerform

(* A double is equal to or less than NaN never, nor is NaN to or than one.   *)
EqualFloats(x, y) ==
  NaN \notin {x, y} /\ IF IsFinite(x) \/ IsFinite(y) THEN x[1] * y[2] = y[1] * x[2] ELSE x = y
LessFloats(x, y) ==
  NaN \notin {x, y} /\ IF IsFinite(x) \/ IsFinite(y) THEN x[1] * y[2] < y[1] * x[2] ELSE x[1] < y[1]

EqualValues(l, r) == IF l.type = FloatType THEN EqualFloats(l.val, r.val) ELSE l.val = r.val

StringRank(s) == CHOOSE i \in DOMAIN StringOrder : StringOrder[i] = s

LessThan(l, r) ==
  CASE l.type = IntType    -> l.val < r.val
    [] l.type = FloatType  -> LessFloats(l.val, r.val)
    [] l.type = StringType -> StringRank(l.val) < StringRank(r.val)
    [] l.type = BoolType   -> ~l.val /\ r.val

(* Slip: "greater" is taken for "not less".                                 *)
CompareGreaterAsNotLess(kind, l, r) ==
  IF l.type.kind = "FUNCTION"
  THEN CannotPerform
  ELSE Yields(Bool(CASE kind = "EQUAL"                     -> EqualValues(l, r)
                     [] kind = "NOT_EQUAL"                 -> ~EqualValues(l, r)
                     [] kind = "LESS"                      -> LessThan(l, r)
                     [] kind \in {"GREATER", "GREATER_EQUAL"} -> ~LessThan(l, r)
                     [] kind = "LESS_EQUAL"                -> ~LessThan(r, l)))

(* Every comparison goes through check_eq or check_lt, which refuse         *)
(* functions and know no other reason to fail.                              *)
Compare(kind, l, r) ==
  IF l.type.kind = "FUNCTION"
  THEN CannotPerform
  ELSE Yields(Bool(CASE kind = "EQUAL"         -> EqualValues(l, r)
                     [] kind = "NOT_EQUAL"     -> ~EqualValues(l, r)
                     [] kind = "LESS"          -> LessThan(l, r)
                     [] kind = "GREATER"       -> LessThan(r, l)
                     [] kind = "GREATER_EQUAL" -> ~LessThan(l, r)
                     [] kind = "LESS_EQUAL"    -> ~LessThan(r, l)))

LogicalAnd(l, r) == IF l.type = BoolType THEN Yields(Bool(l.val /\ r.val)) ELSE CannotPerform
LogicalOr(l, r) == IF l.type = BoolType THEN Yields(Bool(l.val \/ r.val)) ELSE CannotPerform
LogicalNot(v) == IF v.type = BoolType THEN Yields(Bool(~v.val)) ELSE CannotPerform

(* -INT_MIN is undefined: the neg instruction of the build leaves it as is. *)
UnaryMinus(v) ==
  CASE v.type = IntType   -> Yields(Int32(IF v.val = MinInt THEN MinInt ELSE -v.val))
    [] v.type = FloatType -> Yields(Float(-v.val[1], v.val[2]))
    [] OTHER              -> CannotPerform

ComposedFunction(l, r) ==
  [type |-> ComposedFuncType(l, r), val |-> [impl |-> "composed", first |-> l, second |-> r]]

(* Both operands are known to be the same alternative, so that a left       *)
(* operand that is a function has a function on its right.                  *)
ComposeFunctions(l, r) ==
  CASE l.type.kind # "FUNCTION" -> Fails("RequiredFunction")
    [] l.type.kind = "FUNCTION" /\ ~CanCompose(l, r) -> Fails("InvalidFuncTypeForComposition")
    [] OTHER -> Yields(ComposedFunction(l, r))

BoundFunction(target, bound) ==
  [type |-> BindFrontFuncType(target, bound), val |-> [impl |-> "bindFront", target |-> target, bound |-> bound]]

(* Arguments are checked as they were passed, then kept as values.          *)
BindFrontFunction(target, args, store) ==
  LET params == target.type.params
      bound  == SubSeq(params, 1, Len(args))
  IN  CASE Len(args) > Len(params) -> Fails("TooManyArgsToBind")
        [] Len(args) <= Len(params) /\ ~ArgsMatchParams(args, bound, store) -> Fails("ArgTypesNotMatching")
        [] OTHER -> Yields(BoundFunction(target, [i \in DOMAIN args |-> ValueArg(ExtractValue(args[i], store))]))

EvaluateBinary(kind, l, r) ==
  CASE ~AreTheSameType(l, r)          -> Fails("BinaryExprTypeMismatch")
    [] OTHER ->
       CASE kind = "ADDITION"             -> Add(l, r)
         [] kind = "SUBTRACTION"          -> Subtract(l, r)
         [] kind = "MULTIPLICATION"       -> Multiply(l, r)
         [] kind = "DIVISION"             -> Divide(l, r)
         [] kind = "LOGICAL_AND"          -> LogicalAnd(l, r)
         [] kind = "LOGICAL_OR"           -> LogicalOr(l, r)
         [] kind = "FUNCTION_COMPOSITION" -> ComposeFunctions(l, r)
         [] OTHER                         -> Compare(kind, l, r)

EvaluateUnary(kind, v) == IF kind = "LOGICAL_NOT" THEN LogicalNot(v) ELSE UnaryMinus(v)
=============================================================================
