----------------------------- MODULE Operators -----------------------------
(***************************************************************************)
(* The operators and conversions against their mathematical meaning, on    *)
(* two operands that are not functions.                                    *)
(***************************************************************************)
EXTENDS Conversions, FiniteSets

CONSTANT Operands

(* A double is a fraction, an infinity or NaN; programs compare the strings  *)
(* of StringOrder, each in its place.                                        *)
IsDouble(x) ==
  /\ x = <<x[1], x[2]>>
  /\ x[1] \in Int /\ x[2] \in Nat
  /\ ~IsFinite(x) => x[1] \in {-1, 0, 1}

ASSUME OperandsAreScalars ==
  \A v \in Operands :
    /\ v = [type |-> v.type, val |-> v.val] /\ IsScalar(v)
    /\ v.type = FloatType => IsDouble(v.val)
    /\ v.type = StringType => \E i \in DOMAIN StringOrder : StringOrder[i] = v.val

ASSUME StringsAreOrdered ==
  /\ DOMAIN StringOrder = 1..Len(StringOrder)
  /\ \A i, j \in DOMAIN StringOrder : StringOrder[i] = StringOrder[j] => i = j

(* std::to_string writes an int as std::stoi reads it.                       *)
ASSUME IntsAreSpelled ==
  \A n \in Ints : ToString(n) \in DOMAIN IntStrings /\ IntStrings[ToString(n)] = n

VARIABLES l, r
vars == <<l, r>>

Init == l \in Operands /\ r \in Operands
Next == r' \in Operands /\ UNCHANGED l
Spec == Init /\ [][Next]_vars

AreInts == l.type = IntType /\ r.type = IntType
True == Yields(Bool(TRUE))

(* Of two values of one type exactly one comparison of <, ==, > holds, and    *)
(* the other three operators are their complements.  NaN, which a string may  *)
(* spell, makes the only exception: none of the three holds of it, and, since *)
(* >= and <= are made by negation, both of these do (oper_handler.cpp 96-147).*)
Holding(kinds) == {k \in kinds : Compare(k, l, r) = True}
OrderIsTotal ==
  l.type = r.type =>
    /\ Cardinality(Holding({"LESS", "EQUAL", "GREATER"})) = IF Float(0, 0) \in {l, r} THEN 0 ELSE 1
    /\ \A pair \in {<<"LESS", "GREATER_EQUAL">>, <<"EQUAL", "NOT_EQUAL">>, <<"GREATER", "LESS_EQUAL">>} :
         Cardinality(Holding({pair[1], pair[2]})) = 1

(* The quotient and the remainder that belongs to it: the remainder is        *)
(* smaller than the divisor and has the sign of the dividend                  *)
(* (oper_handler.cpp 73-94).                                                  *)
DivisionTruncates ==
  AreInts /\ r.val # 0 /\ ~(l.val = MinInt /\ r.val = -1) =>
    LET rest == l.val - Truncated(l.val, r.val) * r.val
    IN  /\ Divide(l, r) = Yields(Int32(Truncated(l.val, r.val)))
        /\ Abs(rest) < Abs(r.val)
        /\ rest # 0 => (rest < 0 <=> l.val < 0)

(* An int operation yields the exact result or reports an overflow, and       *)
(* reports none for a result that is an int, but for the smallest one         *)
(* (oper_handler.cpp 14-71).                                                  *)
ArithmeticIsExact ==
  AreInts =>
    \A pair \in {<<Add(l, r), l.val + r.val>>, <<Subtract(l, r), l.val - r.val>>,
                 <<Multiply(l, r), l.val * r.val>>} :
      pair[1] = IF pair[2] \in Ints \ {MinInt} THEN Yields(Int32(pair[2])) ELSE Fails("IntOverflow")

(* A value goes through "as" unchanged as long as the other type has it: an   *)
(* int comes back from float and from string, a bool from int, and a float    *)
(* becomes the int it is cut to, towards zero, whenever there is one          *)
(* (type_handler.cpp 91-179).                                                 *)
ThereAndBack(v, target) ==
  LET there == CHOOSE o \in AsType(target, v) : TRUE
  IN  AsType(v.type, there.value) = Yields(v)

IsCutTo(x, i) ==
  LET rest == x[1] - i * x[2]
  IN  Abs(rest) < x[2] /\ (rest # 0 => (rest < 0 <=> x[1] < 0))

CastsKeepTheValue ==
  /\ l.type = IntType => ThereAndBack(l, FloatType) /\ ThereAndBack(l, StringType)
  /\ l.type = BoolType => ThereAndBack(l, IntType)
  /\ l.type = FloatType => \A i \in Ints : IsCutTo(l.val, i) => AsType(IntType, l) = Yields(Int32(i))

(* Rounding moves a float by at most half a unit of the precision, to a       *)
(* multiple of the unit, away from zero when two are as near                  *)
(* (builtin_functions.cpp 41-47).                                             *)
RoundIsNearest ==
  l.type = FloatType /\ IsFinite(l.val) =>
    \A p \in {-1, 0, 1} :
      LET n == l.val[1]
          d == l.val[2]
          m == RoundFloat(n, d, p).val[1]
          q == RoundFloat(n, d, p).val[2]
          unit == IF p = -1 THEN <<10, 1>> ELSE <<1, 10 ^ p>>
          (* twice the distance, and the unit, over the common denominator   *)
          distance == 2 * Abs(m * d - n * q) * unit[2]
          limit == unit[1] * d * q
      IN  /\ (m * unit[2]) % (q * unit[1]) = 0
          /\ distance <= limit
          /\ distance = limit => Abs(m) * d > Abs(n) * q
=============================================================================
