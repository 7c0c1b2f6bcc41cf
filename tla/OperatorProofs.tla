--------------------------- MODULE OperatorProofs ---------------------------
(***************************************************************************)
(* The operators mean what they say for every width of int.                *)
(***************************************************************************)
EXTENDS Operators, FiniteSetTheorems, TLAPS

(* Ints: a sum, a difference or a product overflows where it is no int, or   *)
(* the smallest one.                                                         *)
LEMMA OverflowIsExact ==
  ASSUME NEW n \in Int
  PROVE  CheckedInt(n) = IF n \in Ints \ {MinInt} THEN Yields(Int32(n)) ELSE Fails("IntOverflow")
<1>1. MaxInt \in Nat
  BY MaxIntIsPositive
<1>2. IntOverflows(n) <=> n \notin Ints \ {MinInt}
  BY <1>1 DEF IntOverflows, Abs, Ints, MinInt
<1> QED
  BY <1>2 DEF CheckedInt

LEMMA KindsDiffer ==
  /\ IntType # FloatType /\ IntType # StringType /\ IntType # BoolType
  /\ FloatType # StringType /\ FloatType # BoolType /\ StringType # BoolType
BY DEF IntType, FloatType, StringType, BoolType

LEMMA IntOperands ==
  ASSUME NEW v \in Operands, v.type = IntType
  PROVE  v.val \in Ints /\ v.val \in Int
<1>1. IsScalar(v)
  BY OperandsAreScalars
<1>2. v.val \in Ints
  BY <1>1, KindsDiffer DEF IsScalar
<1> QED
  BY <1>2, MaxIntIsPositive DEF Ints, MinInt

LEMMA ExactInts ==
  ASSUME l \in Operands, r \in Operands
  PROVE  ArithmeticIsExact
<1> SUFFICES ASSUME AreInts PROVE ArithmeticIsExact
  BY DEF ArithmeticIsExact
<1>1. l.val \in Int /\ r.val \in Int
  BY IntOperands DEF AreInts
<1>2. /\ Add(l, r) = CheckedInt(l.val + r.val)
      /\ Subtract(l, r) = CheckedInt(l.val - r.val)
      /\ Multiply(l, r) = CheckedInt(l.val * r.val)
  BY KindsDiffer DEF Add, Subtract, Multiply, AreInts
<1>3. /\ l.val + r.val \in Int /\ l.val - r.val \in Int /\ l.val * r.val \in Int
  BY <1>1
<1> DEFINE Exact(outcome, n) ==
      outcome = IF n \in Ints \ {MinInt} THEN Yields(Int32(n)) ELSE Fails("IntOverflow")
<1>4. Exact(Add(l, r), l.val + r.val)
  BY <1>2, <1>3, OverflowIsExact
<1>5. Exact(Subtract(l, r), l.val - r.val)
  BY <1>2, <1>3, OverflowIsExact
<1>6. Exact(Multiply(l, r), l.val * r.val)
  BY <1>2, <1>3, OverflowIsExact
<1> QED
  BY <1>4, <1>5, <1>6 DEF ArithmeticIsExact

(* Division of naturals, then of ints by their magnitudes and signs.         *)
LEMMA Quotient ==
  ASSUME NEW a \in Nat, NEW b \in Nat \ {0}
  PROVE  /\ a \div b \in Nat
         /\ (a \div b) * b <= a
         /\ a - (a \div b) * b < b
<1>1. a = b * (a \div b) + (a % b) /\ a % b \in 0..(b - 1) /\ a \div b \in Int
  OBVIOUS
<1>2. a \div b \in Nat
  BY <1>1
<1> QED
  BY <1>1, <1>2
LEMMA TruncatedRest ==
  ASSUME NEW n \in Int, NEW d \in Int, d # 0
  PROVE  /\ Truncated(n, d) \in Int
         /\ n - Truncated(n, d) * d = IF n < 0 THEN -(Abs(n) - (Abs(n) \div Abs(d)) * Abs(d))
                                      ELSE Abs(n) - (Abs(n) \div Abs(d)) * Abs(d)
<1> DEFINE a == Abs(n)
           b == Abs(d)
           q == a \div b
<1>1. a \in Nat /\ b \in Nat \ {0}
  BY DEF Abs
<1>2. q \in Nat
  BY <1>1, Quotient
<1>3. Truncated(n, d) = IF (n < 0) = (d < 0) THEN q ELSE -q
  BY DEF Truncated
<1> HIDE DEF q
<1>4. CASE n < 0 /\ d < 0
  <2>1. a = -n /\ b = -d /\ Truncated(n, d) = q
    BY <1>3, <1>4 DEF Abs
  <2>2. n - q * d = -(-n - q * (-d))
    BY <1>2
  <2> QED
    BY <1>2, <1>4, <2>1, <2>2 DEF q
<1>5. CASE n < 0 /\ ~(d < 0)
  <2>1. a = -n /\ b = d /\ Truncated(n, d) = -q
    BY <1>3, <1>5 DEF Abs
  <2>2. n - (-q) * d = -(-n - q * d)
    BY <1>2
  <2> QED
    BY <1>2, <1>5, <2>1, <2>2 DEF q
<1>6. CASE ~(n < 0) /\ d < 0
  <2>1. a = n /\ b = -d /\ Truncated(n, d) = -q
    BY <1>3, <1>6 DEF Abs
  <2>2. n - (-q) * d = n - q * (-d)
    BY <1>2
  <2> QED
    BY <1>2, <1>6, <2>1, <2>2 DEF q
<1>7. CASE ~(n < 0) /\ ~(d < 0)
  <2>1. a = n /\ b = d /\ Truncated(n, d) = q
    BY <1>3, <1>7 DEF Abs
  <2> QED
    BY <1>2, <1>7, <2>1 DEF q
<1> QED
  BY <1>4, <1>5, <1>6, <1>7

LEMMA TruncatesInts ==
  ASSUME l \in Operands, r \in Operands
  PROVE  DivisionTruncates
<1> SUFFICES ASSUME AreInts, r.val # 0, ~(l.val = MinInt /\ r.val = -1) PROVE
      LET rest == l.val - Truncated(l.val, r.val) * r.val
      IN  /\ Divide(l, r) = Yields(Int32(Truncated(l.val, r.val)))
          /\ Abs(rest) < Abs(r.val)
          /\ rest # 0 => (rest < 0 <=> l.val < 0)
  BY DEF DivisionTruncates
<1>1. l.val \in Int /\ r.val \in Int
  BY IntOperands DEF AreInts
<1>2. Divide(l, r) = Yields(Int32(Truncated(l.val, r.val)))
  <2>1. Divide(l, r) = DivideInts(l.val, r.val)
    BY KindsDiffer DEF Divide, AreInts
  <2> QED
    BY <2>1 DEF DivideInts
<1> DEFINE rest == l.val - Truncated(l.val, r.val) * r.val
           left == Abs(l.val) - (Abs(l.val) \div Abs(r.val)) * Abs(r.val)
<1>3. Abs(l.val) \in Nat /\ Abs(r.val) \in Nat \ {0}
  BY <1>1 DEF Abs
<1>4. left \in Nat /\ left < Abs(r.val)
  BY <1>3, Quotient
<1>5. rest = IF l.val < 0 THEN -left ELSE left
  BY <1>1, TruncatedRest
<1> HIDE DEF rest, left
<1>6. Abs(rest) = left /\ (rest # 0 => (rest < 0 <=> l.val < 0))
  BY <1>1, <1>4, <1>5 DEF Abs
<1> QED
  BY <1>2, <1>4, <1>6 DEF rest

(* The comparisons of two values of one type.                                *)
Below == LessThan(l, r)
Above == LessThan(r, l)
Alike == EqualValues(l, r)

LEMMA FloatParts ==
  ASSUME NEW n, NEW d
  PROVE  Float(n, d).type = FloatType /\ Float(n, d).val = <<n, d>>
BY DEF Float

LEMMA NaNIsAFloat ==
  ASSUME l.type = r.type, l.type # FloatType
  PROVE  Float(0, 0) \notin {l, r}
BY FloatParts

(* The sides of a comparison of fractions, and of the infinities.            *)
LEMMA FractionsCompare ==
  ASSUME NEW x, NEW y, IsDouble(x), IsDouble(y)
  PROVE  /\ NaN \in {x, y} => LessFloats(x, y) = FALSE /\ LessFloats(y, x) = FALSE /\ EqualFloats(x, y) = FALSE
         /\ NaN \notin {x, y} =>
              \E a, b \in Int : /\ LessFloats(x, y) = (a < b) /\ LessFloats(y, x) = (b < a)
                                /\ EqualFloats(x, y) = (a = b)
<1>1. /\ x[1] \in Int /\ x[2] \in Nat /\ y[1] \in Int /\ y[2] \in Nat
      /\ x = <<x[1], x[2]>> /\ y = <<y[1], y[2]>>
  BY DEF IsDouble
<1>2. CASE NaN \in {x, y}
  BY <1>2 DEF LessFloats, EqualFloats
<1>3. CASE NaN \notin {x, y} /\ (IsFinite(x) \/ IsFinite(y))
  <2>1. x[1] * y[2] \in Int /\ y[1] * x[2] \in Int
    BY <1>1
  <2>2. /\ LessFloats(x, y) = (x[1] * y[2] < y[1] * x[2]) /\ LessFloats(y, x) = (y[1] * x[2] < x[1] * y[2])
        /\ EqualFloats(x, y) = (x[1] * y[2] = y[1] * x[2])
    BY <1>3 DEF LessFloats, EqualFloats
  <2> QED
    BY <1>3, <2>1, <2>2
<1>4. CASE NaN \notin {x, y} /\ ~(IsFinite(x) \/ IsFinite(y))
  <2>1. x[2] = 0 /\ y[2] = 0
    BY <1>4 DEF IsFinite
  <2>2. (x = y) = (x[1] = y[1])
    BY <1>1, <2>1
  <2>3. /\ LessFloats(x, y) = (x[1] < y[1]) /\ LessFloats(y, x) = (y[1] < x[1])
        /\ EqualFloats(x, y) = (x[1] = y[1])
    BY <1>4, <2>2 DEF LessFloats, EqualFloats
  <2> QED
    BY <1>1, <1>4, <2>3
<1> QED
  BY <1>2, <1>3, <1>4

(* Every comparison is one of two integers, but for that with NaN.           *)
LEMMA ComparedAsInts ==
  ASSUME l \in Operands, r \in Operands, l.type = r.type
  PROVE  /\ Float(0, 0) \in {l, r} => Below = FALSE /\ Above = FALSE /\ Alike = FALSE
         /\ Float(0, 0) \notin {l, r} => \E a, b \in Int : Below = (a < b) /\ Above = (b < a) /\ Alike = (a = b)
<1>1. IsScalar(l) /\ IsScalar(r)
  BY OperandsAreScalars
<1>2. CASE l.type = IntType
  <2>1. l.val \in Int /\ r.val \in Int
    BY <1>2, IntOperands
  <2>2. Below = (l.val < r.val) /\ Above = (r.val < l.val) /\ Alike = (l.val = r.val)
    BY <1>2, KindsDiffer DEF LessThan, EqualValues, Below, Above, Alike
  <2> QED
    BY <1>2, <2>1, <2>2, KindsDiffer, NaNIsAFloat
<1>3. CASE l.type = BoolType
  <2>1. l.val \in BOOLEAN /\ r.val \in BOOLEAN
    BY <1>1, <1>3, KindsDiffer DEF IsScalar
  <2>2. Below = (~l.val /\ r.val) /\ Above = (~r.val /\ l.val) /\ Alike = (l.val = r.val)
    BY <1>3, KindsDiffer, Zenon DEF LessThan, EqualValues, Below, Above, Alike
  <2> DEFINE a == IF l.val THEN 1 ELSE 0
             b == IF r.val THEN 1 ELSE 0
  <2>3. a \in Int /\ b \in Int
    OBVIOUS
  <2>4. Below = (a < b) /\ Above = (b < a) /\ Alike = (a = b)
    BY <2>1, <2>2
  <2> QED
    BY <1>3, <2>3, <2>4, KindsDiffer, NaNIsAFloat
<1>4. CASE l.type = StringType
  <2>1. /\ Below = (StringRank(l.val) < StringRank(r.val)) /\ Above = (StringRank(r.val) < StringRank(l.val))
        /\ Alike = (l.val = r.val)
    BY <1>4, KindsDiffer DEF LessThan, EqualValues, Below, Above, Alike
  <2>2. /\ StringRank(l.val) \in DOMAIN StringOrder /\ StringOrder[StringRank(l.val)] = l.val
        /\ StringRank(r.val) \in DOMAIN StringOrder /\ StringOrder[StringRank(r.val)] = r.val
    BY <1>4, OperandsAreScalars DEF StringRank
  <2>3. StringRank(l.val) \in Int /\ StringRank(r.val) \in Int
    BY <2>2, StringsAreOrdered
  <2>4. Alike = (StringRank(l.val) = StringRank(r.val))
    BY <2>1, <2>2
  <2> QED
    BY <1>4, <2>1, <2>3, <2>4, KindsDiffer, NaNIsAFloat
<1>5. CASE l.type = FloatType
  <2>1. IsDouble(l.val) /\ IsDouble(r.val)
    BY <1>5, OperandsAreScalars
  <2>2. Below = LessFloats(l.val, r.val) /\ Above = LessFloats(r.val, l.val) /\ Alike = EqualFloats(l.val, r.val)
    BY <1>5, KindsDiffer DEF LessThan, EqualValues, Below, Above, Alike
  <2>3. (NaN \in {l.val, r.val}) = (Float(0, 0) \in {l, r})
    <3>1. l = [type |-> FloatType, val |-> l.val] /\ r = [type |-> FloatType, val |-> r.val]
      BY <1>5, OperandsAreScalars
    <3> QED
      BY <3>1, FloatParts DEF NaN, Float
  <2>4. CASE Float(0, 0) \in {l, r}
    <3>1. NaN \in {l.val, r.val}
      BY <2>3, <2>4
    <3>2. /\ LessFloats(l.val, r.val) = FALSE /\ LessFloats(r.val, l.val) = FALSE
          /\ EqualFloats(l.val, r.val) = FALSE
      BY <2>1, <3>1, FractionsCompare
    <3> QED
      BY <2>2, <2>4, <3>2
  <2>5. CASE Float(0, 0) \notin {l, r}
    <3>1. NaN \notin {l.val, r.val}
      BY <2>3, <2>5
    <3>2. PICK a \in Int, b \in Int :
            /\ LessFloats(l.val, r.val) = (a < b) /\ LessFloats(r.val, l.val) = (b < a)
            /\ EqualFloats(l.val, r.val) = (a = b)
      BY <2>1, <3>1, FractionsCompare
    <3>3. Below = (a < b) /\ Above = (b < a) /\ Alike = (a = b)
      BY <2>2, <3>2
    <3> QED
      BY <2>5, <3>3
  <2> QED
    BY <2>4, <2>5
<1> QED
  BY <1>1, <1>2, <1>3, <1>4, <1>5 DEF IsScalar
LEMMA YieldsTrue ==
  ASSUME NEW c \in BOOLEAN
  PROVE  (Yields(Bool(c)) = True) = c
<1>1. ValueArg(Bool(c)).value.val = c /\ ValueArg(Bool(TRUE)).value.val = TRUE
  BY DEF ValueArg, Bool
<1> QED
  BY <1>1 DEF Yields, True

LEMMA KindsHolding ==
  ASSUME l \in Operands, r \in Operands, l.type = r.type,
         Below \in BOOLEAN, Above \in BOOLEAN, Alike \in BOOLEAN
  PROVE  /\ (Compare("LESS", l, r) = True) = Below
         /\ (Compare("EQUAL", l, r) = True) = Alike
         /\ (Compare("GREATER", l, r) = True) = Above
         /\ (Compare("GREATER_EQUAL", l, r) = True) = ~Below
         /\ (Compare("NOT_EQUAL", l, r) = True) = ~Alike
         /\ (Compare("LESS_EQUAL", l, r) = True) = ~Above
<1>1. l.type.kind # "FUNCTION"
  <2>1. l.type \in {IntType, BoolType, FloatType, StringType}
    BY OperandsAreScalars DEF IsScalar
  <2> QED
    BY <2>1 DEF IntType, BoolType, FloatType, StringType
<1>2. /\ Compare("LESS", l, r) = Yields(Bool(Below))
      /\ Compare("EQUAL", l, r) = Yields(Bool(Alike))
      /\ Compare("GREATER", l, r) = Yields(Bool(Above))
      /\ Compare("GREATER_EQUAL", l, r) = Yields(Bool(~Below))
      /\ Compare("NOT_EQUAL", l, r) = Yields(Bool(~Alike))
      /\ Compare("LESS_EQUAL", l, r) = Yields(Bool(~Above))
  BY <1>1 DEF Compare, Below, Above, Alike
<1> QED
  BY <1>2, YieldsTrue

LEMMA OrdersOperands ==
  ASSUME l \in Operands, r \in Operands
  PROVE  OrderIsTotal
<1> SUFFICES ASSUME l.type = r.type PROVE OrderIsTotal
  BY DEF OrderIsTotal
<1>1. /\ Float(0, 0) \in {l, r} => Below = FALSE /\ Above = FALSE /\ Alike = FALSE
      /\ Float(0, 0) \notin {l, r} => \E a, b \in Int : Below = (a < b) /\ Above = (b < a) /\ Alike = (a = b)
  BY ComparedAsInts
<1>2. Below \in BOOLEAN /\ Above \in BOOLEAN /\ Alike \in BOOLEAN
  <2>1. CASE Float(0, 0) \in {l, r}
    BY <1>1, <2>1
  <2>2. CASE Float(0, 0) \notin {l, r}
    <3>1. PICK a \in Int, b \in Int : Below = (a < b) /\ Above = (b < a) /\ Alike = (a = b)
      BY <1>1, <2>2
    <3> QED
      BY <3>1
  <2> QED
    BY <2>1, <2>2
<1> DEFINE one == Holding({"LESS", "EQUAL", "GREATER"})
<1>3. \A x : Cardinality({x}) = 1
  BY FS_Singleton
<1>4. Cardinality({}) = 0
  BY FS_EmptySet
<1>5. Cardinality(one) = IF Float(0, 0) \in {l, r} THEN 0 ELSE 1
  <2>1. CASE Float(0, 0) \in {l, r}
    <3>1. one = {}
      BY <1>1, <1>2, <2>1, KindsHolding DEF Holding
    <3> QED
      BY <1>4, <2>1, <3>1
  <2>2. CASE Float(0, 0) \notin {l, r}
    <3>1. one = {IF Below THEN "LESS" ELSE IF Alike THEN "EQUAL" ELSE "GREATER"}
      BY <1>1, <1>2, <2>2, KindsHolding DEF Holding
    <3> QED
      BY <1>3, <2>2, <3>1
  <2> QED
    BY <2>1, <2>2
<1>6. Cardinality(Holding({"LESS", "GREATER_EQUAL"})) = 1
  <2>1. Holding({"LESS", "GREATER_EQUAL"}) = {IF Below THEN "LESS" ELSE "GREATER_EQUAL"}
    BY <1>2, KindsHolding DEF Holding
  <2> QED
    BY <1>3, <2>1
<1>7. Cardinality(Holding({"EQUAL", "NOT_EQUAL"})) = 1
  <2>1. Holding({"EQUAL", "NOT_EQUAL"}) = {IF Alike THEN "EQUAL" ELSE "NOT_EQUAL"}
    BY <1>2, KindsHolding DEF Holding
  <2> QED
    BY <1>3, <2>1
<1>8. Cardinality(Holding({"GREATER", "LESS_EQUAL"})) = 1
  <2>1. Holding({"GREATER", "LESS_EQUAL"}) = {IF Above THEN "GREATER" ELSE "LESS_EQUAL"}
    BY <1>2, KindsHolding DEF Holding
  <2> QED
    BY <1>3, <2>1
<1> HIDE DEF one
<1> QED
  BY <1>5, <1>6, <1>7, <1>8 DEF OrderIsTotal, one

(* Casts.                                                                    *)
LEMMA IntTruncates ==
  ASSUME NEW n \in Int
  PROVE  Truncated(n, 1) = n
<1>1. \A a \in Nat : a \div 1 = a
  OBVIOUS
<1>2. Abs(n) \in Nat /\ Abs(1) = 1
  BY DEF Abs
<1>3. Abs(n) \div Abs(1) = Abs(n)
  BY <1>1, <1>2
<1>4. Truncated(n, 1) = IF n < 0 THEN -Abs(n) ELSE Abs(n)
  BY <1>3 DEF Truncated
<1> QED
  BY <1>4 DEF Abs

LEMMA OnlyOutcome ==
  ASSUME NEW v
  PROVE  (CHOOSE o \in Yields(v) : TRUE).value = v
<1>1. (CHOOSE o \in {ValueArg(v)} : TRUE) = ValueArg(v)
  OBVIOUS
<1> QED
  BY <1>1 DEF Yields, ValueArg
LEMMA OperandParts ==
  ASSUME NEW v \in Operands
  PROVE  /\ v.type = IntType => v = Int32(v.val) /\ v.val \in Int /\ v.val \in Ints
         /\ v.type = BoolType => v = Bool(v.val) /\ v.val \in BOOLEAN
<1>1. v = [type |-> v.type, val |-> v.val] /\ IsScalar(v)
  BY OperandsAreScalars
<1>2. v.type = IntType => v = Int32(v.val) /\ v.val \in Int /\ v.val \in Ints
  BY <1>1, IntOperands DEF Int32
<1>3. v.type = BoolType => v = Bool(v.val) /\ v.val \in BOOLEAN
  BY <1>1, KindsDiffer DEF Bool, IsScalar
<1> QED
  BY <1>2, <1>3

LEMMA Targets ==
  ASSUME NEW v
  PROVE  /\ AsType(IntType, v) = AsInt(v) /\ AsType(FloatType, v) = AsFloat(v)
         /\ AsType(BoolType, v) = AsBool(v) /\ AsType(StringType, v) = AsString(v)
BY KindsDiffer DEF AsType

LEMMA BackFrom ==
  ASSUME NEW v, NEW target, NEW w, AsType(target, v) = Yields(w), AsType(v.type, w) = Yields(v)
  PROVE  ThereAndBack(v, target)
<1>1. (CHOOSE o \in AsType(target, v) : TRUE).value = w
  BY OnlyOutcome
<1> QED
  BY <1>1 DEF ThereAndBack

LEMMA IntsComeBack ==
  ASSUME NEW v \in Operands, v.type = IntType
  PROVE  ThereAndBack(v, FloatType) /\ ThereAndBack(v, StringType)
<1>1. v = Int32(v.val) /\ v.val \in Int /\ v.val \in Ints
  BY OperandParts
<1> DEFINE f == Float(v.val, 1)
           s == Str(ToString(v.val))
<1>2. AsType(FloatType, v) = Yields(f) /\ AsType(StringType, v) = Yields(s)
  <2>1. AsFloat(v) = Yields(f)
    BY KindsDiffer DEF AsFloat
  <2>2. AsString(v) = Yields(s)
    BY KindsDiffer DEF AsString
  <2> QED
    BY <2>1, <2>2, Targets
<1>3. AsInt(f) = Yields(v)
  <2>1. f.type = FloatType /\ f.val[1] = v.val /\ f.val[2] = 1
    BY DEF Float
  <2> HIDE DEF f
  <2>2. AsInt(f) = FloatAsInt(v.val, 1)
    BY <2>1, KindsDiffer DEF AsInt
  <2>3. FloatAsInt(v.val, 1) = Yields(Int32(v.val))
    BY <1>1, IntTruncates DEF FloatAsInt
  <2> QED
    BY <1>1, <2>2, <2>3
<1>4. AsInt(s) = Yields(v)
  <2>1. s.type = StringType /\ s.val = ToString(v.val)
    BY DEF Str
  <2> HIDE DEF s
  <2>2. s.val \in DOMAIN IntStrings /\ IntStrings[s.val] = v.val
    BY <1>1, <2>1, IntsAreSpelled
  <2>3. AsInt(s) = Yields(Int32(v.val))
    BY <1>1, <2>1, <2>2, KindsDiffer DEF AsInt
  <2> QED
    BY <1>1, <2>3
<1> HIDE DEF f, s
<1> QED
  BY <1>2, <1>3, <1>4, Targets, BackFrom

LEMMA BoolsComeBack ==
  ASSUME NEW v \in Operands, v.type = BoolType
  PROVE  ThereAndBack(v, IntType)
<1>1. v = Bool(v.val) /\ v.val \in BOOLEAN
  BY OperandParts
<1> DEFINE n == BoolAsInt(v.val)
           i == Int32(n)
<1>2. n \in Int /\ (n # 0) = v.val
  BY <1>1 DEF BoolAsInt
<1>3. AsType(IntType, v) = Yields(i)
  <2>1. AsInt(v) = Yields(i)
    BY KindsDiffer DEF AsInt
  <2> QED
    BY <2>1, Targets
<1> HIDE DEF n
<1>4. AsBool(i) = Yields(v)
  <2>1. i.type = IntType /\ i.val = n
    BY DEF Int32
  <2> HIDE DEF i
  <2>2. AsBool(i) = Yields(Bool(n # 0))
    BY <2>1, KindsDiffer DEF AsBool
  <2> QED
    BY <1>1, <1>2, <2>2
<1> HIDE DEF i
<1> QED
  BY <1>1, <1>3, <1>4, Targets, BackFrom

(* Less than a unit has no room for a multiple of it but zero.               *)
LEMMA NoMultiple ==
  ASSUME NEW k \in Int, NEW d \in Nat \ {0}, k * d < d, -(k * d) < d
  PROVE  k = 0
<1>1. ASSUME k >= 1
      PROVE  FALSE
  <2>1. k - 1 \in Nat /\ (k - 1) * d \in Nat
    BY <1>1
  <2>2. k * d = (k - 1) * d + d
    OBVIOUS
  <2> QED
    BY <2>1, <2>2
<1>2. ASSUME k <= -1
      PROVE  FALSE
  <2>1. (-k) - 1 \in Nat /\ ((-k) - 1) * d \in Nat
    BY <1>2
  <2>2. -(k * d) = ((-k) - 1) * d + d
    OBVIOUS
  <2> QED
    BY <2>1, <2>2
<1> QED
  BY <1>1, <1>2

(* There is one way to cut a fraction.                                       *)
LEMMA CutIsTruncated ==
  ASSUME NEW n \in Int, NEW d \in Nat, NEW i \in Int, IsCutTo(<<n, d>>, i)
  PROVE  d # 0 /\ Truncated(n, d) = i
<1> DEFINE t == Truncated(n, d)
           cut == n - i * d
           rest == n - t * d
<1>1. cut \in Int /\ Abs(cut) < d /\ (cut # 0 => (cut < 0 <=> n < 0))
  BY DEF IsCutTo
<1>2. d \in Nat \ {0}
  BY <1>1 DEF Abs
<1>3. t \in Int /\ rest \in Int /\ Abs(rest) < d /\ (rest # 0 => (rest < 0 <=> n < 0))
  <2>1. /\ t \in Int
        /\ rest = IF n < 0 THEN -(Abs(n) - (Abs(n) \div Abs(d)) * Abs(d))
                  ELSE Abs(n) - (Abs(n) \div Abs(d)) * Abs(d)
    BY <1>2, TruncatedRest
  <2>2. Abs(n) \in Nat /\ Abs(d) = d
    BY DEF Abs
  <2> DEFINE q == Abs(n) \div d
             m == Abs(n) - q * d
  <2>3. q \in Nat /\ q * d <= Abs(n) /\ Abs(n) < (q + 1) * d
    BY <1>2, <2>2, Quotient
  <2>4. (q + 1) * d = q * d + d /\ q * d \in Nat
    BY <2>3
  <2>5. m \in Nat /\ m < d
    BY <2>2, <2>3, <2>4
  <2>6. rest = IF n < 0 THEN -m ELSE m
    BY <2>1, <2>2
  <2> HIDE DEF m, q, t, rest
  <2> QED
    BY <1>2, <2>1, <2>5, <2>6 DEF Abs, t
<1>4. (i - t) * d = rest - cut
  <2>1. t \in Int
    BY <1>3
  <2> HIDE DEF t
  <2> QED
    BY <2>1
<1>5. rest - cut < d /\ -(rest - cut) < d
  <2> HIDE DEF rest, cut
  <2> QED
    BY <1>1, <1>2, <1>3 DEF Abs
<1> HIDE DEF t, rest, cut
<1>6. i - t = 0
  BY <1>2, <1>3, <1>4, <1>5, NoMultiple
<1>7. t = i
  BY <1>3, <1>6
<1> QED
  BY <1>2, <1>7 DEF t

LEMMA FloatsAreCut ==
  ASSUME NEW v \in Operands, v.type = FloatType, NEW i \in Ints, IsCutTo(v.val, i)
  PROVE  AsType(IntType, v) = Yields(Int32(i))
<1> DEFINE n == v.val[1]
           d == v.val[2]
<1>1. v.val = <<n, d>> /\ n \in Int /\ d \in Nat
  BY OperandsAreScalars DEF IsDouble
<1>2. i \in Int
  BY MaxIntIsPositive DEF Ints, MinInt
<1>3. AsInt(v) = FloatAsInt(n, d)
  BY KindsDiffer DEF AsInt
<1> HIDE DEF n, d
<1>4. d # 0 /\ Truncated(n, d) = i
  BY <1>1, <1>2, CutIsTruncated
<1>5. FloatAsInt(n, d) = Yields(Int32(i))
  BY <1>4 DEF FloatAsInt
<1> QED
  BY <1>3, <1>5, Targets

(* Rounding.                                                                 *)
LEMMA Nearest ==
  ASSUME NEW n \in Int, NEW d \in Nat \ {0}
  PROVE  /\ NearestInt(n, d) \in Int
         /\ 2 * Abs(NearestInt(n, d) * d - n) <= d
         /\ 2 * Abs(NearestInt(n, d) * d - n) = d => Abs(NearestInt(n, d)) * d > Abs(n)
<1> DEFINE a == Abs(n)
           q == (2 * a + d) \div (2 * d)
<1>1. a \in Nat /\ a = IF n < 0 THEN -n ELSE n
  BY DEF Abs
<1> HIDE DEF a
<1>2. 2 * a + d \in Nat /\ 2 * d \in Nat \ {0}
  BY <1>1
<1>3. q \in Nat /\ q * (2 * d) <= 2 * a + d /\ (2 * a + d) - q * (2 * d) < 2 * d
  BY <1>2, Quotient
<1>4. NearestInt(n, d) = IF n < 0 THEN -q ELSE q
  BY <1>1 DEF NearestInt, a
<1> HIDE DEF q
<1>5. q * d \in Nat /\ q * (2 * d) = 2 * (q * d) /\ (-q) * d = -(q * d)
  BY <1>3
<1>6. Abs(NearestInt(n, d) * d - n) = Abs(q * d - a) /\ Abs(NearestInt(n, d)) = q
  BY <1>1, <1>3, <1>4, <1>5 DEF Abs
<1>7. 2 * Abs(q * d - a) <= d /\ (2 * Abs(q * d - a) = d => q * d > a)
  BY <1>1, <1>3, <1>5 DEF Abs
<1> QED
  BY <1>1, <1>3, <1>4, <1>6, <1>7 DEF a

LEMMA Ten == 10 ^ 1 = 10 /\ 10 ^ 0 = 1
OBVIOUS
LEMMA RoundedTo ==
  ASSUME NEW n \in Int, NEW d \in Nat \ {0}, NEW p \in Int, NEW factor, factor = 10 ^ Abs(p)
  PROVE  RoundFloat(n, d, p) = IF p < 0 THEN Float(NearestInt(n, d * factor) * factor, 1)
                               ELSE Float(NearestInt(n * factor, d), factor)
<1>1. CASE p < 0
  BY <1>1 DEF RoundFloat
<1>2. CASE p >= 0
  BY <1>2 DEF RoundFloat
<1> QED
  BY <1>1, <1>2

LEMMA RoundsOperands ==
  ASSUME l \in Operands
  PROVE  RoundIsNearest
<1> DEFINE n == l.val[1]
           d == l.val[2]
           Rounded(p) ==
             LET m == RoundFloat(n, d, p).val[1]
                 q == RoundFloat(n, d, p).val[2]
                 unit == IF p = -1 THEN <<10, 1>> ELSE <<1, 10 ^ p>>
                 distance == 2 * Abs(m * d - n * q) * unit[2]
                 limit == unit[1] * d * q
             IN  /\ (m * unit[2]) % (q * unit[1]) = 0
                 /\ distance <= limit
                 /\ distance = limit => Abs(m) * d > Abs(n) * q
<1> SUFFICES ASSUME l.type = FloatType, IsFinite(l.val) PROVE \A p \in {-1, 0, 1} : Rounded(p)
  BY DEF RoundIsNearest
<1>1. n \in Int /\ d \in Nat \ {0}
  BY OperandsAreScalars DEF IsDouble, IsFinite
<1> HIDE DEF n, d
<1>2. Abs(-1) = 1 /\ Abs(0) = 0 /\ Abs(1) = 1
  <2>1. Abs(-1) = 1
    <3>1. \A i \in Int : i + 1 = 0 => Abs(i) = 1
      BY DEF Abs
    <3>2. -1 \in Int /\ -1 + 1 = 0
      OBVIOUS
    <3> QED
      BY <3>1, <3>2
  <2>2. Abs(0) = 0
    BY DEF Abs
  <2>3. Abs(1) = 1
    BY DEF Abs
  <2> QED
    BY <2>1, <2>2, <2>3
<1>3. \A k \in Int : (k * 1) % (1 * 1) = 0 /\ (k * 10) % (10 * 1) = 0 /\ (k * 10 * 1) % (1 * 10) = 0
  OBVIOUS
<1>4. Rounded(-1)
  <2> DEFINE k == NearestInt(n, d * 10)
  <2>1. d * 10 \in Nat \ {0}
    BY <1>1
  <2>2. /\ k \in Int /\ 2 * Abs(k * (d * 10) - n) <= d * 10
        /\ 2 * Abs(k * (d * 10) - n) = d * 10 => Abs(k) * (d * 10) > Abs(n)
    BY <1>1, <2>1, Nearest
  <2>3. RoundFloat(n, d, -1) = Float(k * 10, 1)
    <3>1. 10 = 10 ^ Abs(-1)
      BY <1>2, Ten
    <3>2. -1 \in Int
      OBVIOUS
    <3> QED
      BY <1>1, <3>1, <3>2, RoundedTo
  <2>4. RoundFloat(n, d, -1).val[1] = k * 10 /\ RoundFloat(n, d, -1).val[2] = 1
    BY <2>3 DEF Float
  <2> HIDE DEF k
  <2>5. (k * 10 * 1) % (1 * 10) = 0
    BY <1>3, <2>2
  <2>6. k * 10 * d - n * 1 = k * (d * 10) - n /\ Abs(k * 10) * d = Abs(k) * (d * 10) /\ Abs(n) * 1 = Abs(n)
    BY <1>1, <2>2 DEF Abs
  <2>7. 2 * Abs(k * 10 * d - n * 1) * 1 = 2 * Abs(k * (d * 10) - n) /\ 10 * d * 1 = d * 10
    BY <1>1, <2>2, <2>6 DEF Abs
  <2> QED
    BY <2>2, <2>4, <2>5, <2>6, <2>7
<1>5. Rounded(0)
  <2> DEFINE k == NearestInt(n * 1, d)
  <2>1. n * 1 = n
    BY <1>1
  <2>2. /\ k \in Int /\ 2 * Abs(k * d - n) <= d
        /\ 2 * Abs(k * d - n) = d => Abs(k) * d > Abs(n)
    BY <1>1, <2>1, Nearest
  <2>3. RoundFloat(n, d, 0) = Float(k, 1)
    <3>1. 1 = 10 ^ Abs(0)
      BY <1>2, Ten
    <3>2. 0 \in Int
      OBVIOUS
    <3> QED
      BY <1>1, <3>1, <3>2, RoundedTo
  <2>4. RoundFloat(n, d, 0).val[1] = k /\ RoundFloat(n, d, 0).val[2] = 1
    BY <2>3 DEF Float
  <2> HIDE DEF k
  <2>5. 2 * Abs(k * d - n * 1) * 1 = 2 * Abs(k * d - n) /\ 1 * d * 1 = d /\ Abs(n) * 1 = Abs(n)
    BY <1>1, <2>2 DEF Abs
  <2> QED
    BY <1>3, <2>2, <2>4, <2>5, Ten
<1>6. Rounded(1)
  <2> DEFINE k == NearestInt(n * 10, d)
             move == Abs(k * d - n * 10)
  <2>1. n * 10 \in Int
    BY <1>1
  <2>2. /\ k \in Int /\ 2 * move <= d
        /\ 2 * move = d => Abs(k) * d > Abs(n * 10)
    BY <1>1, <2>1, Nearest
  <2>3. RoundFloat(n, d, 1) = Float(k, 10)
    <3>1. 10 = 10 ^ Abs(1)
      BY <1>2, Ten
    <3>2. 1 \in Int
      OBVIOUS
    <3> QED
      BY <1>1, <3>1, <3>2, RoundedTo
  <2>4. RoundFloat(n, d, 1).val[1] = k /\ RoundFloat(n, d, 1).val[2] = 10
    BY <2>3 DEF Float
  <2> HIDE DEF k
  <2>5. move \in Int /\ Abs(n * 10) = Abs(n) * 10
    BY <1>1, <2>2 DEF Abs
  <2> HIDE DEF move
  <2>6. 2 * move * 10 <= 1 * d * 10 /\ (2 * move * 10 = 1 * d * 10 => 2 * move = d)
    BY <1>1, <2>2, <2>5
  <2> QED
    BY <1>3, <2>2, <2>4, <2>5, <2>6, Ten DEF move
<1> QED
  BY <1>4, <1>5, <1>6

Right == /\ OrderIsTotal /\ DivisionTruncates /\ ArithmeticIsExact
         /\ CastsKeepTheValue /\ RoundIsNearest

LEMMA OperandsStay ==
  /\ Init => l \in Operands /\ r \in Operands
  /\ l \in Operands /\ r \in Operands /\ [Next]_vars => (l \in Operands /\ r \in Operands)'
BY DEF Init, Next, vars

LEMMA OfOperands ==
  ASSUME l \in Operands, r \in Operands
  PROVE  Right
BY ExactInts, TruncatesInts, OrdersOperands, IntsComeBack, BoolsComeBack, FloatsAreCut, RoundsOperands DEF Right, CastsKeepTheValue

(* Every comparison orders the values of each type but for NaN, which is     *)
(* the only value not in the order (oper_handler.cpp 96-147).                *)
THEOREM ValuesAreOrdered == Spec => []OrderIsTotal
BY OperandsStay, OfOperands, PTL DEF Spec, Right

(* For every width of int, a quotient is the one that C++ defines            *)
(* (oper_handler.cpp 73-94).                                                 *)
THEOREM DivisionIsDefined == Spec => []DivisionTruncates
BY OperandsStay, OfOperands, PTL DEF Spec, Right

(* For every width of int, no sum, difference or product wraps around, and   *)
(* none is refused that is an int, but for the smallest                      *)
(* (oper_handler.cpp 14-71).                                                 *)
THEOREM IntsNeverWrap == Spec => []ArithmeticIsExact
BY OperandsStay, OfOperands, PTL DEF Spec, Right

(* For every width of int, "as" keeps what the other type has: an int comes   *)
(* back from float and string, a bool from int, and a float with an int to    *)
(* be cut to becomes that int (type_handler.cpp 91-179).                      *)
THEOREM CastsLoseNothing == Spec => []CastsKeepTheValue
BY OperandsStay, OfOperands, PTL DEF Spec, Right

(* Rounding to tens, units or tenths moves a float as little as possible     *)
(* (builtin_functions.cpp 41-47).                                            *)
THEOREM RoundingIsLeast == Spec => []RoundIsNearest
BY OperandsStay, OfOperands, PTL DEF Spec, Right
=============================================================================
