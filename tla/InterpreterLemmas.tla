------------------------- MODULE InterpreterLemmas -------------------------
(***************************************************************************)
(* What the proofs about the interpreter rest on: the operators, the       *)
(* conversions and the built-in functions give values that a program may   *)
(* hold, for every range of int; and what replacing the head of the stack  *)
(* does to the calls and the scopes that its items owe, for every stack.   *)
(***************************************************************************)
EXTENDS Interpreter, SequenceLemmas, FiniteSetTheorems

-----------------------------------------------------------------------------
(* Values.                                                                   *)

LEMMA IntRange ==
  /\ MaxInt \in Nat /\ MaxInt > 0
  /\ \A n : n \in Ints <=> n \in Int /\ n >= -MaxInt - 1 /\ n <= MaxInt
BY MaxIntIsPositive DEF Ints, MinInt

LEMMA DistinctTypes ==
  /\ IntType.kind = "INT" /\ FloatType.kind = "FLOAT" /\ BoolType.kind = "BOOL" /\ StringType.kind = "STRING"
  /\ NoneType.kind = "NONE"
BY DEF IntType, FloatType, BoolType, StringType, NoneType

(* The parts of a value of each type.                                        *)
LEMMA ScalarTypes ==
  ASSUME NEW v, IsScalar(v)
  PROVE  /\ v.type \in {IntType, FloatType, BoolType, StringType}
         /\ v.type.kind \in {"INT", "FLOAT", "BOOL", "STRING"}
         /\ v.type = IntType => v.val \in Ints
         /\ v.type = BoolType => v.val \in BOOLEAN
BY DistinctTypes DEF IsScalar

LEMMA MadeScalars ==
  /\ \A n \in Ints : IsScalar(Int32(n))
  /\ \A b \in BOOLEAN : IsScalar(Bool(b))
  /\ \A s : IsScalar(Str(s))
  /\ \A n, d : IsScalar(Float(n, d))
BY DEF IsScalar, Int32, Bool, Str, Float

(* The magnitude of a quotient: at most that of the dividend, and less than  *)
(* half of it unless the divisor is a unit.                                  *)
LEMMA Magnitude == ASSUME NEW n \in Int PROVE Abs(n) \in Nat /\ (Abs(n) = n \/ Abs(n) = -n)
BY DEF Abs

LEMMA NatQuotient ==
  ASSUME NEW n \in Nat, NEW d \in Nat, d # 0
  PROVE  /\ n \div d \in Nat
         /\ n \div d <= n
         /\ n = d * (n \div d) + (n % d)
         /\ n % d \in 0..(d - 1)
         /\ d # 1 => 2 * (n \div d) <= n
<1>1. CASE d = 1
  BY <1>1
<1>2. CASE d # 1
  BY <1>2
<1> QED
  BY <1>1, <1>2

LEMMA QuotientIsInt ==
  ASSUME NEW n \in Ints, NEW d \in Ints, d # 0, ~(n = MinInt /\ d = -1)
  PROVE  Truncated(n, d) \in Ints
<1> DEFINE q == Abs(n) \div Abs(d)
<1>1. n \in Int /\ d \in Int /\ Abs(n) \in Nat /\ Abs(d) \in Nat /\ Abs(d) # 0
  BY IntRange, Magnitude DEF Abs
<1>2. q \in Nat /\ q <= Abs(n) /\ (Abs(d) # 1 => 2 * q <= Abs(n))
  BY <1>1, NatQuotient
<1>3. Abs(n) <= MaxInt + 1 /\ MaxInt \in Nat /\ MaxInt > 0
  BY <1>1, IntRange DEF Abs
<1>4. -q \in Ints
  BY <1>2, <1>3, <1>1, IntRange
<1>5. ASSUME (n < 0) = (d < 0) PROVE q <= MaxInt
  <2>1. CASE Abs(d) # 1
    BY <1>1, <1>2, <1>3, <2>1
  <2>2. CASE n # MinInt
    <3>1. Abs(n) <= MaxInt
      BY <1>1, <2>2, IntRange DEF Abs, MinInt
    <3> QED
      BY <1>1, <1>2, <1>3, <3>1
  <2>3. CASE Abs(d) = 1 /\ n = MinInt
    <3>1. d = -1
      BY <1>1, <1>5, <2>3, IntRange DEF Abs, MinInt
    <3> QED
      BY <2>3, <3>1
  <2> QED
    BY <2>1, <2>2, <2>3
<1>6. ASSUME (n < 0) = (d < 0) PROVE q \in Ints
  BY <1>2, <1>3, <1>5, <1>6, IntRange
<1> QED
  BY <1>4, <1>6 DEF Truncated

-----------------------------------------------------------------------------
(* What an operator may yield: an error, or a value that is no function.     *)
GivesScalar(outcomes) ==
  \A o \in outcomes : o.tag = "error" \/ (o = ValueArg(o.value) /\ IsScalar(o.value))

LEMMA ErrorOrScalar ==
  /\ \A e : GivesScalar(Fails(e))
  /\ \A v : IsScalar(v) => GivesScalar(Yields(v))
  /\ GivesScalar(CannotPerform) /\ GivesScalar(NotConvertible)
BY DEF GivesScalar, Fails, Error, Yields, ValueArg, CannotPerform, NotConvertible

LEMMA CheckedIntIsInt == ASSUME NEW n \in Int PROVE GivesScalar(CheckedInt(n))
<1>1. ~IntOverflows(n) => n \in Ints
  BY IntRange DEF IntOverflows, Abs
<1> QED
  BY <1>1, ErrorOrScalar, MadeScalars DEF CheckedInt

LEMMA FractionIsScalar == \A n, d : IsScalar(Fraction(n, d))
BY MadeScalars DEF Fraction

LEMMA FloatOperations ==
  /\ \A x, y : IsScalar(FloatSum(x, y)) /\ IsScalar(FloatProduct(x, y)) /\ IsScalar(FloatQuotient(x, y))
BY FractionIsScalar, MadeScalars DEF FloatSum, FloatProduct, FloatQuotient

LEMMA SameType ==
  ASSUME NEW l, NEW r, IsScalar(l), WellTyped(r), AreTheSameType(l, r)
  PROVE  l.type = r.type /\ IsScalar(r)
BY DistinctTypes DEF IsScalar, WellTyped, AreTheSameType

LEMMA ArithmeticIsTyped ==
  ASSUME NEW l, NEW r, WellTyped(l), WellTyped(r), AreTheSameType(l, r)
  PROVE  /\ GivesScalar(Add(l, r))
         /\ GivesScalar(Subtract(l, r))
         /\ GivesScalar(Multiply(l, r))
         /\ GivesScalar(Divide(l, r))
<1>1. ASSUME l.type = IntType
      PROVE  /\ l.val \in Ints /\ r.val \in Ints /\ l.val \in Int /\ r.val \in Int
             /\ l.val + r.val \in Int /\ l.val - r.val \in Int /\ l.val * r.val \in Int
  BY <1>1, SameType, ScalarTypes, DistinctTypes, IntRange DEF WellTyped
<1>2. IntType # FloatType /\ IntType # StringType /\ FloatType # StringType
  BY DistinctTypes
<1>3. GivesScalar(Add(l, r))
  BY <1>1, CheckedIntIsInt, FloatOperations, ErrorOrScalar, MadeScalars DEF Add
<1>4. GivesScalar(Subtract(l, r))
  BY <1>1, CheckedIntIsInt, FloatOperations, ErrorOrScalar DEF Subtract
<1>5. GivesScalar(Multiply(l, r))
  BY <1>1, CheckedIntIsInt, FloatOperations, ErrorOrScalar DEF Multiply
<1>6. ASSUME l.type = IntType PROVE GivesScalar(DivideInts(l.val, r.val))
  BY <1>1, <1>6, QuotientIsInt, ErrorOrScalar, MadeScalars DEF DivideInts
<1>7. GivesScalar(Divide(l, r))
  BY <1>6, FloatOperations, ErrorOrScalar DEF Divide
<1> QED
  BY <1>3, <1>4, <1>5, <1>7

(* Values of one type are in an order or not.                                *)
LEMMA OrderIsBoolean ==
  ASSUME NEW x, NEW y, x.type \in {IntType, FloatType, BoolType, StringType}
  PROVE  LessThan(x, y) \in BOOLEAN
<1>1. CASE x.type = IntType
  <2>1. LessThan(x, y) = (x.val < y.val)
    BY <1>1, DistinctTypes DEF LessThan
  <2>2. (x.val < y.val) \in BOOLEAN
    OBVIOUS
  <2> QED
    BY <2>1, <2>2, Zenon
<1>2. CASE x.type = FloatType
  <2>1. LessThan(x, y) = LessFloats(x.val, y.val)
    BY <1>2, DistinctTypes DEF LessThan
  <2>2. LessFloats(x.val, y.val) \in BOOLEAN
    BY DEF LessFloats
  <2> QED
    BY <2>1, <2>2, Zenon
<1>3. CASE x.type = BoolType
  BY <1>3, DistinctTypes DEF LessThan
<1>4. CASE x.type = StringType
  <2>1. LessThan(x, y) = (StringRank(x.val) < StringRank(y.val))
    BY <1>4, DistinctTypes DEF LessThan
  <2>2. (StringRank(x.val) < StringRank(y.val)) \in BOOLEAN
    OBVIOUS
  <2> QED
    BY <2>1, <2>2, Zenon
<1> QED
  BY <1>1, <1>2, <1>3, <1>4

LEMMA ComparisonIsTyped ==
  ASSUME NEW l, NEW r, WellTyped(l), WellTyped(r), AreTheSameType(l, r),
         NEW kind \in {"EQUAL", "NOT_EQUAL", "LESS", "LESS_EQUAL", "GREATER", "GREATER_EQUAL"}
  PROVE  GivesScalar(Compare(kind, l, r))
<1>1. CASE l.type.kind = "FUNCTION"
  BY <1>1, ErrorOrScalar DEF Compare
<1>2. CASE IsScalar(l)
  <2>1. l.type = r.type /\ IsScalar(r) /\ l.type \in {IntType, FloatType, BoolType, StringType}
    BY <1>2, SameType, ScalarTypes
  <2>2. EqualValues(l, r) \in BOOLEAN
    BY DEF EqualValues, EqualFloats
  <2>3. LessThan(l, r) \in BOOLEAN /\ LessThan(r, l) \in BOOLEAN
    BY <2>1, OrderIsBoolean
  <2> QED
    BY <1>2, <2>2, <2>3, ScalarTypes, ErrorOrScalar, MadeScalars DEF Compare
<1> QED
  BY <1>1, <1>2 DEF WellTyped

LEMMA LogicIsTyped ==
  ASSUME NEW l, NEW r
  PROVE  GivesScalar(LogicalAnd(l, r)) /\ GivesScalar(LogicalOr(l, r)) /\ GivesScalar(LogicalNot(l))
BY ErrorOrScalar, MadeScalars DEF LogicalAnd, LogicalOr, LogicalNot

(* A binary operator yields an error, a value that is no function, or the    *)
(* composition of two functions that compose.                                *)
LEMMA BinaryIsTyped ==
  ASSUME NEW l, NEW r, WellTyped(l), WellTyped(r), NEW kind \in BinaryKinds,
         NEW o \in EvaluateBinary(kind, l, r), o.tag # "error"
  PROVE  /\ o = ValueArg(o.value)
         /\ \/ IsScalar(o.value)
            \/ /\ l.type.kind = "FUNCTION" /\ r.type.kind = "FUNCTION"
               /\ CanCompose(l, r)
               /\ o.value = ComposedFunction(l, r)
<1>1. \A e : o \notin Fails(e)
  BY DEF Fails, Error
<1>2. AreTheSameType(l, r)
  BY <1>1 DEF EvaluateBinary
<1>3. CASE kind = "FUNCTION_COMPOSITION"
  <2>1. o \in ComposeFunctions(l, r)
    BY <1>2, <1>3 DEF EvaluateBinary
  <2>2. l.type.kind = "FUNCTION" /\ CanCompose(l, r) /\ o \in Yields(ComposedFunction(l, r))
    BY <1>1, <2>1 DEF ComposeFunctions
  <2> QED
    BY <1>2, <2>2 DEF Yields, ValueArg, AreTheSameType
<1>4. CASE kind # "FUNCTION_COMPOSITION"
  <2>1. GivesScalar(EvaluateBinary(kind, l, r))
    BY <1>2, <1>4, ArithmeticIsTyped, LogicIsTyped, ComparisonIsTyped DEF EvaluateBinary, BinaryKinds
  <2> QED
    BY <2>1 DEF GivesScalar
<1> QED
  BY <1>3, <1>4

LEMMA UnaryIsTyped ==
  ASSUME NEW kind, NEW v, WellTyped(v)
  PROVE  GivesScalar(EvaluateUnary(kind, v))
<1>1. v.type = IntType => v.val \in Ints
  BY DistinctTypes, ScalarTypes DEF WellTyped
<1>2. \A n \in Ints : (IF n = MinInt THEN MinInt ELSE -n) \in Ints
  BY IntRange DEF MinInt
<1>3. GivesScalar(UnaryMinus(v))
  BY <1>1, <1>2, ErrorOrScalar, MadeScalars DEF UnaryMinus
<1> QED
  BY <1>3, LogicIsTyped DEF EvaluateUnary

(* A conversion gives a value that is no function, or fails.                 *)
LEMMA CastIsTyped ==
  ASSUME NEW target, NEW v, WellTyped(v)
  PROVE  GivesScalar(AsType(target, v))
<1>1. /\ v.type \in {IntType, FloatType, BoolType, StringType} => IsScalar(v)
      /\ v.type = BoolType => v.val \in BOOLEAN
  BY DistinctTypes, ScalarTypes DEF WellTyped
<1>2. \A b \in BOOLEAN : BoolAsInt(b) \in Ints
  BY IntRange DEF BoolAsInt
<1>3. \A n, d : GivesScalar(FloatAsInt(n, d))
  <2>1. \A n, d : d # 0 /\ Truncated(n, d) \in Ints => GivesScalar(FloatAsInt(n, d))
    BY ErrorOrScalar, MadeScalars DEF FloatAsInt
  <2>2. \A n, d : ~(d # 0 /\ Truncated(n, d) \in Ints) => GivesScalar(FloatAsInt(n, d))
    BY MadeScalars DEF FloatAsInt, GivesScalar, ValueArg
  <2> QED
    BY <2>1, <2>2
<1>4. GivesScalar(AsInt(v))
  BY <1>1, <1>2, <1>3, ErrorOrScalar, MadeScalars DEF AsInt
<1>5. GivesScalar(AsFloat(v))
  BY <1>1, ErrorOrScalar, MadeScalars DEF AsFloat
<1>6. GivesScalar(AsBool(v))
  BY <1>1, ErrorOrScalar, MadeScalars DEF AsBool
<1>7. GivesScalar(AsString(v))
  BY <1>1, ErrorOrScalar, MadeScalars DEF AsString
<1> QED
  BY <1>4, <1>5, <1>6, <1>7, ErrorOrScalar DEF AsType

(* A built-in function leaves nothing, when it is print, or a value of its   *)
(* return type.                                                              *)
LEMMA BuiltinIsTyped ==
  ASSUME NEW name \in DOMAIN BuiltinTable, NEW args, NEW result \in BuiltinResults(name, args),
         name = "round" => args[2].val \in Int
  PROVE  \/ result = Nothing /\ BuiltinTable[name].type.ret = NoneType
         \/ /\ result = ValueArg(result.value)
            /\ IsScalar(result.value)
            /\ result.value.type = BuiltinTable[name].type.ret
<1> DEFINE ret == BuiltinTable[name].type.ret
<1>1. name \in {"print", "round", "input", "is_int", "is_float", "lower", "upper", "capitalized"}
  BY DEF BuiltinTable
<1>2. CASE name = "print"
  BY <1>2 DEF BuiltinResults, BuiltinTable, Builtin, FunctionType
<1>3. CASE name = "round"
  <2>1. ret = FloatType
    BY <1>3 DEF BuiltinTable, Builtin, FunctionType
  <2>2. \A n, d : \A p \in Int : \E m, q : RoundFloat(n, d, p) = Float(m, q)
    BY DEF RoundFloat
  <2>3. PICK m, q : result = ValueArg(Float(m, q))
    BY <1>3, <2>2 DEF BuiltinResults, Yields
  <2> QED
    BY <2>1, <2>3, MadeScalars DEF ValueArg, Float
<1>4. CASE name \in {"is_int", "is_float"}
  <2>1. ret = BoolType
    BY <1>4 DEF BuiltinTable, Builtin, FunctionType
  <2>2. PICK b \in BOOLEAN : result = ValueArg(Bool(b))
    BY <1>4 DEF BuiltinResults, Yields, IsValue
  <2> QED
    BY <2>1, <2>2, MadeScalars DEF ValueArg, Bool
<1>5. CASE name \in {"input", "lower", "upper", "capitalized"}
  <2>1. ret = StringType
    BY <1>5 DEF BuiltinTable, Builtin, FunctionType
  <2>2. PICK s : result = ValueArg(Str(s))
    BY <1>5 DEF BuiltinResults, Yields
  <2> QED
    BY <2>1, <2>2, MadeScalars DEF ValueArg, Str
<1> QED
  BY <1>1, <1>2, <1>3, <1>4, <1>5
-----------------------------------------------------------------------------
(* The stack.                                                                *)

Owers == FrameOwers \cup ScopeOwers

(* Only the item at j owes anything.                                         *)
Sole(items, j) == \A i \in 1..Len(items) : items[i].do \in Owers => i = j
Plain(items) == \A i \in 1..Len(items) : items[i].do \notin Owers

(* The items below keep their place.                                         *)
LEMMA WaitingBelow ==
  ASSUME NEW items, NEW base, IsSeq(items), IsSeq(base), NEW p \in 1..Len(base)
  PROVE  Waiting(items \o base, p) = Waiting(base, p)
<1>1. Len(items) \in Nat /\ Len(base) \in Nat
  BY SeqParts
<1>2. Len(items \o base) = Len(items) + Len(base)
  BY SeqConcat
<1>3. Len(items \o base) + 1 - p \in 1..Len(items \o base) /\ Len(items \o base) + 1 - p > Len(items)
  BY <1>1, <1>2
<1>4. (items \o base)[Len(items \o base) + 1 - p] = base[Len(items \o base) + 1 - p - Len(items)]
  BY <1>1, <1>3, SeqConcat
<1>5. Len(items \o base) + 1 - p - Len(items) = Len(base) + 1 - p
  BY <1>1, <1>2
<1> QED
  BY <1>4, <1>5 DEF Waiting

LEMMA WaitingAbove ==
  ASSUME NEW items, NEW base, IsSeq(items), IsSeq(base), NEW p \in Len(base) + 1..Len(base) + Len(items)
  PROVE  /\ Len(base) + Len(items) + 1 - p \in 1..Len(items)
         /\ Waiting(items \o base, p) = items[Len(base) + Len(items) + 1 - p]
<1>1. Len(items) \in Nat /\ Len(base) \in Nat
  BY SeqParts
<1>2. Len(items \o base) = Len(items) + Len(base)
  BY SeqConcat
<1>3. Len(base) + Len(items) + 1 - p \in 1..Len(items)
  BY <1>1
<1>4. Len(base) + Len(items) + 1 - p \in 1..Len(items \o base) /\ Len(base) + Len(items) + 1 - p <= Len(items)
  BY <1>1, <1>2, <1>3
<1>5. (items \o base)[Len(base) + Len(items) + 1 - p] = items[Len(base) + Len(items) + 1 - p]
  BY <1>4, SeqConcat
<1> QED
  BY <1>1, <1>2, <1>3, <1>5 DEF Waiting

(* Ends of calls can be counted.                                             *)
Ends(items, p) == {q \in 1..p : Waiting(items, q).do \in FrameOwers}

LEMMA CallsAreCounted ==
  ASSUME NEW items, NEW p \in Nat
  PROVE  /\ IsFiniteSet(Ends(items, p)) /\ CallOf(items, p) = Cardinality(Ends(items, p))
         /\ CallOf(items, p) \in Nat
         /\ \A q \in 0..p : CallOf(items, q) \in Nat /\ CallOf(items, q) <= CallOf(items, p)
         /\ \A q \in 1..p : Waiting(items, q).do \in FrameOwers => CallOf(items, q) > 0
<1>1. \A q \in 0..p : /\ Ends(items, q) \subseteq 1..q
                      /\ Ends(items, q) \subseteq Ends(items, p)
                      /\ CallOf(items, q) = Cardinality(Ends(items, q))
  BY DEF Ends, CallOf
<1>2. \A q \in 0..p : IsFiniteSet(Ends(items, q))
  BY <1>1, FS_Interval, FS_Subset
<1>3. \A q \in 0..p : CallOf(items, q) \in Nat
  BY <1>1, <1>2, FS_CardinalityType
<1>4. \A q \in 0..p : CallOf(items, q) <= CallOf(items, p)
  BY <1>1, <1>2, FS_Subset
<1>5. ASSUME NEW q \in 1..p, Waiting(items, q).do \in FrameOwers
      PROVE  CallOf(items, q) > 0
  <2>1. q \in Ends(items, q) /\ q \in 0..p
    BY <1>5 DEF Ends
  <2> QED
    BY <2>1, <1>1, <1>2, <1>3, FS_EmptySet
<1> QED
  BY <1>1, <1>2, <1>3, <1>4, <1>5

LEMMA CallOfBelow ==
  ASSUME NEW items, NEW base, IsSeq(items), IsSeq(base), NEW p \in 0..Len(base)
  PROVE  CallOf(items \o base, p) = CallOf(base, p)
<1>1. \A q \in 1..p : q \in 1..Len(base)
  BY SeqParts
<1>2. \A q \in 1..p : Waiting(items \o base, q) = Waiting(base, q)
  BY <1>1, WaitingBelow
<1>3. {q \in 1..p : Waiting(items \o base, q).do \in FrameOwers} = {q \in 1..p : Waiting(base, q).do \in FrameOwers}
  BY <1>2
<1> QED
  BY <1>3 DEF CallOf

(* Above items that end no call, the call stays; above one that does, it is   *)
(* the next one.                                                            *)
LEMMA CallOfAbove ==
  ASSUME NEW items, NEW base, IsSeq(items), IsSeq(base),
         \A i \in 1..Len(items) : items[i].do \notin FrameOwers,
         NEW p \in Len(base)..Len(base) + Len(items)
  PROVE  CallOf(items \o base, p) = CallOf(base, Len(base))
<1>1. Len(items) \in Nat /\ Len(base) \in Nat
  BY SeqParts
<1>2. \A q \in 1..p : q \in 1..Len(base) \/ q \in Len(base) + 1..Len(base) + Len(items)
  BY <1>1
<1>3. \A q \in Len(base) + 1..Len(base) + Len(items) : Waiting(items \o base, q).do \notin FrameOwers
  BY WaitingAbove
<1>4. \A q \in 1..Len(base) : Waiting(items \o base, q) = Waiting(base, q) /\ q \in 1..p
  BY <1>1, WaitingBelow
<1>5. {q \in 1..p : Waiting(items \o base, q).do \in FrameOwers} = {q \in 1..Len(base) : Waiting(base, q).do \in FrameOwers}
  BY <1>2, <1>3, <1>4
<1> QED
  BY <1>5 DEF CallOf

LEMMA CallOfNext ==
  ASSUME NEW items, NEW base, IsSeq(items), IsSeq(base), NEW j \in 1..Len(items), Sole(items, j),
         items[j].do \in FrameOwers
  PROVE  CallOf(items \o base, Len(items \o base)) = CallOf(base, Len(base)) + 1
<1> DEFINE s == items \o base
           place == Len(base) + Len(items) + 1 - j
<1>1. Len(items) \in Nat /\ Len(base) \in Nat /\ Len(s) = Len(items) + Len(base)
  BY SeqParts, SeqConcat
<1>2. place \in Len(base) + 1..Len(base) + Len(items) /\ Len(base) + Len(items) + 1 - place = j
  BY <1>1
<1>3. Waiting(s, place) = items[j]
  BY <1>2, WaitingAbove
<1>4. ASSUME NEW q \in Len(base) + 1..Len(base) + Len(items), Waiting(s, q).do \in FrameOwers
      PROVE  q = place
  <2>1. items[Len(base) + Len(items) + 1 - q].do \in FrameOwers /\ Len(base) + Len(items) + 1 - q \in 1..Len(items)
    BY <1>4, WaitingAbove
  <2>2. Len(base) + Len(items) + 1 - q = j
    BY <2>1 DEF Sole, Owers
  <2> QED
    BY <1>1, <2>2
<1>5. \A q \in 1..Len(base) : Waiting(s, q) = Waiting(base, q) /\ q \in 1..Len(s) /\ q # place
  BY <1>1, <1>2, WaitingBelow
<1>6. \A q \in 1..Len(s) : q \in 1..Len(base) \/ q \in Len(base) + 1..Len(base) + Len(items)
  BY <1>1
<1>7. place \in 1..Len(s)
  BY <1>1, <1>2
<1>8. Ends(s, Len(s)) = Ends(base, Len(base)) \cup {place} /\ place \notin Ends(base, Len(base))
  <2> HIDE DEF s, place
  <2> QED
    BY <1>3, <1>4, <1>5, <1>6, <1>7 DEF Ends
<1>9. IsFiniteSet(Ends(base, Len(base))) /\ CallOf(base, Len(base)) = Cardinality(Ends(base, Len(base)))
  BY <1>1, CallsAreCounted
<1>10. CallOf(s, Len(s)) = Cardinality(Ends(s, Len(s)))
  BY DEF CallOf, Ends
<1> QED
  BY <1>8, <1>9, <1>10, FS_AddElement
-----------------------------------------------------------------------------
(* The scopes that a call owes.                                              *)

LEMMA OwingIsFinite ==
  ASSUME NEW items, IsSeq(items), NEW k, NEW owers
  PROVE  /\ IsFiniteSet(Owing(items, k, owers))
         /\ Cardinality(Owing(items, k, owers)) \in Nat
<1>1. Owing(items, k, owers) \subseteq 1..Len(items)
  BY DEF Owing
<1>2. IsFiniteSet(1..Len(items))
  BY SeqParts, FS_Interval
<1>3. IsFiniteSet(Owing(items, k, owers))
  BY <1>1, <1>2, FS_Subset
<1> QED
  BY <1>3, FS_CardinalityType

(* No call owes anything before it is made.                                  *)
LEMMA NothingOwedAbove ==
  ASSUME NEW items, IsSeq(items), NEW k \in Nat, k > CallOf(items, Len(items)), NEW owers
  PROVE  Owing(items, k, owers) = {}
<1>1. Len(items) \in Nat
  BY SeqParts
<1>2. \A p \in 1..Len(items) : CallOf(items, p) \in Nat /\ CallOf(items, p) <= CallOf(items, Len(items))
  BY <1>1, CallsAreCounted
<1>3. CallOf(items, Len(items)) \in Nat
  BY <1>1, CallsAreCounted
<1>4. \A p \in 1..Len(items) : CallOf(items, p) # k
  BY <1>2, <1>3
<1> QED
  BY <1>4 DEF Owing

LEMMA OwingPlain ==
  ASSUME NEW items, NEW base, IsSeq(items), IsSeq(base),
         \A i \in 1..Len(items) : items[i].do \notin ScopeOwers, NEW k
  PROVE  Owing(items \o base, k, ScopeOwers) = Owing(base, k, ScopeOwers)
<1> DEFINE s == items \o base
<1>1. Len(items) \in Nat /\ Len(base) \in Nat /\ Len(s) = Len(items) + Len(base)
  BY SeqParts, SeqConcat
<1>2. \A p \in Len(base) + 1..Len(base) + Len(items) : Waiting(s, p).do \notin ScopeOwers
  BY WaitingAbove
<1>3. \A p \in 1..Len(base) : Waiting(s, p) = Waiting(base, p) /\ CallOf(s, p) = CallOf(base, p) /\ p \in 1..Len(s)
  BY <1>1, WaitingBelow, CallOfBelow
<1>4. \A p \in 1..Len(s) : p \in 1..Len(base) \/ p \in Len(base) + 1..Len(base) + Len(items)
  BY <1>1
<1>5. Owing(s, k, ScopeOwers) = Owing(base, k, ScopeOwers)
  <2> HIDE DEF s
  <2> QED
    BY <1>1, <1>2, <1>3, <1>4 DEF Owing
<1> QED
  BY <1>5

LEMMA OwingMore ==
  ASSUME NEW items, NEW base, IsSeq(items), IsSeq(base), NEW j \in 1..Len(items), Sole(items, j),
         items[j].do \in ScopeOwers, NEW k
  PROVE  LET current == CallOf(base, Len(base))
         IN  Cardinality(Owing(items \o base, k, ScopeOwers)) =
               Cardinality(Owing(base, k, ScopeOwers)) + IF k = current THEN 1 ELSE 0
<1> DEFINE s == items \o base
           place == Len(base) + Len(items) + 1 - j
           current == CallOf(base, Len(base))
<1>1. Len(items) \in Nat /\ Len(base) \in Nat /\ Len(s) = Len(items) + Len(base)
  BY SeqParts, SeqConcat
<1>2. place \in Len(base) + 1..Len(base) + Len(items) /\ Len(base) + Len(items) + 1 - place = j
  BY <1>1
<1>3. Waiting(s, place) = items[j]
  BY <1>2, WaitingAbove
<1>4. ASSUME NEW q \in Len(base) + 1..Len(base) + Len(items), Waiting(s, q).do \in ScopeOwers
      PROVE  q = place
  <2>1. items[Len(base) + Len(items) + 1 - q].do \in ScopeOwers /\ Len(base) + Len(items) + 1 - q \in 1..Len(items)
    BY <1>4, WaitingAbove
  <2>2. Len(base) + Len(items) + 1 - q = j
    BY <2>1 DEF Sole, Owers
  <2> QED
    BY <1>1, <2>2
<1>5. \A i \in 1..Len(items) : items[i].do \notin FrameOwers
  BY DEF Sole, Owers, FrameOwers, ScopeOwers
<1>6. CallOf(s, place) = current
  <2>1. place \in Len(base)..Len(base) + Len(items)
    BY <1>1, <1>2
  <2> QED
    BY <1>5, <2>1, CallOfAbove
<1>7. \A p \in 1..Len(base) :
        /\ Waiting(s, p) = Waiting(base, p) /\ CallOf(s, p) = CallOf(base, p)
        /\ p \in 1..Len(s) /\ p # place
  BY <1>1, <1>2, WaitingBelow, CallOfBelow
<1>8. \A p \in 1..Len(s) : p \in 1..Len(base) \/ p \in Len(base) + 1..Len(base) + Len(items)
  BY <1>1
<1>9. place \in 1..Len(s)
  BY <1>1, <1>2
<1>10. /\ Owing(s, k, ScopeOwers) = IF k = current THEN Owing(base, k, ScopeOwers) \cup {place}
                                                   ELSE Owing(base, k, ScopeOwers)
       /\ place \notin Owing(base, k, ScopeOwers)
  <2> HIDE DEF s, place, current
  <2> QED
    BY <1>3, <1>4, <1>6, <1>7, <1>8, <1>9 DEF Owing
<1>11. IsFiniteSet(Owing(base, k, ScopeOwers)) /\ Cardinality(Owing(base, k, ScopeOwers)) \in Nat
  BY OwingIsFinite
<1>12. Cardinality(Owing(base, k, ScopeOwers) \cup {place}) = Cardinality(Owing(base, k, ScopeOwers)) + 1
  BY <1>10, <1>11, FS_AddElement
<1>13. Cardinality(Owing(s, k, ScopeOwers)) =
         Cardinality(Owing(base, k, ScopeOwers)) + IF k = current THEN 1 ELSE 0
  <2> HIDE DEF s, place, current
  <2> QED
    BY <1>10, <1>11, <1>12
<1> QED
  BY <1>13

-----------------------------------------------------------------------------
(* The balance of frames and stack when items are put on the stack, or taken. *)

LEMMA BalancedPlain ==
  ASSUME NEW items, NEW base, IsSeq(items), IsSeq(base), Plain(items), NEW scopes
  PROVE  Balanced(scopes, items \o base) <=> Balanced(scopes, base)
<1>1. Len(items) \in Nat /\ Len(base) \in Nat /\ Len(items \o base) = Len(base) + Len(items)
  BY SeqParts, SeqConcat
<1>2. CallOf(items \o base, Len(items \o base)) = CallOf(base, Len(base))
  BY <1>1, CallOfAbove DEF Plain, Owers
<1>3. \A k : Owing(items \o base, k, ScopeOwers) = Owing(base, k, ScopeOwers)
  BY OwingPlain DEF Plain, Owers
<1> QED
  BY <1>2, <1>3 DEF Balanced

LEMMA BalancedScope ==
  ASSUME NEW items, NEW base, IsSeq(items), IsSeq(base),
         NEW j \in 1..Len(items), Sole(items, j), items[j].do \in ScopeOwers,
         NEW fewer, NEW more, IsSeq(fewer), IsSeq(more), Len(fewer) = Len(more), Len(fewer) > 0,
         \A k \in 1..Len(fewer) : fewer[k] \in Int /\ more[k] = fewer[k] + IF k = Len(fewer) THEN 1 ELSE 0
  PROVE  Balanced(more, items \o base) <=> Balanced(fewer, base)
<1> DEFINE s == items \o base
           current == CallOf(base, Len(base))
<1>1. Len(items) \in Nat /\ Len(base) \in Nat /\ Len(s) = Len(base) + Len(items)
  BY SeqParts, SeqConcat
<1>2. CallOf(s, Len(s)) = current
  <2>1. \A i \in 1..Len(items) : items[i].do \notin FrameOwers
    BY DEF Sole, Owers, FrameOwers, ScopeOwers
  <2>2. Len(s) \in Len(base)..Len(base) + Len(items)
    BY <1>1
  <2> QED
    BY <2>1, <2>2, CallOfAbove
<1>3. \A k : Cardinality(Owing(s, k, ScopeOwers)) =
               Cardinality(Owing(base, k, ScopeOwers)) + IF k = current THEN 1 ELSE 0
  BY OwingMore
<1>4. \A k : Cardinality(Owing(base, k, ScopeOwers)) \in Nat
  BY OwingIsFinite
<1>5. DOMAIN fewer = 1..Len(fewer) /\ DOMAIN more = 1..Len(fewer)
  BY SeqParts
<1>6. ASSUME Len(fewer) = current, NEW k \in 1..Len(fewer)
      PROVE  more[k] = 1 + Cardinality(Owing(s, k, ScopeOwers))
               <=> fewer[k] = 1 + Cardinality(Owing(base, k, ScopeOwers))
  <2> DEFINE one == IF k = current THEN 1 ELSE 0
  <2>1. more[k] = fewer[k] + one /\ fewer[k] \in Int
    BY <1>6
  <2>2. Cardinality(Owing(s, k, ScopeOwers)) = Cardinality(Owing(base, k, ScopeOwers)) + one
    BY <1>3
  <2>3. Cardinality(Owing(base, k, ScopeOwers)) \in Nat /\ one \in Nat
    BY <1>4
  <2> HIDE DEF one, s
  <2> QED
    BY <2>1, <2>2, <2>3
<1> HIDE DEF s, current
<1> QED
  BY <1>2, <1>5, <1>6 DEF Balanced, current, s

LEMMA BalancedFrame ==
  ASSUME NEW items, NEW base, IsSeq(items), IsSeq(base),
         NEW j \in 1..Len(items), Sole(items, j), items[j].do \in FrameOwers,
         NEW fewer, NEW more, IsSeq(fewer), IsSeq(more), Len(more) = Len(fewer) + 1,
         \A k \in 1..Len(fewer) : more[k] = fewer[k]
  PROVE  /\ Balanced(more, items \o base) => Balanced(fewer, base)
         /\ Balanced(fewer, base) /\ more[Len(more)] = 1 => Balanced(more, items \o base)
<1> DEFINE s == items \o base
           current == CallOf(base, Len(base))
<1>1. Len(base) \in Nat /\ current \in Nat
  BY SeqParts, CallsAreCounted
<1>2. CallOf(s, Len(s)) = current + 1
  BY CallOfNext
<1>3. \A i \in 1..Len(items) : items[i].do \notin ScopeOwers
  BY DEF Sole, Owers, FrameOwers, ScopeOwers
<1>4. \A k : Owing(s, k, ScopeOwers) = Owing(base, k, ScopeOwers)
  BY <1>3, OwingPlain
<1>5. Owing(base, current + 1, ScopeOwers) = {}
  BY <1>1, NothingOwedAbove
<1>6. /\ DOMAIN fewer = 1..Len(fewer) /\ DOMAIN more = 1..(Len(fewer) + 1)
      /\ Len(fewer) \in Nat
  BY SeqParts
<1>7. Cardinality({}) = 0
  BY FS_EmptySet
<1> HIDE DEF s, current
<1>8. Balanced(more, s) => Balanced(fewer, base)
  BY <1>1, <1>2, <1>4, <1>6 DEF Balanced, current
<1>9. ASSUME Balanced(fewer, base), more[Len(more)] = 1
      PROVE  Balanced(more, s)
  <2>1. Len(fewer) = current
    BY <1>9 DEF Balanced, current
  <2>2. \A k \in 1..Len(fewer) : more[k] = 1 + Cardinality(Owing(s, k, ScopeOwers))
    <3> SUFFICES ASSUME NEW k \in 1..Len(fewer)
                 PROVE  more[k] = 1 + Cardinality(Owing(s, k, ScopeOwers))
      OBVIOUS
    <3>1. fewer[k] = 1 + Cardinality(Owing(base, k, ScopeOwers))
      BY <1>6, <1>9 DEF Balanced
    <3>2. Owing(s, k, ScopeOwers) = Owing(base, k, ScopeOwers)
      BY <1>4
    <3> QED
      BY <3>1, <3>2
  <2>3. more[Len(fewer) + 1] = 1 + Cardinality(Owing(s, Len(fewer) + 1, ScopeOwers))
    <3>1. Owing(s, Len(fewer) + 1, ScopeOwers) = {}
      BY <1>4, <1>5, <2>1
    <3>2. Cardinality(Owing(s, Len(fewer) + 1, ScopeOwers)) = 0
      BY <1>7, <3>1
    <3>3. more[Len(fewer) + 1] = 1
      BY <1>9
    <3> QED
      BY <3>2, <3>3
  <2>4. \A k \in DOMAIN more : k \in 1..Len(fewer) \/ k = Len(fewer) + 1
    BY <1>6
  <2> QED
    BY <1>2, <2>1, <2>2, <2>3, <2>4 DEF Balanced
<1> QED
  BY <1>8, <1>9 DEF s
-----------------------------------------------------------------------------
(* The halves of a composition: what the first returns is what the second    *)
(* takes, and what the second returns is what the call returns.              *)
HalvesFit(frames, items) ==
  \A p \in 1..Len(items) : Waiting(items, p).do = "HalfEnd" =>
    LET k == CallOf(items, p)
        below == Waiting(items, p - 1)
    IN  /\ p > 1 /\ k > 1
        /\ below.do \in FrameOwers => frames[k].ret = frames[k - 1].ret
        /\ below.do = "SecondHalf" =>
             /\ frames[k].ret = below.second.type.params[1].type
             /\ frames[k - 1].ret = below.second.type.ret

LEMMA HalvesBelow ==
  ASSUME NEW items, NEW base, IsSeq(items), IsSeq(base), NEW frames, NEW frames2,
         HalvesFit(frames, items \o base),
         \A k \in 1..CallOf(base, Len(base)) : frames2[k].ret = frames[k].ret
  PROVE  HalvesFit(frames2, base)
<1> DEFINE s == items \o base
<1> SUFFICES ASSUME NEW p \in 1..Len(base), Waiting(base, p).do = "HalfEnd"
             PROVE  LET k == CallOf(base, p)
                        below == Waiting(base, p - 1)
                    IN  /\ p > 1 /\ k > 1
                        /\ below.do \in FrameOwers => frames2[k].ret = frames2[k - 1].ret
                        /\ below.do = "SecondHalf" =>
                             /\ frames2[k].ret = below.second.type.params[1].type
                             /\ frames2[k - 1].ret = below.second.type.ret
  BY DEF HalvesFit
<1>1. Len(base) \in Nat /\ Len(items) \in Nat /\ Len(s) = Len(items) + Len(base)
  BY SeqParts, SeqConcat
<1>2. p \in 1..Len(s) /\ p \in 0..Len(base)
  BY <1>1
<1>3. Waiting(s, p) = Waiting(base, p) /\ CallOf(s, p) = CallOf(base, p)
  BY <1>2, WaitingBelow, CallOfBelow
<1>4. p > 1 /\ CallOf(base, p) > 1
  BY <1>2, <1>3 DEF HalvesFit
<1>5. Waiting(s, p - 1) = Waiting(base, p - 1)
  <2>1. p - 1 \in 1..Len(base)
    BY <1>1, <1>4
  <2> QED
    BY <2>1, WaitingBelow
<1>6. CallOf(base, p) \in 1..CallOf(base, Len(base)) /\ CallOf(base, p) - 1 \in 1..CallOf(base, Len(base))
  <2>1. CallOf(base, p) \in Nat /\ CallOf(base, Len(base)) \in Nat /\ CallOf(base, p) <= CallOf(base, Len(base))
    BY <1>1, <1>2, CallsAreCounted
  <2> QED
    BY <2>1, <1>4
<1> DEFINE k == CallOf(base, p)
           below == Waiting(base, p - 1)
<1>7. /\ below.do \in FrameOwers => frames[k].ret = frames[k - 1].ret
      /\ below.do = "SecondHalf" =>
           /\ frames[k].ret = below.second.type.params[1].type
           /\ frames[k - 1].ret = below.second.type.ret
  BY <1>2, <1>3, <1>5 DEF HalvesFit
<1>8. frames2[k].ret = frames[k].ret /\ frames2[k - 1].ret = frames[k - 1].ret
  BY <1>6
<1> QED
  BY <1>4, <1>7, <1>8

LEMMA HalvesAbove ==
  ASSUME NEW items, NEW base, IsSeq(items), IsSeq(base), NEW frames, HalvesFit(frames, base),
         \A i \in 1..Len(items) : items[i].do # "HalfEnd"
  PROVE  HalvesFit(frames, items \o base)
<1> DEFINE s == items \o base
<1> SUFFICES ASSUME NEW p \in 1..Len(s), Waiting(s, p).do = "HalfEnd"
             PROVE  LET k == CallOf(s, p)
                        below == Waiting(s, p - 1)
                    IN  /\ p > 1 /\ k > 1
                        /\ below.do \in FrameOwers => frames[k].ret = frames[k - 1].ret
                        /\ below.do = "SecondHalf" =>
                             /\ frames[k].ret = below.second.type.params[1].type
                             /\ frames[k - 1].ret = below.second.type.ret
  BY DEF HalvesFit
<1>1. Len(base) \in Nat /\ Len(items) \in Nat /\ Len(s) = Len(items) + Len(base)
  BY SeqParts, SeqConcat
<1>2. p \in 1..Len(base) \/ p \in Len(base) + 1..Len(base) + Len(items)
  BY <1>1
<1>3. p \in 1..Len(base)
  BY <1>2, WaitingAbove
<1>4. Waiting(s, p) = Waiting(base, p)
  BY <1>3, WaitingBelow
<1>5. CallOf(s, p) = CallOf(base, p)
  <2>1. p \in 0..Len(base)
    BY <1>1, <1>3
  <2> QED
    BY <2>1, CallOfBelow
<1>6. p > 1 /\ CallOf(base, p) > 1
  BY <1>3, <1>4 DEF HalvesFit
<1>7. Waiting(s, p - 1) = Waiting(base, p - 1)
  <2>1. p - 1 \in 1..Len(base)
    BY <1>1, <1>3, <1>6
  <2> QED
    BY <2>1, WaitingBelow
<1> HIDE DEF s
<1> QED
  BY <1>3, <1>4, <1>5, <1>6, <1>7 DEF HalvesFit

LEMMA HalfPushed ==
  ASSUME NEW x, x.do = "HalfEnd", NEW base, IsSeq(base), base # <<>>, NEW frames, HalvesFit(frames, base),
         NEW n, n = CallOf(base, Len(base)), n > 0,
         base[1].do \in FrameOwers => frames[n + 1].ret = frames[n].ret,
         base[1].do = "SecondHalf" =>
           /\ frames[n + 1].ret = base[1].second.type.params[1].type
           /\ frames[n].ret = base[1].second.type.ret
  PROVE  HalvesFit(frames, <<x>> \o base)
<1> DEFINE s == <<x>> \o base
<1>1. /\ Len(base) \in Nat /\ Len(base) > 0
      /\ IsSeq(<<x>>) /\ Len(<<x>>) = 1 /\ <<x>>[1] = x
      /\ Len(s) = Len(base) + 1
  <2>1. IsSeq(<<x>>) /\ Len(<<x>>) = 1 /\ <<x>>[1] = x
    BY SeqSingle
  <2>2. Len(base) \in Nat /\ Len(base) # 0
    BY SeqParts
  <2>3. Len(s) = Len(base) + 1
    BY <2>1, <2>2, SeqConcat
  <2> QED
    BY <2>1, <2>2, <2>3
<1>2. n \in Nat
  BY <1>1, CallsAreCounted
<1>3. CallOf(s, Len(s)) = n + 1
  <2>1. Sole(<<x>>, 1)
    BY <1>1 DEF Sole
  <2>2. 1 \in 1..Len(<<x>>) /\ <<x>>[1].do \in FrameOwers
    BY <1>1 DEF FrameOwers
  <2>3. CallOf(s, Len(s)) = CallOf(base, Len(base)) + 1
    BY <1>1, <2>1, <2>2, CallOfNext
  <2> QED
    BY <2>3
<1>4. Waiting(s, Len(s) - 1) = base[1]
  <2>1. Waiting(s, Len(base)) = Waiting(base, Len(base))
    BY <1>1, WaitingBelow
  <2>2. Waiting(base, Len(base)) = base[1]
    BY <1>1 DEF Waiting
  <2>3. Len(s) - 1 = Len(base)
    BY <1>1
  <2> QED
    BY <2>1, <2>2, <2>3
<1> SUFFICES ASSUME NEW p \in 1..Len(s), Waiting(s, p).do = "HalfEnd"
             PROVE  LET k == CallOf(s, p)
                        below == Waiting(s, p - 1)
                    IN  /\ p > 1 /\ k > 1
                        /\ below.do \in FrameOwers => frames[k].ret = frames[k - 1].ret
                        /\ below.do = "SecondHalf" =>
                             /\ frames[k].ret = below.second.type.params[1].type
                             /\ frames[k - 1].ret = below.second.type.ret
  BY DEF HalvesFit
<1>5. CASE p = Len(s)
  <2>1. p > 1 /\ n + 1 > 1 /\ n + 1 - 1 = n
    BY <1>1, <1>2, <1>5
  <2> DEFINE k == CallOf(s, p)
             below == Waiting(s, p - 1)
  <2>2. k = n + 1 /\ k - 1 = n /\ k > 1 /\ p > 1
    BY <1>2, <1>3, <1>5, <2>1
  <2>3. below = base[1]
    BY <1>4, <1>5
  <2> HIDE DEF k, below, s
  <2>4. /\ below.do \in FrameOwers => frames[k].ret = frames[k - 1].ret
        /\ below.do = "SecondHalf" =>
             /\ frames[k].ret = below.second.type.params[1].type
             /\ frames[k - 1].ret = below.second.type.ret
    BY <2>2, <2>3
  <2> QED
    BY <2>2, <2>4 DEF k, below
<1>6. CASE p # Len(s)
  <2>1. p \in 1..Len(base) /\ p \in 0..Len(base)
    BY <1>1, <1>6
  <2>2. Waiting(s, p) = Waiting(base, p) /\ CallOf(s, p) = CallOf(base, p)
    BY <1>1, <2>1, WaitingBelow, CallOfBelow
  <2>3. p > 1 /\ CallOf(base, p) > 1
    BY <2>1, <2>2 DEF HalvesFit
  <2>4. p - 1 \in 1..Len(base)
    BY <2>1, <2>3
  <2>5. Waiting(s, p - 1) = Waiting(base, p - 1)
    BY <1>1, <2>4, WaitingBelow
  <2> HIDE DEF s
  <2> QED
    BY <2>1, <2>2, <2>3, <2>5 DEF HalvesFit
<1> QED
  BY <1>5, <1>6

(* One item that owes a scope may stand for another.                         *)
LEMMA BalancedSwap ==
  ASSUME NEW x, x.do \in ScopeOwers, NEW items, NEW base, IsSeq(items), IsSeq(base),
         NEW j \in 1..Len(items), Sole(items, j), items[j].do \in ScopeOwers,
         NEW scopes, IsSeq(scopes), Len(scopes) > 0, \A k \in 1..Len(scopes) : scopes[k] \in Int,
         Balanced(scopes, <<x>> \o base)
  PROVE  Balanced(scopes, items \o base)
<1> DEFINE fewer == [k \in 1..Len(scopes) |-> scopes[k] - IF k = Len(scopes) THEN 1 ELSE 0]
<1>1. Len(scopes) \in Nat
  BY SeqParts
<1>2. IsSeq(fewer) /\ Len(fewer) = Len(scopes)
  BY <1>1, SeqMade
<1>3. \A k \in 1..Len(fewer) : fewer[k] \in Int /\ scopes[k] = fewer[k] + IF k = Len(fewer) THEN 1 ELSE 0
  <2> SUFFICES ASSUME NEW k \in 1..Len(scopes)
               PROVE  fewer[k] \in Int /\ scopes[k] = fewer[k] + IF k = Len(scopes) THEN 1 ELSE 0
    BY <1>2
  <2>1. fewer[k] = scopes[k] - (IF k = Len(scopes) THEN 1 ELSE 0) /\ scopes[k] \in Int
    OBVIOUS
  <2> QED
    BY <2>1
<1>4. IsSeq(<<x>>) /\ 1 \in 1..Len(<<x>>) /\ Sole(<<x>>, 1) /\ <<x>>[1] = x
  BY SeqSingle DEF Sole
<1> HIDE DEF fewer
<1>5. Balanced(fewer, base)
  BY <1>2, <1>3, <1>4, BalancedScope
<1> QED
  BY <1>2, <1>3, <1>5, BalancedScope
=============================================================================
