---------------------------- MODULE ParserProofs ----------------------------
(***************************************************************************)
(* What holds in every state of the parser, for every lexer.               *)
(***************************************************************************)
EXTENDS TokenFeeds, SequenceLemmas

Rules == DOMAIN Steps

(* These parsing functions never give nothing.                               *)
AlwaysGive == {"Program", "ReturnType", "FunctionTypeInfo", "ElseIfs"}

Ops ==
  {"digest", "keep", "break", "throw", "choose", "while", "call", "every", "combine", "noteTarget",
   "checkTarget", "bindOrCall", "makeVariableType"}

(* The steps that may come next.                                             *)
Followers(s) ==
  CASE s.op = "choose" -> Range(s.yes) \cup Range(s.no)
    [] s.op = "while" -> Range(s.body)
    [] s.op = "call" /\ s.rule \in AlwaysGive -> Range(s.yes)
    [] s.op = "call" /\ s.rule \notin AlwaysGive -> Range(s.yes) \cup Range(s.no)
    [] OTHER -> {}

WellFormed(s) ==
  /\ s.op \in Ops
  /\ s.op = "throw" => s.exception \in Exceptions
  /\ s.op \in {"choose", "call"} => IsSeq(s.yes) /\ IsSeq(s.no)
  /\ s.op = "while" => IsSeq(s.body)
  /\ s.op \in {"call", "every"} => s.rule \in Rules

(* A step after which the function never gives nothing: it is in a set of     *)
(* steps other than giveUp, with all that may come next.                     *)
Sure(s) == \E S : s \in S /\ \A t \in S : WellFormed(t) /\ Followers(t) \subseteq S

(* What comes after a break is not done.                                     *)
SureSteps(q) ==
  /\ IsSeq(q)
  /\ \A i \in 1..Len(q) : Sure(q[i]) \/ \E j \in 1..(i - 1) : q[j].op = "break"

LEMMA SureParts ==
  ASSUME NEW s, Sure(s)
  PROVE  WellFormed(s) /\ \A t \in Followers(s) : Sure(t)
BY DEF Sure

LEMMA SureFrom ==
  ASSUME NEW s, WellFormed(s), \A t \in Followers(s) : Sure(t)
  PROVE  Sure(s)
<1> DEFINE Closed(S) == \A t \in S : WellFormed(t) /\ Followers(t) \subseteq S
           With(t) == CHOOSE S : t \in S /\ Closed(S)
           All == {s} \cup UNION {With(t) : t \in Followers(s)}
<1>1. \A t \in Followers(s) : t \in With(t) /\ Closed(With(t))
  BY DEF Sure
<1> HIDE DEF With
<1>2. \A t \in All : WellFormed(t) /\ Followers(t) \subseteq All
  BY <1>1
<1> QED
  BY <1>2 DEF Sure

LEMMA SureAll ==
  ASSUME NEW S, \A s \in S : Sure(s), NEW q \in Seq(S)
  PROVE  SureSteps(q)
BY DEF SureSteps, IsSeq
LEMMA SureHead ==
  ASSUME NEW q, SureSteps(q), q # <<>>
  PROVE  /\ Sure(Head(q))
         /\ Head(q).op # "break" => SureSteps(Tail(q))
<1>1. /\ IsSeq(q) /\ Len(q) \in Nat /\ Len(q) # 0
      /\ IsSeq(Tail(q)) /\ Len(Tail(q)) = Len(q) - 1 /\ Head(q) = q[1]
      /\ \A i \in 1..Len(Tail(q)) : Tail(q)[i] = q[i + 1]
  BY SeqParts, SeqTail DEF SureSteps
<1>2. Sure(q[1])
  BY <1>1 DEF SureSteps
<1>3. ASSUME q[1].op # "break", NEW i \in 1..Len(Tail(q)), ~Sure(Tail(q)[i])
      PROVE  \E j \in 1..(i - 1) : Tail(q)[j].op = "break"
  <2>1. i + 1 \in 1..Len(q) /\ ~Sure(q[i + 1])
    BY <1>1, <1>3
  <2>2. PICK k \in 1..i : q[k].op = "break"
    BY <2>1 DEF SureSteps
  <2>3. k # 1 /\ k - 1 \in 1..(i - 1) /\ k - 1 \in 1..Len(Tail(q)) /\ k - 1 + 1 = k
    BY <1>1, <1>3, <2>2
  <2> QED
    BY <1>1, <2>2, <2>3
<1> QED
  BY <1>1, <1>2, <1>3 DEF SureSteps

LEMMA SureConcat ==
  ASSUME NEW q, NEW r, IsSeq(q), \A i \in 1..Len(q) : Sure(q[i]), SureSteps(r)
  PROVE  SureSteps(q \o r)
<1> DEFINE s == q \o r
<1>1. /\ IsSeq(s) /\ Len(s) = Len(q) + Len(r) /\ Len(q) \in Nat /\ Len(r) \in Nat
      /\ \A i \in 1..Len(s) : s[i] = IF i <= Len(q) THEN q[i] ELSE r[i - Len(q)]
  BY SeqConcat, SeqParts DEF SureSteps
<1> HIDE DEF s
<1>2. ASSUME NEW i \in 1..Len(s), ~Sure(s[i])
      PROVE  \E j \in 1..(i - 1) : s[j].op = "break"
  <2>1. i - Len(q) \in 1..Len(r) /\ s[i] = r[i - Len(q)]
    BY <1>1, <1>2
  <2>2. PICK j \in 1..(i - Len(q) - 1) : r[j].op = "break"
    BY <1>2, <2>1 DEF SureSteps
  <2>3. j + Len(q) \in 1..(i - 1) /\ j + Len(q) \in 1..Len(s) /\ ~(j + Len(q) <= Len(q)) /\ j + Len(q) - Len(q) = j
    BY <1>1, <2>2
  <2>4. s[j + Len(q)] = r[j]
    BY <1>1, <2>3
  <2> QED
    BY <2>2, <2>3, <2>4
<1>3. SureSteps(s)
  BY <1>1, <1>2 DEF SureSteps
<1> QED
  BY <1>3 DEF s

(* The empty sequence, and one that begins with a break.                     *)
LEMMA SureAtOnce ==
  ASSUME NEW q, IsSeq(q), q = <<>> \/ (Head(q).op = "break" /\ Sure(Head(q)))
  PROVE  SureSteps(q)
<1>1. CASE q = <<>>
  BY <1>1, SeqParts DEF SureSteps
<1>2. CASE q # <<>>
  <2>1. Len(q) \in Nat /\ Head(q) = q[1]
    BY <1>2, SeqParts, SeqTail
  <2>2. \A i \in 1..Len(q) : i = 1 \/ 1 \in 1..(i - 1)
    BY <2>1
  <2> QED
    BY <1>2, <2>1, <2>2 DEF SureSteps
<1> QED
  BY <1>1, <1>2

LEMMA Follows ==
  ASSUME NEW s, Sure(s), NEW r, SureSteps(r)
  PROVE  /\ s.op = "choose" => SureSteps(s.yes \o r) /\ SureSteps(s.no \o r)
         /\ s.op = "while" => SureSteps(s.body \o r)
         /\ s.op = "call" => SureSteps(s.yes \o r)
         /\ s.op = "call" /\ s.rule \notin AlwaysGive => SureSteps(s.no \o r)
<1>1. \A q : IsSeq(q) => DOMAIN q = 1..Len(q)
  BY SeqParts
<1>2. ASSUME NEW q, IsSeq(q), Range(q) \subseteq Followers(s)
      PROVE  SureSteps(q \o r)
  <2>1. \A i \in 1..Len(q) : Sure(q[i])
    BY <1>1, <1>2, SureParts DEF Range
  <2> QED
    BY <1>2, <2>1, SureConcat
<1> QED
  BY <1>2, SureParts DEF WellFormed, Followers

-----------------------------------------------------------------------------
(* Steps that may give nothing, but only as long as no token is taken: what   *)
(* they test or call for may still fail.  A condition may be nothing after    *)
(* tokens are taken (parser.cpp 309-320).                                    *)
MayGiveUp(q, F) ==
  /\ IsSeq(q) /\ q # <<>>
  /\ \/ Head(q).op = "giveUp"
     \/ Head(q).op = "noteTarget" /\ Tail(q) \in F
     \/ /\ Head(q).op = "choose"
        /\ IsSeq(Head(q).yes) /\ IsSeq(Head(q).no)
        /\ {Head(q).yes \o Tail(q), Head(q).no \o Tail(q)} \subseteq F
     \/ /\ Head(q).op = "call" /\ Head(q).rule \in Rules \ {"Condition"}
        /\ IsSeq(Head(q).yes) /\ IsSeq(Head(q).no)
        /\ SureSteps(Head(q).yes \o Tail(q)) /\ Head(q).no \o Tail(q) \in F

Fresh(q) == \E F : q \in F /\ \A p \in F : SureSteps(p) \/ MayGiveUp(p, F)

LEMMA SureIsFresh == ASSUME NEW q, SureSteps(q) PROVE Fresh(q)
<1> DEFINE F == {q}
<1>1. q \in F /\ \A p \in F : SureSteps(p)
  OBVIOUS
<1> HIDE DEF F
<1> QED
  BY <1>1 DEF Fresh

LEMMA FreshParts ==
  ASSUME NEW q, Fresh(q), ~SureSteps(q)
  PROVE  /\ IsSeq(q) /\ q # <<>>
         /\ Head(q).op \in {"giveUp", "noteTarget", "choose", "call"}
         /\ Head(q).op = "noteTarget" => Fresh(Tail(q))
         /\ Head(q).op = "choose" =>
              /\ IsSeq(Head(q).yes) /\ IsSeq(Head(q).no)
              /\ Fresh(Head(q).yes \o Tail(q)) /\ Fresh(Head(q).no \o Tail(q))
         /\ Head(q).op = "call" =>
              /\ Head(q).rule \in Rules \ {"Condition"}
              /\ IsSeq(Head(q).yes) /\ IsSeq(Head(q).no)
              /\ SureSteps(Head(q).yes \o Tail(q)) /\ Fresh(Head(q).no \o Tail(q))
<1>1. PICK F : q \in F /\ \A p \in F : SureSteps(p) \/ MayGiveUp(p, F)
  BY DEF Fresh
<1>2. MayGiveUp(q, F) /\ \A p \in F : Fresh(p)
  BY <1>1 DEF Fresh
<1> QED
  BY <1>2 DEF MayGiveUp

LEMMA FreshFrom ==
  ASSUME NEW q, IsSeq(q), q # <<>>,
         \/ Head(q).op = "giveUp"
         \/ Head(q).op = "noteTarget" /\ Fresh(Tail(q))
         \/ /\ Head(q).op = "choose"
            /\ IsSeq(Head(q).yes) /\ IsSeq(Head(q).no)
            /\ Fresh(Head(q).yes \o Tail(q)) /\ Fresh(Head(q).no \o Tail(q))
         \/ /\ Head(q).op = "call" /\ Head(q).rule \in Rules \ {"Condition"}
            /\ IsSeq(Head(q).yes) /\ IsSeq(Head(q).no)
            /\ SureSteps(Head(q).yes \o Tail(q)) /\ Fresh(Head(q).no \o Tail(q))
  PROVE  Fresh(q)
<1> DEFINE Closed(F) == \A p \in F : SureSteps(p) \/ MayGiveUp(p, F)
           next == CASE Head(q).op = "noteTarget" -> {Tail(q)}
                     [] Head(q).op = "choose" -> {Head(q).yes \o Tail(q), Head(q).no \o Tail(q)}
                     [] Head(q).op = "call" -> {Head(q).no \o Tail(q)}
                     [] OTHER -> {}
           With(p) == CHOOSE F : p \in F /\ Closed(F)
           All == {q} \cup UNION {With(p) : p \in next}
<1>1. \A p \in next : p \in With(p) /\ Closed(With(p))
  BY DEF Fresh
<1>2. MayGiveUp(q, All)
  <2>1. next \subseteq All
    BY <1>1
  <2> HIDE DEF All, With
  <2> QED
    BY <2>1 DEF MayGiveUp
<1> HIDE DEF next, With
<1>3. \A p \in All : SureSteps(p) \/ MayGiveUp(p, All)
  <2>1. \A p, F : MayGiveUp(p, F) /\ F \subseteq All => MayGiveUp(p, All)
    BY DEF MayGiveUp
  <2>2. \A p \in next : With(p) \subseteq All
    OBVIOUS
  <2> QED
    BY <1>1, <1>2, <2>1, <2>2
<1> QED
  BY <1>3 DEF Fresh
-----------------------------------------------------------------------------
(* The steps that never lead to a giveUp.                                    *)
LEMMA RuleNames ==
  Rules = {"Program", "FunctionDefinition", "FunctionSignature", "ReturnType", "FunctionParams",
           "TypedIdentifier", "Type", "FunctionTypeInfo", "FunctionParamType", "Statement", "Continue",
           "Break", "Return", "VariableDeclaration", "CodeBlock", "IfStatement", "ElseIfs", "ForLoop",
           "LoopVarDeclaration", "AssignmentOrExpression", "AssignedExpression", "Condition",
           "Expression", "LogicalAnd", "Equality", "Comparison", "Additive", "Multiplicative",
           "TypeCast", "Unary", "Composition", "BindFrontOrCall", "FunctionCall", "Primary", "Literal",
           "Identifier", "ParenExpr", "ArgumentList"}
BY DEF Rules, Steps

LEMMA SureSimple ==
  /\ Sure(Digest) /\ Sure(Keep) /\ Sure(Break) /\ Sure(Combine) /\ Sure(NoteTarget)
  /\ Sure(CheckTarget) /\ Sure(BindOrCall) /\ Sure(MakeVariableType)
  /\ \A exception \in Exceptions : Sure(Throw(exception))
  /\ \A rule \in Rules : Sure(Every(rule))
<1>1. ASSUME NEW s, s.op \in {"digest", "keep", "break", "combine", "noteTarget", "checkTarget", "bindOrCall",
                               "makeVariableType"}
      PROVE  Sure(s)
  BY <1>1, SureFrom DEF WellFormed, Followers, Ops
<1>2. ASSUME NEW s, s.op = "throw", s.exception \in Exceptions
      PROVE  Sure(s)
  BY <1>2, SureFrom DEF WellFormed, Followers, Ops
<1>3. ASSUME NEW s, s.op = "every", s.rule \in Rules
      PROVE  Sure(s)
  BY <1>3, SureFrom DEF WellFormed, Followers, Ops
<1>4. /\ Digest.op = "digest" /\ Keep.op = "keep" /\ Break.op = "break" /\ Combine.op = "combine"
      /\ NoteTarget.op = "noteTarget" /\ CheckTarget.op = "checkTarget" /\ BindOrCall.op = "bindOrCall"
      /\ MakeVariableType.op = "makeVariableType"
  BY DEF Digest, Keep, Break, Combine, NoteTarget, CheckTarget, BindOrCall, MakeVariableType
<1>5. \A exception : Throw(exception).op = "throw" /\ Throw(exception).exception = exception
  BY DEF Throw
<1>6. \A rule : Every(rule).op = "every" /\ Every(rule).rule = rule
  BY DEF Every
<1> QED
  BY <1>1, <1>2, <1>3, <1>4, <1>5, <1>6

LEMMA SureChoose ==
  ASSUME NEW S, \A s \in S : Sure(s), NEW yes \in Seq(S), NEW no \in Seq(S), NEW types
  PROVE  Sure(Choose(types, yes, no))
<1> DEFINE s == Choose(types, yes, no)
<1>1. s.op = "choose" /\ s.yes = yes /\ s.no = no
  BY DEF Choose
<1> HIDE DEF s
<1>2. Range(yes) \subseteq S /\ Range(no) \subseteq S /\ IsSeq(yes) /\ IsSeq(no)
  BY DEF Range, IsSeq
<1>3. WellFormed(s) /\ Followers(s) \subseteq S
  BY <1>1, <1>2 DEF WellFormed, Followers, Ops
<1>4. Sure(s)
  BY <1>3, SureFrom
<1> QED
  BY <1>4 DEF s

LEMMA SureWhile ==
  ASSUME NEW S, \A s \in S : Sure(s), NEW body \in Seq(S), NEW types
  PROVE  Sure(While(types, body))
<1> DEFINE s == While(types, body)
<1>1. s.op = "while" /\ s.body = body
  BY DEF While
<1> HIDE DEF s
<1>2. Range(body) \subseteq S /\ IsSeq(body)
  BY DEF Range, IsSeq
<1>3. WellFormed(s) /\ Followers(s) \subseteq S
  BY <1>1, <1>2 DEF WellFormed, Followers, Ops
<1>4. Sure(s)
  BY <1>3, SureFrom
<1> QED
  BY <1>4 DEF s

LEMMA SureCall ==
  ASSUME NEW S, \A s \in S : Sure(s), NEW rule \in Rules, NEW yes \in Seq(S), NEW no,
         no \in Seq(S) \/ (IsSeq(no) /\ rule \in AlwaysGive)
  PROVE  Sure(Call(rule, yes, no))
<1> DEFINE s == Call(rule, yes, no)
<1>1. s.op = "call" /\ s.rule = rule /\ s.yes = yes /\ s.no = no
  BY DEF Call
<1> HIDE DEF s
<1>2. Range(yes) \subseteq S /\ IsSeq(yes) /\ IsSeq(no)
  BY DEF Range, IsSeq
<1>3. rule \notin AlwaysGive => Range(no) \subseteq S
  BY DEF Range
<1>4. WellFormed(s) /\ Followers(s) \subseteq S
  BY <1>1, <1>2, <1>3 DEF WellFormed, Followers, Ops
<1>5. Sure(s)
  BY <1>4, SureFrom
<1> QED
  BY <1>5 DEF s

(* Most steps are of these kinds.                                            *)
Delimiters == {"EOF", "IDENTIFIER", "->", "<", ">", ":", ";", "(", ")", "}"}

Certain ==
  {Digest, Keep, Break, Combine, NoteTarget, CheckTarget, BindOrCall, MakeVariableType}
  \cup {Throw(exception) : exception \in Exceptions}
  \cup {Every(rule) : rule \in Rules} \cup {Try(rule) : rule \in Rules}
  \cup {Demand(rule, exception) : rule \in Rules, exception \in Exceptions}
  \cup {MustBe(type, exception) : type \in Delimiters, exception \in Exceptions}
  \cup {Advance(type, exception) : type \in Delimiters, exception \in Exceptions}
  \cup {Want(rule) : rule \in AlwaysGive}

LEMMA CertainIsSure == \A s \in Certain : Sure(s)
<1>1. \A exception \in Exceptions :
        /\ \A s \in {Throw(exception), Digest} : Sure(s)
        /\ <<>> \in Seq({Throw(exception), Digest})
        /\ <<Digest>> \in Seq({Throw(exception), Digest})
        /\ <<Throw(exception)>> \in Seq({Throw(exception), Digest})
  BY SureSimple
<1>2. \A rule \in Rules, exception \in Exceptions : Sure(Demand(rule, exception))
  BY <1>1, SureCall DEF Demand
<1>3. \A type, exception : exception \in Exceptions => Sure(MustBe(type, exception))
  BY <1>1, SureChoose DEF MustBe
<1>4. \A type, exception : exception \in Exceptions => Sure(Advance(type, exception))
  BY <1>1, SureChoose DEF Advance
<1>5. \A rule \in Rules : Sure(Try(rule))
  <2>1. <<>> \in Seq({Digest}) /\ \A s \in {Digest} : Sure(s)
    BY SureSimple
  <2> QED
    BY <2>1, SureCall DEF Try
<1>6. \A rule \in AlwaysGive : Sure(Want(rule))
  <2>1. <<>> \in Seq({Digest}) /\ \A s \in {Digest} : Sure(s)
    BY SureSimple
  <2>2. IsSeq(<<GiveUp>>)
    BY SeqSingle
  <2>3. AlwaysGive \subseteq Rules
    BY RuleNames DEF AlwaysGive
  <2> QED
    BY <2>1, <2>2, <2>3, SureCall DEF Want
<1> SUFFICES ASSUME NEW s \in Certain PROVE Sure(s)
  OBVIOUS
<1>7. CASE s \in {Digest, Keep, Break, Combine, NoteTarget, CheckTarget, BindOrCall, MakeVariableType}
  BY <1>7, SureSimple
<1>8. CASE s \in {Throw(exception) : exception \in Exceptions}
  BY <1>8, SureSimple
<1>9. CASE s \in {Every(rule) : rule \in Rules}
  BY <1>9, SureSimple
<1>10. CASE s \in {Try(rule) : rule \in Rules}
  BY <1>5, <1>10
<1>11. CASE s \in {Demand(rule, exception) : rule \in Rules, exception \in Exceptions}
  BY <1>2, <1>11
<1>12. CASE s \in {MustBe(type, exception) : type \in Delimiters, exception \in Exceptions}
  BY <1>3, <1>12
<1>13. CASE s \in {Advance(type, exception) : type \in Delimiters, exception \in Exceptions}
  BY <1>4, <1>13
<1>14. CASE s \in {Want(rule) : rule \in AlwaysGive}
  BY <1>6, <1>14
<1> QED
  BY <1>7, <1>8, <1>9, <1>10, <1>11, <1>12, <1>13, <1>14 DEF Certain

LEMMA CertainSteps == \A q \in Seq(Certain) : SureSteps(q)
BY CertainIsSure, SureAll

(* ... the rules that never give nothing.                                    *)
LEMMA AlwaysGiveIsSure == \A rule \in AlwaysGive : SureSteps(Steps[rule])
<1>1. /\ MustBe("EOF", "ExpectedFuncOrEOF") \in Certain
      /\ Every("FunctionDefinition") \in Certain
  BY RuleNames DEF Certain, Delimiters, Exceptions
<1>2. SureSteps(Program)
  <2>1. Program \in Seq(Certain)
    BY <1>1 DEF Program
  <2> QED
    BY <2>1, CertainSteps
<1>3. SureSteps(ReturnType)
  <2> DEFINE yes == <<Digest>>
             no == <<Demand("Type", "ExpectedTypeSpec")>>
             s == Choose({"none"}, yes, no)
  <2>1. yes \in Seq(Certain) /\ no \in Seq(Certain)
    BY RuleNames DEF Certain, Delimiters, Exceptions
  <2> HIDE DEF yes, no
  <2>2. Sure(s)
    BY <2>1, CertainIsSure, SureChoose
  <2>3. ReturnType \in Seq({s})
    BY DEF ReturnType, yes, no
  <2> QED
    BY <2>2, <2>3, SureAll
<1>4. SureSteps(FunctionTypeInfo)
  <2> DEFINE param == Demand("FunctionParamType", "InvalidFunctionParamType")
             more == <<Digest, param>>
             loop == While({","}, more)
             none == <<Digest>>
             params == <<param, loop>>
             list == Choose({"none"}, none, params)
             S == Certain \cup {loop, list}
  <2>1. more \in Seq(Certain) /\ none \in Seq(Certain) /\ param \in Certain
    BY RuleNames DEF Certain, Delimiters, Exceptions
  <2>2. Sure(loop)
    <3> HIDE DEF more
    <3> QED
      BY <2>1, CertainIsSure, SureWhile
  <2>3. Sure(list)
    <3> HIDE DEF param, loop
    <3>1. params \in Seq(Certain \cup {loop}) /\ none \in Seq(Certain \cup {loop})
      BY <2>1
    <3> HIDE DEF params, none
    <3> QED
      BY <2>2, <3>1, CertainIsSure, SureChoose
  <2>4. /\ Advance("<", "ExpectedLess") \in Certain /\ Advance(":", "ExpectedCol") \in Certain
        /\ Want("ReturnType") \in Certain /\ Advance(">", "ExpectedGreater") \in Certain
    BY RuleNames DEF Certain, Delimiters, Exceptions, AlwaysGive
  <2>5. FunctionTypeInfo = <<Advance("<", "ExpectedLess"), list, Advance(":", "ExpectedCol"), Want("ReturnType"),
                             Advance(">", "ExpectedGreater")>>
    BY DEF FunctionTypeInfo
  <2> HIDE DEF list, loop
  <2>6. FunctionTypeInfo \in Seq(S)
    BY <2>4, <2>5
  <2>7. \A s \in S : Sure(s)
    BY <2>2, <2>3, CertainIsSure
  <2> HIDE DEF S
  <2> QED
    BY <2>6, <2>7, SureAll
<1>5. SureSteps(ElseIfs)
  <2> DEFINE body == <<Digest>> \o Conditional
             else == <<Demand("CodeBlock", "ExpectedConditionalStatementBody"), Break>>
             branch == Choose({"if"}, body, else)
             more == <<Digest, branch>>
             loop == While({"else"}, more)
  <2>1. body \in Seq(Certain) /\ else \in Seq(Certain) /\ Digest \in Certain
    BY RuleNames DEF Certain, Delimiters, Exceptions, Conditional
  <2> HIDE DEF body, else
  <2>2. Sure(branch)
    BY <2>1, CertainIsSure, SureChoose
  <2> HIDE DEF branch
  <2>3. more \in Seq(Certain \cup {branch})
    BY <2>1
  <2> HIDE DEF more
  <2>4. Sure(loop)
    BY <2>2, <2>3, CertainIsSure, SureWhile
  <2>5. ElseIfs \in Seq({loop})
    BY DEF ElseIfs, body, else, branch, more
  <2> QED
    BY <2>4, <2>5, SureAll
<1> QED
  BY <1>2, <1>3, <1>4, <1>5 DEF AlwaysGive, Steps
-----------------------------------------------------------------------------
(* The other rules give nothing only before they take a token.               *)
LEMMA EmptyBefore ==
  ASSUME NEW r, IsSeq(r)
  PROVE  <<>> \o r = r /\ IsSeq(<<>>)
<1>1. PICK S : r \in Seq(S)
  BY DEF IsSeq
<1>2. <<>> \o r = r
  BY <1>1, ConcatEmptySeq
<1>3. <<>> \in Seq({r})
  OBVIOUS
<1>4. IsSeq(<<>>)
  BY <1>3 DEF IsSeq
<1> QED
  BY <1>2, <1>4

LEMMA GivesUp ==
  ASSUME NEW r, IsSeq(r)
  PROVE  Fresh(<<GiveUp>> \o r) /\ IsSeq(<<GiveUp>>)
<1> DEFINE one == <<GiveUp>>
           q == one \o r
<1>1. IsSeq(one) /\ Len(one) = 1 /\ one[1] = GiveUp
  BY SeqSingle
<1> HIDE DEF one
<1>2. IsSeq(q) /\ Len(q) = 1 + Len(r) /\ Len(r) \in Nat /\ q[1] = GiveUp
  <2>1. IsSeq(q) /\ Len(q) = 1 + Len(r) /\ Len(r) \in Nat
    BY <1>1, SeqConcat, SeqParts
  <2>2. \A i \in 1..Len(q) : q[i] = IF i <= Len(one) THEN one[i] ELSE r[i - Len(one)]
    BY <1>1, SeqConcat
  <2> HIDE DEF q
  <2>3. 1 \in 1..Len(q)
    BY <2>1
  <2> QED
    BY <1>1, <2>1, <2>2, <2>3
<1> HIDE DEF q
<1>3. q # <<>> /\ Head(q) = GiveUp
  BY <1>2, SeqParts, SeqTail
<1>4. Fresh(q)
  BY <1>2, <1>3, FreshFrom DEF GiveUp
<1> QED
  BY <1>1, <1>4 DEF q, one

LEMMA StartsFresh ==
  ASSUME NEW q, IsSeq(q), q # <<>>, NEW types, Head(q) = Start(types), Fresh(Tail(q))
  PROVE  Fresh(q)
<1> DEFINE r == Tail(q)
<1>1. Head(q).op = "choose" /\ Head(q).yes = <<>> /\ Head(q).no = <<GiveUp>>
  BY DEF Start, Choose
<1>2. IsSeq(r) /\ Fresh(r)
  BY SeqTail
<1> HIDE DEF r
<1>3. <<>> \o r = r /\ Fresh(<<GiveUp>> \o r) /\ IsSeq(<<>>) /\ IsSeq(<<GiveUp>>)
  <2>1. <<>> \o r = r
    BY <1>2, EmptyBefore
  <2>2. IsSeq(<<>>)
    BY <1>2, EmptyBefore
  <2>3. Fresh(<<GiveUp>> \o r) /\ IsSeq(<<GiveUp>>)
    BY <1>2, GivesUp
  <2> QED
    BY <2>1, <2>2, <2>3
<1>4. Fresh(Head(q).yes \o r) /\ Fresh(Head(q).no \o r) /\ IsSeq(Head(q).yes) /\ IsSeq(Head(q).no)
  BY <1>1, <1>2, <1>3
<1> QED
  BY <1>1, <1>4, FreshFrom DEF r

LEMMA WantsFresh ==
  ASSUME NEW q, IsSeq(q), q # <<>>, NEW rule \in Rules \ {"Condition"}, Head(q) = Want(rule),
         SureSteps(Tail(q))
  PROVE  Fresh(q)
<1>1. Head(q).op = "call" /\ Head(q).rule = rule /\ Head(q).yes = <<>> /\ Head(q).no = <<GiveUp>>
  BY DEF Want, Call
<1> DEFINE r == Tail(q)
<1>2. IsSeq(r) /\ SureSteps(r)
  BY SeqTail
<1> HIDE DEF r
<1>3. <<>> \o r = r /\ Fresh(<<GiveUp>> \o r) /\ IsSeq(<<>>) /\ IsSeq(<<GiveUp>>)
  <2>1. <<>> \o r = r
    BY <1>2, EmptyBefore
  <2>2. IsSeq(<<>>)
    BY <1>2, EmptyBefore
  <2>3. Fresh(<<GiveUp>> \o r) /\ IsSeq(<<GiveUp>>)
    BY <1>2, GivesUp
  <2> QED
    BY <2>1, <2>2, <2>3
<1>4. SureSteps(Head(q).yes \o r) /\ Fresh(Head(q).no \o r) /\ IsSeq(Head(q).yes) /\ IsSeq(Head(q).no)
  BY <1>1, <1>2, <1>3
<1> QED
  BY <1>1, <1>4, FreshFrom DEF r

LEMMA ElseFresh ==
  ASSUME NEW q, IsSeq(q), q # <<>>, NEW rule \in Rules \ {"Condition"}, Head(q) = Else(rule),
         Fresh(Tail(q))
  PROVE  Fresh(q)
<1> DEFINE one == <<Break>>
           r == Tail(q)
           taken == one \o r
<1>1. Head(q).op = "call" /\ Head(q).rule = rule /\ Head(q).yes = <<Break>> /\ Head(q).no = <<>>
  BY DEF Else, Call
<1>2. IsSeq(r) /\ Fresh(r) /\ IsSeq(one) /\ Len(one) = 1 /\ one[1] = Break
  BY SeqTail, SeqSingle
<1> HIDE DEF one, r
<1>3. IsSeq(taken) /\ Len(taken) = 1 + Len(r) /\ Len(r) \in Nat /\ taken[1] = Break
  <2>1. IsSeq(taken) /\ Len(taken) = 1 + Len(r) /\ Len(r) \in Nat
    BY <1>2, SeqConcat, SeqParts
  <2>2. \A i \in 1..Len(taken) : taken[i] = IF i <= Len(one) THEN one[i] ELSE r[i - Len(one)]
    BY <1>2, SeqConcat
  <2> HIDE DEF taken
  <2>3. 1 \in 1..Len(taken)
    BY <2>1
  <2> QED
    BY <1>2, <2>1, <2>2, <2>3
<1> HIDE DEF taken
<1>4. taken # <<>> /\ Head(taken) = Break
  BY <1>3, SeqParts, SeqTail
<1>5. SureSteps(taken)
  <2>1. Break.op = "break" /\ Sure(Break)
    BY SureSimple DEF Break
  <2> QED
    BY <1>3, <1>4, <2>1, SureAtOnce
<1>6. <<>> \o r = r /\ IsSeq(<<>>)
  <2>1. <<>> \o r = r
    BY <1>2, EmptyBefore
  <2>2. IsSeq(<<>>)
    BY <1>2, EmptyBefore
  <2> QED
    BY <2>1, <2>2
<1>7. SureSteps(Head(q).yes \o r) /\ Fresh(Head(q).no \o r) /\ IsSeq(Head(q).yes) /\ IsSeq(Head(q).no)
  BY <1>1, <1>2, <1>5, <1>6 DEF taken, one
<1> QED
  BY <1>1, <1>7, FreshFrom DEF r

(* A function that begins with a test of the token ahead.                    *)
LEMMA Started ==
  ASSUME NEW q, NEW types, q \in Seq({Start(types)} \cup Certain), q # <<>>, Head(q) = Start(types),
         Tail(q) \in Seq(Certain)
  PROVE  Fresh(q)
<1>1. IsSeq(q) /\ Fresh(Tail(q))
  BY CertainSteps, SureIsFresh DEF IsSeq
<1> QED
  BY <1>1, StartsFresh

LEMMA SeqInSet ==
  ASSUME NEW s, IsSeq(s), NEW S, \A i \in 1..Len(s) : s[i] \in S
  PROVE  s \in Seq(S)
<1>1. PICK T : s \in Seq(T)
  BY DEF IsSeq
<1>2. Len(s) \in Nat /\ s \in [1..Len(s) -> S]
  BY <1>1
<1>3. s \in UNION {[1..n -> S] : n \in Nat}
  BY <1>2
<1>4. \A R : Seq(R) = UNION {[1..n -> R] : n \in Nat}
  BY SeqDef, Zenon
<1>5. Seq(S) = UNION {[1..n -> S] : n \in Nat}
  BY <1>4, Zenon
<1> QED
  BY <1>3, <1>5, Zenon

(* ... a test, a step, those of a part that rules share, and one more.        *)
Between(first, second, part, last) == <<first, second>> \o part \o <<last>>

LEMMA InBetween ==
  ASSUME NEW first, NEW second \in Certain, NEW part \in Seq(Certain), NEW last \in Certain,
         NEW q, q = Between(first, second, part, last)
  PROVE  q \in Seq({first} \cup Certain) /\ q # <<>> /\ Head(q) = first /\ Tail(q) \in Seq(Certain)
<1> DEFINE opening == <<first, second>>
           closing == <<last>>
           front == opening \o part
           whole == front \o closing
<1>1. /\ IsSeq(opening) /\ Len(opening) = 2 /\ opening[1] = first /\ opening[2] = second
      /\ IsSeq(closing) /\ Len(closing) = 1 /\ closing[1] = last
  BY SeqPair, SeqSingle
<1>2. IsSeq(part) /\ Len(part) \in Nat /\ \A i \in 1..Len(part) : part[i] \in Certain
  BY DEF IsSeq
<1>3. q = whole
  BY DEF Between
<1> HIDE DEF opening, closing
<1>4. /\ IsSeq(front) /\ Len(front) = Len(opening) + Len(part)
      /\ \A i \in 1..Len(front) : front[i] = IF i <= Len(opening) THEN opening[i] ELSE part[i - Len(opening)]
  BY <1>1, <1>2, SeqConcat
<1> HIDE DEF front
<1>5. /\ IsSeq(whole) /\ Len(whole) = Len(front) + Len(closing)
      /\ \A i \in 1..Len(whole) : whole[i] = IF i <= Len(front) THEN front[i] ELSE closing[i - Len(front)]
  BY <1>1, <1>4, SeqConcat
<1> HIDE DEF whole
<1>6. /\ Len(front) = 2 + Len(part) /\ Len(q) = 3 + Len(part) /\ IsSeq(q)
      /\ \A i \in 1..Len(front) : front[i] = IF i <= 2 THEN opening[i] ELSE part[i - 2]
      /\ \A i \in 1..Len(q) : q[i] = IF i <= 2 + Len(part) THEN front[i] ELSE closing[i - (2 + Len(part))]
  BY <1>1, <1>2, <1>3, <1>4, <1>5
<1>7. q[1] = first
  BY <1>1, <1>2, <1>6
<1>8. \A i \in 2..Len(q) : q[i] \in Certain
  <2> SUFFICES ASSUME NEW i \in 2..Len(q) PROVE q[i] \in Certain
    OBVIOUS
  <2>1. CASE i = 2
    BY <1>1, <1>2, <1>6, <2>1
  <2>2. CASE i > 2 /\ i <= 2 + Len(part)
    <3>1. i - 2 \in 1..Len(part) /\ i \in 1..Len(front) /\ i \in 1..Len(q)
      BY <1>2, <1>6, <2>2
    <3>2. q[i] = front[i] /\ front[i] = part[i - 2]
      BY <1>6, <2>2, <3>1
    <3> QED
      BY <1>2, <3>1, <3>2
  <2>3. CASE i > 2 + Len(part)
    <3>1. i - (2 + Len(part)) = 1 /\ i \in 1..Len(q) /\ ~(i <= 2 + Len(part))
      BY <1>2, <1>6, <2>3
    <3>2. q[i] = closing[1]
      BY <1>6, <3>1
    <3> QED
      BY <1>1, <3>2
  <2> QED
    BY <1>2, <1>6, <2>1, <2>2, <2>3
<1>9. q # <<>> /\ Head(q) = first
  BY <1>2, <1>6, <1>7, SeqParts, SeqTail
<1>10. Tail(q) \in Seq(Certain)
  <2>1. IsSeq(Tail(q)) /\ Len(Tail(q)) = Len(q) - 1 /\ \A i \in 1..Len(Tail(q)) : Tail(q)[i] = q[i + 1]
    BY <1>6, <1>9, SeqTail
  <2>2. \A i \in 1..Len(Tail(q)) : Tail(q)[i] \in Certain
    BY <1>2, <1>6, <1>8, <2>1
  <2> DEFINE rest == Tail(q)
  <2> HIDE DEF rest
  <2>3. rest \in Seq(Certain)
    BY <2>1, <2>2, SeqInSet DEF rest
  <2> QED
    BY <2>3 DEF rest
<1>11. q \in Seq({first} \cup Certain)
  <2>1. \A i \in 1..Len(q) : i = 1 \/ i \in 2..Len(q)
    BY <1>2, <1>6
  <2>2. \A i \in 1..Len(q) : q[i] \in {first} \cup Certain
    BY <1>7, <1>8, <2>1
  <2> DEFINE T == {first} \cup Certain
  <2> HIDE DEF T
  <2>3. q \in Seq(T)
    BY <1>6, <2>2, SeqInSet DEF T
  <2> QED
    BY <2>3 DEF T
<1> QED
  BY <1>9, <1>10, <1>11

LEMMA StartedBetween ==
  ASSUME NEW types, NEW part \in Seq(Certain), NEW last \in Certain,
         NEW q, q = Between(Start(types), Digest, part, last)
  PROVE  Fresh(q)
<1> DEFINE first == Start(types)
<1>1. Digest \in Certain /\ q = Between(first, Digest, part, last)
  BY DEF Certain
<1> HIDE DEF first
<1>2. q \in Seq({first} \cup Certain)
  BY <1>1, InBetween
<1>3. q # <<>> /\ Head(q) = first
  <2>1. q # <<>>
    BY <1>1, InBetween
  <2>2. Head(q) = first
    BY <1>1, InBetween
  <2> QED
    BY <2>1, <2>2
<1>4. Tail(q) \in Seq(Certain)
  BY <1>1, InBetween
<1> QED
  BY <1>2, <1>3, <1>4, Started DEF first

LEMMA StartingRules ==
  \A rule \in {"FunctionSignature", "Continue", "Break", "Return", "VariableDeclaration",
               "CodeBlock", "IfStatement", "ForLoop", "AssignedExpression", "Condition", "Literal",
               "Identifier", "ParenExpr"} :
    Fresh(Steps[rule])
<1>1. Fresh(FunctionSignature)
  <2> DEFINE first == Start({"def"})
  <2>1. FunctionSignature \in Seq({first} \cup Certain) /\ FunctionSignature # <<>> /\ Head(FunctionSignature) = first
        /\ Tail(FunctionSignature) \in Seq(Certain)
    BY RuleNames DEF FunctionSignature, Semicolon, Certain, Delimiters, Exceptions, AlwaysGive
  <2> QED
    BY <2>1, Started
<1>2. Fresh(Continue)
  <2> DEFINE first == Start({"continue"})
  <2>1. Continue \in Seq({first} \cup Certain) /\ Continue # <<>> /\ Head(Continue) = first
        /\ Tail(Continue) \in Seq(Certain)
    BY RuleNames DEF Continue, Semicolon, Certain, Delimiters, Exceptions, AlwaysGive
  <2> QED
    BY <2>1, Started
<1>3. Fresh(BreakSteps)
  <2> DEFINE first == Start({"break"})
  <2>1. BreakSteps \in Seq({first} \cup Certain) /\ BreakSteps # <<>> /\ Head(BreakSteps) = first
        /\ Tail(BreakSteps) \in Seq(Certain)
    BY RuleNames DEF BreakSteps, Semicolon, Certain, Delimiters, Exceptions, AlwaysGive
  <2> QED
    BY <2>1, Started
<1>4. Fresh(Return)
  <2> DEFINE first == Start({"return"})
  <2>1. Return \in Seq({first} \cup Certain) /\ Return # <<>> /\ Head(Return) = first
        /\ Tail(Return) \in Seq(Certain)
    BY RuleNames DEF Return, Semicolon, Certain, Delimiters, Exceptions, AlwaysGive
  <2> QED
    BY <2>1, Started
<1>5. Fresh(VariableDeclarationSteps)
  <2>1. Semicolon \in Certain /\ TypedAssignment \in Seq(Certain)
    BY RuleNames DEF TypedAssignment, Semicolon, Certain, Delimiters, Exceptions, AlwaysGive
  <2>2. VariableDeclarationSteps = Between(Start({"let"}), Digest, TypedAssignment, Semicolon)
    BY DEF Between, VariableDeclarationSteps
  <2> QED
    BY <2>1, <2>2, StartedBetween
<1>6. Fresh(CodeBlockSteps)
  <2> DEFINE first == Start({"{"})
  <2>1. CodeBlockSteps \in Seq({first} \cup Certain) /\ CodeBlockSteps # <<>> /\ Head(CodeBlockSteps) = first
        /\ Tail(CodeBlockSteps) \in Seq(Certain)
    BY RuleNames DEF CodeBlockSteps, Semicolon, Certain, Delimiters, Exceptions, AlwaysGive
  <2> QED
    BY <2>1, Started
<1>7. Fresh(IfStatementSteps)
  <2>1. Want("ElseIfs") \in Certain /\ Conditional \in Seq(Certain)
    BY RuleNames DEF Conditional, Semicolon, Certain, Delimiters, Exceptions, AlwaysGive
  <2>2. IfStatementSteps = Between(Start({"if"}), Digest, Conditional, Want("ElseIfs"))
    BY DEF Between, IfStatementSteps
  <2> QED
    BY <2>1, <2>2, StartedBetween
<1>8. Fresh(ForLoopSteps)
  <2> DEFINE first == Start({"for"})
  <2>1. ForLoopSteps \in Seq({first} \cup Certain) /\ ForLoopSteps # <<>> /\ Head(ForLoopSteps) = first
        /\ Tail(ForLoopSteps) \in Seq(Certain)
    BY RuleNames DEF ForLoopSteps, Semicolon, Certain, Delimiters, Exceptions, AlwaysGive
  <2> QED
    BY <2>1, Started
<1>9. Fresh(AssignedExpression)
  <2> DEFINE first == Start({"="})
  <2>1. AssignedExpression \in Seq({first} \cup Certain) /\ AssignedExpression # <<>> /\ Head(AssignedExpression) = first
        /\ Tail(AssignedExpression) \in Seq(Certain)
    BY RuleNames DEF AssignedExpression, Semicolon, Certain, Delimiters, Exceptions, AlwaysGive
  <2> QED
    BY <2>1, Started
<1>10. Fresh(Condition)
  <2> DEFINE first == Start({"("})
  <2>1. Condition \in Seq({first} \cup Certain) /\ Condition # <<>> /\ Head(Condition) = first
        /\ Tail(Condition) \in Seq(Certain)
    BY RuleNames DEF Condition, Semicolon, Certain, Delimiters, Exceptions, AlwaysGive
  <2> QED
    BY <2>1, Started
<1>11. Fresh(LiteralSteps)
  <2> DEFINE first == Start(LiteralTypes)
  <2>1. LiteralSteps \in Seq({first} \cup Certain) /\ LiteralSteps # <<>> /\ Head(LiteralSteps) = first
        /\ Tail(LiteralSteps) \in Seq(Certain)
    BY RuleNames DEF LiteralSteps, Semicolon, Certain, Delimiters, Exceptions, AlwaysGive
  <2> QED
    BY <2>1, Started
<1>12. Fresh(IdentifierSteps)
  <2> DEFINE first == Start({"IDENTIFIER"})
  <2>1. IdentifierSteps \in Seq({first} \cup Certain) /\ IdentifierSteps # <<>> /\ Head(IdentifierSteps) = first
        /\ Tail(IdentifierSteps) \in Seq(Certain)
    BY RuleNames DEF IdentifierSteps, Semicolon, Certain, Delimiters, Exceptions, AlwaysGive
  <2> QED
    BY <2>1, Started
<1>13. Fresh(ParenExpr)
  <2> DEFINE first == Start({"("})
  <2>1. ParenExpr \in Seq({first} \cup Certain) /\ ParenExpr # <<>> /\ Head(ParenExpr) = first
        /\ Tail(ParenExpr) \in Seq(Certain)
    BY RuleNames DEF ParenExpr, Semicolon, Certain, Delimiters, Exceptions, AlwaysGive
  <2> QED
    BY <2>1, Started
<1> QED
  BY <1>1, <1>2, <1>3, <1>4, <1>5, <1>6, <1>7, <1>8, <1>9, <1>10, <1>11, <1>12, <1>13 DEF Steps
(* ... that begins with a call, for what it cannot do without.               *)
LEMMA Called ==
  ASSUME NEW S, \A s \in S : Sure(s), NEW rule \in Rules \ {"Condition"},
         NEW q, IsSeq(q), q # <<>>, Head(q) = Want(rule), Tail(q) \in Seq(S)
  PROVE  Fresh(q)
BY SureAll, WantsFresh

LEMMA CallingRules ==
  /\ Fresh(Steps["FunctionDefinition"]) /\ Fresh(Steps["FunctionCall"])
  /\ Fresh(Steps["TypeCast"]) /\ Fresh(Steps["LoopVarDeclaration"])
<1>1. Fresh(FunctionDefinitionSteps)
  <2> DEFINE q == FunctionDefinitionSteps
  <2>1. /\ IsSeq(q) /\ q # <<>> /\ Head(q) = Want("FunctionSignature") /\ Tail(q) \in Seq(Certain)
        /\ "FunctionSignature" \in Rules \ {"Condition"}
    BY RuleNames, SeqPair DEF FunctionDefinitionSteps, Certain, Exceptions
  <2> QED
    BY <2>1, CertainIsSure, Called
<1>2. Fresh(FunctionCallSteps)
  <2> DEFINE q == FunctionCallSteps
  <2>1. /\ IsSeq(q) /\ q # <<>> /\ Head(q) = Want("Primary") /\ Tail(q) \in Seq(Certain)
        /\ "Primary" \in Rules \ {"Condition"}
    BY RuleNames, SeqPair DEF FunctionCallSteps, Certain
  <2> QED
    BY <2>1, CertainIsSure, Called
<1>3. Fresh(TypeCastSteps)
  <2> DEFINE q == TypeCastSteps
             yes == <<Digest, Demand("Type", "ExpectedTypeForTypeCast")>>
             no == <<>>
             cast == Choose({"as"}, yes, no)
  <2>1. yes \in Seq(Certain) /\ no \in Seq(Certain)
    BY RuleNames DEF Certain, Exceptions
  <2>2. /\ IsSeq(q) /\ q # <<>> /\ Head(q) = Want("Unary") /\ Tail(q) = <<cast>>
        /\ "Unary" \in Rules \ {"Condition"}
    BY RuleNames, SeqPair DEF TypeCastSteps
  <2> HIDE DEF yes, no
  <2>3. Sure(cast)
    BY <2>1, CertainIsSure, SureChoose
  <2> HIDE DEF cast, q
  <2>4. <<cast>> \in Seq({cast}) /\ \A s \in {cast} : Sure(s)
    BY <2>3
  <2>5. Fresh(q)
    <3>1. Tail(q) \in Seq({cast})
      BY <2>2, <2>4
    <3> QED
      BY <2>2, <2>4, <3>1, Called
  <2> QED
    BY <2>5 DEF q
<1>4. Fresh(TypedAssignment)
  <2>1. TypedAssignment \in Seq(Certain)
    BY RuleNames DEF TypedAssignment, Certain, Exceptions
  <2> QED
    BY <2>1, CertainSteps, SureIsFresh
<1> QED
  BY <1>1, <1>2, <1>3, <1>4 DEF Steps

(* Operands and operators.                                                   *)
LEMMA OperatorsAreFresh ==
  ASSUME NEW sub \in Rules \ {"Condition"}, NEW types, NEW exception \in Exceptions
  PROVE  Fresh(Chained(sub, types, exception)) /\ Fresh(Single(sub, types, exception))
<1> DEFINE right == <<Keep, Demand(sub, exception), Combine>>
           none == <<>>
           loop == While(types, right)
           once == Choose(types, right, none)
           chained == Chained(sub, types, exception)
           single == Single(sub, types, exception)
<1>1. right \in Seq(Certain) /\ none \in Seq(Certain)
  BY DEF Certain
<1>2. /\ IsSeq(chained) /\ chained # <<>> /\ Head(chained) = Want(sub) /\ Tail(chained) = <<loop>>
      /\ IsSeq(single) /\ single # <<>> /\ Head(single) = Want(sub) /\ Tail(single) = <<once>>
  BY SeqPair DEF Chained, Single
<1> HIDE DEF right, none, chained, single
<1>3. Sure(loop) /\ Sure(once)
  BY <1>1, CertainIsSure, SureWhile, SureChoose
<1> HIDE DEF loop, once
<1>4. Tail(chained) \in Seq({loop}) /\ Tail(single) \in Seq({once})
  <2>1. <<loop>> \in Seq({loop}) /\ <<once>> \in Seq({once})
    OBVIOUS
  <2> QED
    BY <1>2, <2>1
<1>5. (\A s \in {loop} : Sure(s)) /\ \A s \in {once} : Sure(s)
  BY <1>3
<1>6. Fresh(chained)
  BY <1>2, <1>4, <1>5, Called
<1>7. Fresh(single)
  BY <1>2, <1>4, <1>5, Called
<1> QED
  BY <1>6, <1>7 DEF chained, single

LEMMA OperatorRules ==
  \A rule \in {"Expression", "LogicalAnd", "Equality", "Comparison", "Additive", "Multiplicative",
               "Composition"} : Fresh(Steps[rule])
<1>1. {"LogicalAnd", "Equality", "Comparison", "Additive", "Multiplicative", "TypeCast", "BindFrontOrCall"}
        \subseteq Rules \ {"Condition"}
  BY RuleNames
<1>2. {"ExpectedExprAfterOr", "ExpectedExprAfterAnd", "ExpectedExprAfterEquality",
       "ExpectedExprAfterComparison", "ExpectedExprAfterAdditive", "ExpectedExprAfterMultiplicative",
       "ExpectedExprAfterFuncComp"} \subseteq Exceptions
  BY DEF Exceptions
<1>3. /\ Fresh(Expression) /\ Fresh(LogicalAnd) /\ Fresh(Equality) /\ Fresh(Comparison) /\ Fresh(Additive)
      /\ Fresh(Multiplicative) /\ Fresh(Composition)
  BY <1>1, <1>2, OperatorsAreFresh
     DEF Expression, LogicalAnd, Equality, Comparison, Additive, Multiplicative, Composition
<1> QED
  BY <1>3 DEF Steps

(* ... lists in parentheses.                                                 *)
List(item, exception) == Call(item, <<While({","}, <<Digest, Demand(item, exception)>>)>>, <<>>)

LEMMA ListIsSure == ASSUME NEW item \in Rules, NEW exception \in Exceptions PROVE Sure(List(item, exception))
<1> DEFINE more == <<Digest, Demand(item, exception)>>
           loop == While({","}, more)
           yes == <<loop>>
           no == <<>>
<1>1. more \in Seq(Certain)
  BY DEF Certain
<1>2. Sure(loop)
  <2> HIDE DEF more
  <2> QED
    BY <1>1, CertainIsSure, SureWhile
<1> HIDE DEF loop
<1>3. yes \in Seq({loop}) /\ no \in Seq({loop})
  OBVIOUS
<1>4. \A s \in {loop} : Sure(s)
  BY <1>2
<1> HIDE DEF yes, no
<1>5. Sure(Call(item, yes, no))
  BY <1>3, <1>4, SureCall
<1> QED
  BY <1>5 DEF List, yes, no, loop, more

LEMMA ListsAreFresh ==
  ASSUME NEW item \in Rules, NEW exception \in Exceptions, NEW q,
         q = <<Start({"("}), Digest, List(item, exception), Advance(")", "ExpectedRParen")>>
  PROVE  Fresh(q)
<1> DEFINE items == List(item, exception)
           first == Start({"("})
           last == Advance(")", "ExpectedRParen")
<1>1. Digest \in Certain /\ last \in Certain
  <2>1. "ExpectedRParen" \in Exceptions /\ ")" \in Delimiters
    BY DEF Exceptions, Delimiters
  <2> QED
    BY <2>1 DEF Certain
<1>2. Sure(items)
  BY ListIsSure
<1>3. q = <<first, Digest, items, last>>
  OBVIOUS
<1> HIDE DEF items, first, last
<1>4. /\ q \in Seq({first, items} \cup Certain) /\ q # <<>> /\ Head(q) = first
      /\ Tail(q) \in Seq({items} \cup Certain)
  BY <1>1, <1>3
<1>5. \A s \in {items} \cup Certain : Sure(s)
  BY <1>2, CertainIsSure
<1>6. Fresh(Tail(q)) /\ IsSeq(q)
  <2> DEFINE S == {items} \cup Certain
  <2>1. Tail(q) \in Seq(S) /\ \A s \in S : Sure(s)
    BY <1>4, <1>5
  <2> HIDE DEF S
  <2>2. SureSteps(Tail(q))
    BY <2>1, SureAll
  <2> QED
    BY <1>4, <2>2, SureIsFresh DEF IsSeq
<1> QED
  BY <1>4, <1>6, StartsFresh DEF first

LEMMA ListRules == Fresh(Steps["FunctionParams"]) /\ Fresh(Steps["ArgumentList"])
<1>1. {"TypedIdentifier", "Expression"} \subseteq Rules /\ {"ExpectedTypedIdentifier", "ExpectedExpr"} \subseteq Exceptions
  BY RuleNames DEF Exceptions
<1>2. Fresh(FunctionParams)
  BY <1>1, ListsAreFresh DEF FunctionParams, List
<1>3. Fresh(ArgumentList)
  BY <1>1, ListsAreFresh DEF ArgumentList, List
<1> QED
  BY <1>2, <1>3 DEF Steps
(* ... alternatives.                                                         *)
LEMMA OneBefore ==
  ASSUME NEW x, NEW r, IsSeq(r), NEW q, q = <<x>> \o r
  PROVE  IsSeq(q) /\ q # <<>> /\ Head(q) = x /\ Tail(q) = r
<1> DEFINE one == <<x>>
<1>1. IsSeq(one) /\ Len(one) = 1 /\ one[1] = x /\ q = one \o r
  BY SeqSingle
<1> HIDE DEF one
<1>2. /\ IsSeq(q) /\ Len(q) = Len(one) + Len(r) /\ Len(r) \in Nat
      /\ \A i \in 1..Len(q) : q[i] = IF i <= Len(one) THEN one[i] ELSE r[i - Len(one)]
  <2>1. Len(r) \in Nat
    BY SeqParts
  <2>2. IsSeq(one \o r) /\ Len(one \o r) = Len(one) + Len(r)
    BY <1>1, SeqConcat
  <2>3. \A i \in 1..Len(one \o r) : (one \o r)[i] = IF i <= Len(one) THEN one[i] ELSE r[i - Len(one)]
    BY <1>1, SeqConcat
  <2> QED
    BY <1>1, <2>1, <2>2, <2>3
<1>3. Len(q) = 1 + Len(r) /\ 1 \in 1..Len(q)
  BY <1>1, <1>2
<1>4. q[1] = x /\ q # <<>>
  BY <1>1, <1>2, <1>3, SeqParts
<1>5. /\ IsSeq(Tail(q)) /\ Len(Tail(q)) = Len(r) /\ Head(q) = x
      /\ \A i \in 1..Len(Tail(q)) : Tail(q)[i] = q[i + 1]
  <2>1. IsSeq(Tail(q)) /\ Len(Tail(q)) = Len(q) - 1 /\ Head(q) = q[1]
    BY <1>2, <1>4, SeqTail
  <2>2. \A i \in 1..Len(Tail(q)) : Tail(q)[i] = q[i + 1]
    BY <1>2, <1>4, SeqTail
  <2> QED
    BY <1>2, <1>3, <1>4, <2>1, <2>2
<1>6. \A i \in 1..Len(r) : Tail(q)[i] = r[i]
  <2> SUFFICES ASSUME NEW i \in 1..Len(r) PROVE Tail(q)[i] = r[i]
    OBVIOUS
  <2>1. i + 1 \in 1..Len(q) /\ ~(i + 1 <= 1) /\ i + 1 - 1 = i /\ i \in 1..Len(Tail(q))
    BY <1>2, <1>3, <1>5
  <2> QED
    BY <1>1, <1>2, <1>5, <2>1
<1>7. Tail(q) = r
  <2> DEFINE t == Tail(q)
  <2>1. IsSeq(t) /\ Len(t) = Len(r) /\ \A i \in 1..Len(r) : t[i] = r[i]
    BY <1>5, <1>6
  <2> HIDE DEF t
  <2>2. PICK S, T : t \in Seq(S) /\ r \in Seq(T)
    BY <2>1 DEF IsSeq
  <2>3. t \in Seq(S \cup T) /\ r \in Seq(S \cup T)
    BY <2>2
  <2>4. t = r
    BY <2>1, <2>3, SeqEqual
  <2> QED
    BY <2>4 DEF t
<1> QED
  BY <1>2, <1>4, <1>5, <1>7

LEMMA ChoosesFresh ==
  ASSUME NEW types, NEW yes, NEW no, NEW r, IsSeq(yes), IsSeq(no),
         Fresh(yes \o r), Fresh(no \o r),
         NEW q, IsSeq(q), q # <<>>, Head(q) = Choose(types, yes, no), Tail(q) = r
  PROVE  Fresh(q)
<1>1. Head(q).op = "choose" /\ Head(q).yes = yes /\ Head(q).no = no
  BY DEF Choose
<1> QED
  BY <1>1, FreshFrom

LEMMA CallsFresh ==
  ASSUME NEW rule \in Rules \ {"Condition"}, NEW yes, NEW no, NEW r, IsSeq(yes), IsSeq(no),
         SureSteps(yes \o r), Fresh(no \o r),
         NEW q, IsSeq(q), q # <<>>, Head(q) = Call(rule, yes, no), Tail(q) = r
  PROVE  Fresh(q)
<1>1. Head(q).op = "call" /\ Head(q).rule = rule /\ Head(q).yes = yes /\ Head(q).no = no
  BY DEF Call
<1> QED
  BY <1>1, FreshFrom

LEMMA OneWanted ==
  ASSUME NEW rule \in Rules \ {"Condition"}
  PROVE  Fresh(<<Want(rule)>>) /\ IsSeq(<<Want(rule)>>)
<1> DEFINE w == Want(rule)
           q == <<w>>
<1>1. IsSeq(q) /\ q # <<>> /\ Head(q) = w /\ Tail(q) = <<>> /\ <<>> \in Seq(Certain)
  BY SeqSingle
<1> HIDE DEF q
<1>2. Fresh(q)
  BY <1>1, CertainIsSure, Called
<1> QED
  BY <1>1, <1>2 DEF q

LEMMA EmptyAfter == ASSUME NEW r, IsSeq(r) PROVE r \o <<>> = r
<1>1. PICK S : r \in Seq(S)
  BY DEF IsSeq
<1> QED
  BY <1>1, ConcatEmptySeq

LEMMA EitherOr ==
  ASSUME NEW types, NEW yes \in Seq(Certain), NEW rule \in Rules \ {"Condition"}, NEW called \in Rules \ {"Condition"}
  PROVE  Fresh(<<Choose(types, yes, <<Want(rule)>>)>>) /\ Fresh(<<Call(called, yes, <<Want(rule)>>)>>)
<1> DEFINE no == <<Want(rule)>>
           c == Choose(types, yes, no)
           d == Call(called, yes, no)
           q == <<c>>
           p == <<d>>
           r == <<>>
<1>1. IsSeq(q) /\ q # <<>> /\ Head(q) = c /\ Tail(q) = r
  BY SeqSingle
<1>2. IsSeq(p) /\ p # <<>> /\ Head(p) = d /\ Tail(p) = r
  BY SeqSingle
<1>3. Fresh(no) /\ IsSeq(no)
  BY OneWanted
<1>4. SureSteps(yes) /\ Fresh(yes) /\ IsSeq(yes)
  BY CertainSteps, SureIsFresh DEF IsSeq
<1> HIDE DEF q, p, no
<1>5. yes \o r = yes /\ no \o r = no
  BY <1>3, <1>4, EmptyAfter
<1> HIDE DEF r
<1>6. Fresh(q)
  BY <1>1, <1>3, <1>4, <1>5, ChoosesFresh
<1>7. Fresh(p)
  BY <1>2, <1>3, <1>4, <1>5, CallsFresh
<1> QED
  BY <1>6, <1>7 DEF q, p, no
LEMMA AlternativeRules ==
  /\ Fresh(Steps["FunctionParamType"]) /\ Fresh(Steps["Unary"]) /\ Fresh(Steps["BindFrontOrCall"])
<1>1. {"Type", "Composition", "FunctionCall", "ArgumentList"} \subseteq Rules \ {"Condition"}
      /\ {"ExpectedType", "ExpectedExprAfterUnary"} \subseteq Exceptions
  BY RuleNames DEF Exceptions
<1>2. Fresh(FunctionParamType)
  <2> DEFINE yes == <<Keep, Demand("Type", "ExpectedType")>>
  <2>1. yes \in Seq(Certain)
    BY <1>1 DEF Certain
  <2> HIDE DEF yes
  <2> DEFINE wanted == Want("Type")
             no == <<wanted>>
             first == Choose({"mut"}, yes, no)
             rest == <<MakeVariableType>>
             q == FunctionParamType
             other == no \o rest
  <2>2. rest \in Seq(Certain)
    BY DEF Certain
  <2>3. q = <<first, MakeVariableType>>
    BY DEF FunctionParamType, yes
  <2>4. IsSeq(q) /\ q # <<>> /\ Head(q) = first /\ Tail(q) = rest
    <3> HIDE DEF q, first
    <3> QED
      BY <2>3, SeqPair
  <2>5. IsSeq(no)
    BY SeqSingle
  <2>6. SureSteps(rest) /\ IsSeq(rest)
    BY <2>2, CertainSteps DEF IsSeq
  <2> HIDE DEF rest, q, first
  <2>7. Fresh(yes \o rest) /\ IsSeq(yes)
    <3>1. yes \o rest \in Seq(Certain)
      BY <2>1, <2>2, ConcatProperties
    <3> QED
      BY <2>1, <3>1, CertainSteps, SureIsFresh DEF IsSeq
  <2>8. Fresh(other)
    <3> HIDE DEF wanted
    <3>1. IsSeq(other) /\ other # <<>> /\ Head(other) = wanted /\ Tail(other) = rest
      BY <2>6, OneBefore
    <3> HIDE DEF other
    <3> QED
      BY <1>1, <2>6, <3>1, WantsFresh DEF wanted
  <2> HIDE DEF no
  <2>9. Fresh(q)
    BY <2>4, <2>5, <2>7, <2>8, ChoosesFresh DEF first
  <2> QED
    BY <2>9 DEF q
<1>3. Fresh(UnarySteps)
  <2> DEFINE yes == <<Keep, Demand("Composition", "ExpectedExprAfterUnary")>>
  <2>1. yes \in Seq(Certain)
    BY <1>1 DEF Certain
  <2> HIDE DEF yes
  <2>2. Fresh(<<Choose({"not", "-"}, yes, <<Want("Composition")>>)>>)
    BY <1>1, <2>1, EitherOr
  <2> QED
    BY <2>2 DEF UnarySteps, yes
<1>4. Fresh(BindFrontOrCall)
  <2> DEFINE yes == <<BindOrCall>>
  <2>1. yes \in Seq(Certain)
    BY DEF Certain
  <2> HIDE DEF yes
  <2>2. Fresh(<<Call("ArgumentList", yes, <<Want("FunctionCall")>>)>>)
    BY <1>1, <2>1, EitherOr
  <2> QED
    BY <2>2 DEF BindFrontOrCall, yes
<1> QED
  BY <1>2, <1>3, <1>4 DEF Steps

(* ... types and names with a type.                                          *)
LEMMA TypeRules == Fresh(Steps["Type"]) /\ Fresh(Steps["TypedIdentifier"])
<1>1. Fresh(Type)
  <2> DEFINE first == Start(DOMAIN ScalarTypes \cup {"function"})
             yes == <<Digest, Want("FunctionTypeInfo")>>
             no == <<Keep>>
             second == Choose({"function"}, yes, no)
             rest == <<second>>
             q == Type
  <2>1. yes \in Seq(Certain) /\ no \in Seq(Certain)
    BY DEF Certain, AlwaysGive
  <2>2. q = <<first, second>>
    BY DEF Type
  <2> HIDE DEF q, first, yes, no
  <2>3. Sure(second)
    BY <2>1, CertainIsSure, SureChoose
  <2> HIDE DEF second
  <2>4. rest \in Seq({second}) /\ \A s \in {second} : Sure(s)
    BY <2>3
  <2>5. IsSeq(q) /\ q # <<>> /\ Head(q) = first /\ Tail(q) = rest
    BY <2>2, SeqPair
  <2> HIDE DEF rest
  <2>6. Fresh(rest)
    BY <2>4, SureAll, SureIsFresh
  <2>7. Fresh(q)
    BY <2>5, <2>6, StartsFresh DEF first
  <2> QED
    BY <2>7 DEF q
<1>2. Fresh(TypedIdentifier)
  <2> DEFINE start == Start({"IDENTIFIER"})
             yes == <<Keep, MustBe("IDENTIFIER", "ExpectedIdentifier")>>
             no == <<start>>
             first == Choose({"mut"}, yes, no)
             rest == <<Keep, Advance(":", "ExpectedCol"), Demand("Type", "ExpectedType"), MakeVariableType>>
             q == TypedIdentifier
             other == no \o rest
  <2>1. yes \in Seq(Certain) /\ rest \in Seq(Certain)
    BY RuleNames DEF Certain, Delimiters, Exceptions
  <2>2. q \in Seq({first} \cup Certain) /\ q # <<>> /\ Head(q) = first /\ Tail(q) = rest
    BY RuleNames DEF TypedIdentifier, Certain, Delimiters, Exceptions
  <2>3. IsSeq(no)
    BY SeqSingle
  <2> HIDE DEF q, yes, rest, first, start
  <2>4. Fresh(yes \o rest) /\ IsSeq(yes)
    <3>1. yes \o rest \in Seq(Certain)
      BY <2>1, ConcatProperties
    <3> QED
      BY <2>1, <3>1, CertainSteps, SureIsFresh DEF IsSeq
  <2>5. Fresh(other)
    <3>1. IsSeq(rest) /\ Fresh(rest)
      BY <2>1, CertainSteps, SureIsFresh DEF IsSeq
    <3>2. IsSeq(other) /\ other # <<>> /\ Head(other) = start /\ Tail(other) = rest
      BY <3>1, OneBefore
    <3> HIDE DEF other
    <3> QED
      BY <3>1, <3>2, StartsFresh DEF start
  <2>6. IsSeq(q)
    BY <2>2 DEF IsSeq
  <2> HIDE DEF no
  <2>7. Fresh(q)
    BY <2>2, <2>3, <2>4, <2>5, <2>6, ChoosesFresh DEF first
  <2> QED
    BY <2>7 DEF q
<1> QED
  BY <1>1, <1>2 DEF Steps

(* ... statements and primary expressions.                                   *)
LEMMA ElseSteps ==
  ASSUME NEW q, NEW rule \in Rules \ {"Condition"}, NEW p, Fresh(p), IsSeq(q), q # <<>>,
         Head(q) = Else(rule), Tail(q) = p
  PROVE  Fresh(q)
BY ElseFresh

LEMMA StatementRules ==
  /\ Fresh(Steps["Statement"]) /\ Fresh(Steps["Primary"]) /\ Fresh(Steps["AssignmentOrExpression"])
<1>1. {"Continue", "Break", "Return", "VariableDeclaration", "CodeBlock", "IfStatement", "ForLoop",
       "AssignmentOrExpression", "ParenExpr", "Literal", "Identifier", "Expression"}
         \subseteq Rules \ {"Condition"}
  BY RuleNames
<1> DEFINE E == {Else(rule) : rule \in Rules \ {"Condition"}} \cup {Want(rule) : rule \in Rules \ {"Condition"}}
<1>2. \A rule \in Rules \ {"Condition"} : Else(rule) \in E /\ Want(rule) \in E
  OBVIOUS
<1> HIDE DEF E
<1>3. Fresh(Statement)
  <2> DEFINE last == <<Want("AssignmentOrExpression")>>
             s7 == <<Else("ForLoop"), Want("AssignmentOrExpression")>>
             s6 == <<Else("IfStatement"), Else("ForLoop"), Want("AssignmentOrExpression")>>
             s5 == <<Else("CodeBlock"), Else("IfStatement"), Else("ForLoop"), Want("AssignmentOrExpression")>>
             s4 == <<Else("VariableDeclaration"), Else("CodeBlock"), Else("IfStatement"), Else("ForLoop"),
                     Want("AssignmentOrExpression")>>
             s3 == <<Else("Return"), Else("VariableDeclaration"), Else("CodeBlock"), Else("IfStatement"),
                     Else("ForLoop"), Want("AssignmentOrExpression")>>
             s2 == <<Else("Break"), Else("Return"), Else("VariableDeclaration"), Else("CodeBlock"),
                     Else("IfStatement"), Else("ForLoop"), Want("AssignmentOrExpression")>>
  <2>1. Fresh(last)
    BY <1>1, OneWanted
  <2>2. s7 \in Seq(E) /\ s7 # <<>> /\ Head(s7) = Else("ForLoop") /\ Tail(s7) = last
    BY <1>1, <1>2
  <2>3. s6 \in Seq(E) /\ s6 # <<>> /\ Head(s6) = Else("IfStatement") /\ Tail(s6) = s7
    BY <1>1, <1>2
  <2>4. s5 \in Seq(E) /\ s5 # <<>> /\ Head(s5) = Else("CodeBlock") /\ Tail(s5) = s6
    BY <1>1, <1>2
  <2>5. s4 \in Seq(E) /\ s4 # <<>> /\ Head(s4) = Else("VariableDeclaration") /\ Tail(s4) = s5
    BY <1>1, <1>2
  <2>6. s3 \in Seq(E) /\ s3 # <<>> /\ Head(s3) = Else("Return") /\ Tail(s3) = s4
    BY <1>1, <1>2
  <2>7. s2 \in Seq(E) /\ s2 # <<>> /\ Head(s2) = Else("Break") /\ Tail(s2) = s3
    BY <1>1, <1>2
  <2>8. Statement \in Seq(E) /\ Statement # <<>> /\ Head(Statement) = Else("Continue") /\ Tail(Statement) = s2
    BY <1>1, <1>2 DEF Statement
  <2> HIDE DEF last, s7, s6, s5, s4, s3, s2
  <2>9. Fresh(s7)
    BY <1>1, <2>1, <2>2, ElseSteps DEF IsSeq
  <2>10. Fresh(s6)
    BY <1>1, <2>3, <2>9, ElseSteps DEF IsSeq
  <2>11. Fresh(s5)
    BY <1>1, <2>4, <2>10, ElseSteps DEF IsSeq
  <2>12. Fresh(s4)
    BY <1>1, <2>5, <2>11, ElseSteps DEF IsSeq
  <2>13. Fresh(s3)
    BY <1>1, <2>6, <2>12, ElseSteps DEF IsSeq
  <2>14. Fresh(s2)
    BY <1>1, <2>7, <2>13, ElseSteps DEF IsSeq
  <2> QED
    BY <1>1, <2>8, <2>14, ElseSteps DEF IsSeq
<1>4. Fresh(Primary)
  <2> DEFINE last == <<Want("Identifier")>>
             s2 == <<Else("Literal"), Want("Identifier")>>
  <2>1. Fresh(last)
    BY <1>1, OneWanted
  <2>2. s2 \in Seq(E) /\ s2 # <<>> /\ Head(s2) = Else("Literal") /\ Tail(s2) = last
    BY <1>1, <1>2
  <2>3. Primary \in Seq(E) /\ Primary # <<>> /\ Head(Primary) = Else("ParenExpr") /\ Tail(Primary) = s2
    BY <1>1, <1>2 DEF Primary
  <2> HIDE DEF last, s2
  <2>4. Fresh(s2)
    BY <1>1, <2>1, <2>2, ElseSteps DEF IsSeq
  <2> QED
    BY <1>1, <2>3, <2>4, ElseSteps DEF IsSeq
<1>5. Fresh(AssignmentOrExpression)
  <2> DEFINE first == Want("Expression")
             yes == <<CheckTarget, Try("AssignedExpression")>>
             no == <<>>
             assigned == Choose({"="}, yes, no)
             s == <<first, assigned, Semicolon>>
             q == AssignmentOrExpression
  <2>1. yes \in Seq(Certain) /\ no \in Seq(Certain) /\ Semicolon \in Certain
    BY RuleNames DEF Certain, Delimiters, Exceptions, Semicolon
  <2>2. q = <<NoteTarget, first, assigned, Semicolon>>
    BY DEF AssignmentOrExpression
  <2> HIDE DEF yes, no
  <2>3. Sure(assigned)
    BY <2>1, CertainIsSure, SureChoose
  <2> HIDE DEF assigned, first, q
  <2>4. /\ s \in Seq({first, assigned} \cup Certain) /\ s # <<>> /\ Head(s) = first
        /\ Tail(s) \in Seq({assigned} \cup Certain)
    BY <2>1
  <2>5. q \in Seq({NoteTarget, first, assigned} \cup Certain) /\ q # <<>> /\ Head(q) = NoteTarget /\ Tail(q) = s
    BY <2>1, <2>2
  <2> HIDE DEF s
  <2>6. Fresh(s)
    <3> DEFINE S == {assigned} \cup Certain
    <3>1. (\A x \in S : Sure(x)) /\ Tail(s) \in Seq(S) /\ IsSeq(s)
      BY <2>3, <2>4, CertainIsSure DEF IsSeq
    <3> HIDE DEF S
    <3> QED
      BY <1>1, <2>4, <3>1, Called DEF first
  <2>7. Fresh(q)
    <3>1. Head(q).op = "noteTarget" /\ IsSeq(q)
      BY <2>5 DEF NoteTarget, IsSeq
    <3> QED
      BY <2>5, <2>6, <3>1, FreshFrom
  <2> QED
    BY <2>7 DEF q
<1> QED
  BY <1>3, <1>4, <1>5 DEF Steps

(* The first thing that is used of a rule.                                   *)
LEMMA RulesAreFresh == \A rule \in Rules : Fresh(Steps[rule])
BY RuleNames, AlwaysGiveIsSure, SureIsFresh, StartingRules, CallingRules, OperatorRules, ListRules,
   AlternativeRules, TypeRules, StatementRules DEF AlwaysGive
-----------------------------------------------------------------------------
(* The stack: what a call in progress may rely on of its caller.             *)
IsFrame(f, n) == DOMAIN f = {"rule", "at", "todo", "got"} /\ f.rule \in Rules /\ f.at \in 1..(n + 1)

(* The function may give nothing only if it has taken nothing.               *)
MayGoOn(f) == SureSteps(f.todo) \/ (~awaiting /\ f.at = Len(tokens) /\ Fresh(f.todo))

(* The same of a caller, as long as what it called has taken nothing.        *)
Calling(caller, callee) ==
  /\ caller.todo # <<>> /\ Head(caller.todo).op \in {"call", "every"}
  /\ SureSteps(caller.todo) \/ (caller.at = callee.at /\ Fresh(caller.todo))
  /\ Head(caller.todo).rule \in AlwaysGive => SureSteps(callee.todo) /\ callee.rule # "Condition"
  /\ callee.rule = "Condition" => SureSteps(caller.todo)

Outermost(f) ==
  f.rule = "Program" /\ f.todo \in {Program, Tail(Program), <<>>, <<Throw("ExpectedFuncOrEOF")>>}

AreCalls(s, n) ==
  /\ IsSeq(s) /\ s # <<>>
  /\ \A i \in 1..Len(s) : IsFrame(s[i], n)
  /\ \A i \in 1..(Len(s) - 1) : Calling(s[i + 1], s[i])
  /\ Outermost(s[Len(s)])

TokensOK ==
  /\ tokens \in Seq(Tokens) /\ feed \in Feeds /\ awaiting \in BOOLEAN
  /\ ~awaiting => tokens # <<>> /\ (Ahead.type = "COMMENT" => Len(tokens) = 1)

IInv ==
  /\ AreCalls(stack, Len(tokens)) /\ MayGoOn(stack[1])
  /\ TokensOK
  /\ status \in Exceptions \cup {"running", "parsed"}

LEMMA OutermostSteps ==
  ASSUME NEW f, Outermost(f), f.todo # <<>>
  PROVE  /\ Head(f.todo).op \in {"every", "choose", "throw"}
         /\ Head(f.todo).op = "every" => f.todo = Program
         /\ Head(f.todo).op = "choose" =>
              /\ Head(f.todo).yes \o Tail(f.todo) = <<>>
              /\ Head(f.todo).no \o Tail(f.todo) = <<Throw("ExpectedFuncOrEOF")>>
<1> DEFINE thrown == <<Throw("ExpectedFuncOrEOF")>>
           must == MustBe("EOF", "ExpectedFuncOrEOF")
<1>1. Head(Program).op = "every" /\ Tail(Program) = <<must>>
  BY DEF Program, Every
<1>2. must.op = "choose" /\ must.yes = <<>> /\ must.no = thrown
  BY DEF MustBe, Choose
<1>3. Head(<<must>>) = must /\ Tail(<<must>>) = <<>> /\ Head(thrown).op = "throw"
  BY DEF Throw
<1>4. <<>> \o <<>> = <<>> /\ thrown \o <<>> = thrown
  <2>1. IsSeq(<<>>) /\ IsSeq(thrown)
    <3>1. <<>> \in Seq({thrown})
      OBVIOUS
    <3>2. IsSeq(<<>>)
      BY <3>1 DEF IsSeq
    <3> QED
      BY <3>2, SeqSingle
  <2> HIDE DEF thrown
  <2> QED
    BY <2>1, EmptyAfter
<1> HIDE DEF must, thrown
<1>5. CASE f.todo = Program
  BY <1>1, <1>5
<1>6. CASE f.todo = <<must>>
  BY <1>2, <1>3, <1>4, <1>6 DEF thrown
<1>7. CASE f.todo = thrown
  BY <1>3, <1>7
<1> QED
  BY <1>1, <1>5, <1>6, <1>7 DEF Outermost, thrown

LEMMA CallsOnTop ==
  ASSUME NEW s, NEW n, AreCalls(s, n)
  PROVE  /\ Len(s) \in Nat /\ Len(s) > 0 /\ Head(s) = s[1] /\ IsFrame(s[1], n)
         /\ IsSeq(Tail(s)) /\ Len(Tail(s)) = Len(s) - 1
         /\ \A i \in 1..(Len(s) - 1) : Tail(s)[i] = s[i + 1]
         /\ Len(s) = 1 => Outermost(s[1])
         /\ Len(s) > 1 => Calling(s[2], s[1]) /\ IsFrame(s[2], n)
<1>1. IsSeq(s) /\ s # <<>>
  BY DEF AreCalls
<1>2. Len(s) \in Nat /\ Len(s) > 0
  BY <1>1, SeqParts
<1>3. IsSeq(Tail(s)) /\ Len(Tail(s)) = Len(s) - 1 /\ Head(s) = s[1]
  BY <1>1, SeqTail
<1>4. \A i \in 1..(Len(s) - 1) : Tail(s)[i] = s[i + 1]
  BY <1>1, <1>3, SeqTail
<1>5. 1 \in 1..Len(s) /\ (Len(s) > 1 => 2 \in 1..Len(s) /\ 1 \in 1..(Len(s) - 1) /\ 1 + 1 = 2)
  BY <1>2
<1> QED
  BY <1>2, <1>3, <1>4, <1>5 DEF AreCalls

OnTop(f, s) == <<f>> \o s

(* The function on top goes on.                                              *)
LEMMA TopChanged ==
  ASSUME NEW s, NEW n, AreCalls(s, n), NEW f, IsFrame(f, n),
         f.at = s[1].at, f.rule \in {s[1].rule, "FunctionCall"},
         SureSteps(s[1].todo) => SureSteps(f.todo), Len(s) = 1 => Outermost(f),
         NEW t, t = OnTop(f, Tail(s))
  PROVE  AreCalls(t, n) /\ t[1] = f
<1> DEFINE r == Tail(s)
<1>1. /\ Len(s) \in Nat /\ Len(s) > 0 /\ IsSeq(r) /\ Len(r) = Len(s) - 1
      /\ \A i \in 1..(Len(s) - 1) : r[i] = s[i + 1]
  BY CallsOnTop
<1>2. t = <<f>> \o r
  BY DEF OnTop
<1> HIDE DEF r
<1>3. IsSeq(t) /\ t # <<>> /\ Head(t) = f /\ Tail(t) = r
  BY <1>1, <1>2, OneBefore
<1>4. /\ t[1] = f /\ Len(t) = Len(s)
      /\ \A i \in 1..Len(r) : t[i + 1] = r[i]
  <2>1. Len(Tail(t)) = Len(t) - 1 /\ Head(t) = t[1] /\ Len(t) \in Nat
    BY <1>3, SeqTail, SeqParts
  <2>2. \A i \in 1..Len(Tail(t)) : Tail(t)[i] = t[i + 1]
    BY <1>3, SeqTail
  <2> QED
    BY <1>1, <1>3, <2>1, <2>2
<1>5. \A i \in 2..Len(s) : t[i] = s[i]
  <2> SUFFICES ASSUME NEW i \in 2..Len(s) PROVE t[i] = s[i]
    OBVIOUS
  <2>1. i - 1 \in 1..Len(r) /\ i - 1 \in 1..(Len(s) - 1) /\ i - 1 + 1 = i
    BY <1>1
  <2> QED
    BY <1>1, <1>4, <2>1
<1>6. \A i \in 1..Len(t) : IsFrame(t[i], n)
  <2>1. \A i \in 1..Len(t) : i = 1 \/ i \in 2..Len(s)
    BY <1>1, <1>4
  <2>2. \A i \in 2..Len(s) : IsFrame(s[i], n)
    BY <1>1 DEF AreCalls
  <2> QED
    BY <1>4, <1>5, <2>1, <2>2
<1>7. \A i \in 1..(Len(t) - 1) : Calling(t[i + 1], t[i])
  <2> SUFFICES ASSUME NEW i \in 1..(Len(t) - 1) PROVE Calling(t[i + 1], t[i])
    OBVIOUS
  <2>1. i \in 1..(Len(s) - 1) /\ i + 1 \in 2..Len(s) /\ (i = 1 \/ i \in 2..Len(s))
    BY <1>1, <1>4
  <2>2. Calling(s[i + 1], s[i]) /\ t[i + 1] = s[i + 1]
    BY <1>5, <2>1 DEF AreCalls
  <2>3. CASE i = 1
    <3>1. Calling(s[i + 1], f)
      BY <2>2, <2>3 DEF Calling
    <3> QED
      BY <1>4, <2>2, <2>3, <3>1
  <2> QED
    BY <1>5, <2>1, <2>2, <2>3
<1>8. Outermost(t[Len(t)])
  <2>1. CASE Len(s) = 1
    BY <1>4, <2>1
  <2>2. CASE Len(s) # 1
    <3>1. Len(s) \in 2..Len(s)
      BY <1>1, <2>2
    <3> QED
      BY <1>4, <1>5, <3>1 DEF AreCalls
  <2> QED
    BY <2>1, <2>2
<1> QED
  BY <1>3, <1>4, <1>6, <1>7, <1>8 DEF AreCalls

(* A function is called.                                                     *)
LEMMA TopPushed ==
  ASSUME NEW s, NEW n, AreCalls(s, n), NEW f, IsFrame(f, n), Calling(s[1], f), NEW t, t = OnTop(f, s)
  PROVE  AreCalls(t, n) /\ t[1] = f
<1>1. IsSeq(s) /\ Len(s) \in Nat /\ Len(s) > 0
  BY CallsOnTop DEF AreCalls
<1>2. IsSeq(t) /\ t # <<>> /\ Head(t) = f /\ Tail(t) = s
  BY <1>1, OneBefore DEF OnTop
<1>3. t[1] = f /\ Len(t) = Len(s) + 1 /\ \A i \in 1..Len(s) : t[i + 1] = s[i]
  <2>1. Len(Tail(t)) = Len(t) - 1 /\ Head(t) = t[1] /\ Len(t) \in Nat
    BY <1>2, SeqTail, SeqParts
  <2>2. \A i \in 1..Len(Tail(t)) : Tail(t)[i] = t[i + 1]
    BY <1>2, SeqTail
  <2>3. t[1] = f /\ Len(s) = Len(t) - 1
    BY <1>2, <2>1
  <2>4. \A i \in 1..Len(s) : s[i] = t[i + 1]
    BY <1>2, <2>2
  <2> QED
    BY <1>1, <2>1, <2>3, <2>4
<1>4. \A i \in 2..Len(t) : i - 1 \in 1..Len(s) /\ t[i] = s[i - 1]
  <2> SUFFICES ASSUME NEW i \in 2..Len(t) PROVE i - 1 \in 1..Len(s) /\ t[i] = s[i - 1]
    OBVIOUS
  <2>1. i - 1 \in 1..Len(s) /\ i - 1 + 1 = i
    BY <1>1, <1>3
  <2> QED
    BY <1>3, <2>1
<1>5. \A i \in 1..Len(t) : IsFrame(t[i], n)
  <2>1. \A i \in 1..Len(t) : i = 1 \/ i \in 2..Len(t)
    BY <1>1, <1>3
  <2> QED
    BY <1>3, <1>4, <2>1 DEF AreCalls
<1>6. \A i \in 1..(Len(t) - 1) : Calling(t[i + 1], t[i])
  <2> SUFFICES ASSUME NEW i \in 1..(Len(t) - 1) PROVE Calling(t[i + 1], t[i])
    OBVIOUS
  <2>1. i \in 1..Len(s) /\ t[i + 1] = s[i]
    BY <1>1, <1>3
  <2>2. CASE i = 1
    BY <1>3, <2>1, <2>2
  <2>3. CASE i # 1
    <3>1. i \in 2..Len(t) /\ i - 1 \in 1..(Len(s) - 1) /\ i - 1 + 1 = i
      BY <1>1, <1>3, <2>1, <2>3
    <3>2. Calling(s[i - 1 + 1], s[i - 1])
      BY <3>1 DEF AreCalls
    <3> QED
      BY <1>4, <2>1, <3>1, <3>2
  <2> QED
    BY <2>2, <2>3
<1>7. Outermost(t[Len(t)])
  <2>1. Len(s) \in 1..Len(s) /\ t[Len(s) + 1] = s[Len(s)]
    BY <1>1, <1>3
  <2> QED
    BY <1>3, <2>1 DEF AreCalls
<1> QED
  BY <1>2, <1>3, <1>5, <1>6, <1>7 DEF AreCalls

(* A function is over.                                                       *)
LEMMA TopDropped ==
  ASSUME NEW s, NEW n, AreCalls(s, n), Len(s) > 1
  PROVE  AreCalls(Tail(s), n) /\ Tail(s)[1] = s[2]
<1> DEFINE t == Tail(s)
<1>1. /\ Len(s) \in Nat /\ IsSeq(t) /\ Len(t) = Len(s) - 1
      /\ \A i \in 1..(Len(s) - 1) : t[i] = s[i + 1]
  BY CallsOnTop
<1> HIDE DEF t
<1>2. t # <<>> /\ t[1] = s[2]
  BY <1>1, SeqParts
<1>3. \A i \in 1..Len(t) : IsFrame(t[i], n)
  BY <1>1 DEF AreCalls
<1>4. \A i \in 1..(Len(t) - 1) : Calling(t[i + 1], t[i])
  <2> SUFFICES ASSUME NEW i \in 1..(Len(t) - 1) PROVE Calling(t[i + 1], t[i])
    OBVIOUS
  <2>1. i + 1 \in 1..(Len(s) - 1) /\ i \in 1..(Len(s) - 1)
    BY <1>1
  <2> QED
    BY <1>1, <2>1 DEF AreCalls
<1>5. Outermost(t[Len(t)])
  <2>1. Len(t) \in 1..(Len(s) - 1) /\ Len(t) + 1 = Len(s)
    BY <1>1
  <2> QED
    BY <1>1, <2>1 DEF AreCalls
<1>6. AreCalls(t, n)
  BY <1>1, <1>2, <1>3, <1>4, <1>5 DEF AreCalls
<1> QED
  BY <1>2, <1>6 DEF t
(* The function on top does what it has to do next.                          *)
LEMMA GoesOn ==
  ASSUME IInv, NEW todo, NEW got, Goes(todo, got), awaiting' \in BOOLEAN, ~awaiting' => ~awaiting,
         SureSteps(Current.todo) => SureSteps(todo),
         Len(stack) = 1 => todo \in {Program, Tail(Program), <<>>, <<Throw("ExpectedFuncOrEOF")>>},
         SureSteps(todo) \/ (~awaiting' /\ Current.at = Len(tokens) /\ Fresh(todo))
  PROVE  IInv'
<1> DEFINE f == [Current EXCEPT !.todo = todo, !.got = got]
           n == Len(tokens)
<1>1. AreCalls(stack, n) /\ Current = stack[1] /\ IsFrame(Current, n) /\ (Len(stack) = 1 => Outermost(Current))
  BY CallsOnTop DEF IInv, Current
<1>2. DOMAIN f = DOMAIN Current /\ f.rule = Current.rule /\ f.at = Current.at /\ f.todo = todo
  BY <1>1 DEF IsFrame
<1>3. stack' = OnTop(f, Tail(stack))
  BY DEF Goes, OnTop
<1> HIDE DEF f
<1>4. IsFrame(f, n) /\ (Len(stack) = 1 => Outermost(f))
  BY <1>1, <1>2 DEF IsFrame, Outermost
<1> HIDE DEF n
<1>5. AreCalls(stack', n) /\ stack'[1] = f
  <2>1. /\ f.at = stack[1].at /\ f.rule \in {stack[1].rule, "FunctionCall"}
        /\ SureSteps(stack[1].todo) => SureSteps(f.todo)
    BY <1>1, <1>2
  <2> QED
    BY <1>1, <1>3, <1>4, <2>1, TopChanged
<1>6. MayGoOn(stack[1])'
  BY <1>2, <1>5 DEF MayGoOn, Goes
<1>7. AreCalls(stack, Len(tokens))'
  BY <1>5 DEF Goes, n
<1>8. TokensOK'
  BY DEF TokensOK, IInv, Goes, Ahead
<1> QED
  BY <1>6, <1>7, <1>8 DEF IInv, Goes

(* What the function on top has to do next.                                  *)
LEMMA DoesNext ==
  ASSUME IInv, NEW op, Does(op)
  PROVE  /\ Current = stack[1] /\ Current.todo # <<>> /\ Step = Head(Current.todo) /\ Step.op = op
         /\ IsSeq(Current.todo) /\ Fresh(Current.todo)
         /\ SureSteps(Current.todo) =>
              /\ Sure(Step) /\ WellFormed(Step)
              /\ op # "break" => SureSteps(Rest)
         /\ ~SureSteps(Current.todo) => Current.at = Len(tokens)
         /\ Len(stack) = 1 => Outermost(Current)
         /\ ~awaiting /\ tokens # <<>> /\ tokens \in Seq(Tokens) /\ status = "running"
<1>1. Current = stack[1] /\ (Len(stack) = 1 => Outermost(Current))
  BY CallsOnTop DEF IInv, Current
<1>2. Current.todo # <<>> /\ Step = Head(Current.todo) /\ Step.op = op /\ ~awaiting /\ status = "running"
  BY DEF Does, Step
<1>3. tokens # <<>> /\ tokens \in Seq(Tokens)
  BY <1>2 DEF IInv, TokensOK
<1>4. SureSteps(Current.todo) \/ (Current.at = Len(tokens) /\ Fresh(Current.todo))
  BY <1>1 DEF IInv, MayGoOn
<1>5. SureSteps(Current.todo) =>
        Sure(Step) /\ WellFormed(Step) /\ (op # "break" => SureSteps(Rest)) /\ IsSeq(Current.todo) /\ Fresh(Current.todo)
  BY <1>2, SureHead, SureParts, SureIsFresh DEF Rest, SureSteps
<1>6. ~SureSteps(Current.todo) => IsSeq(Current.todo)
  BY <1>4, FreshParts
<1> QED
  BY <1>1, <1>2, <1>3, <1>4, <1>5, <1>6
-----------------------------------------------------------------------------
LEMMA Inner ==
  ASSUME IInv, NEW op, Does(op), op \notin {"every", "choose", "throw"}
  PROVE  Len(stack) # 1
<1>1. Current.todo # <<>> /\ Head(Current.todo).op = op
  BY DoesNext
<1>2. Len(stack) = 1 => Outermost(Current)
  BY DoesNext
<1> QED
  BY <1>1, <1>2, OutermostSteps

(* The invariant is kept: the steps that read and test tokens.               *)
LEMMA TokensTaken == ASSUME IInv, DigestToken \/ KeepToken PROVE IInv'
<1>1. PICK op, got : op \in {"digest", "keep"} /\ Does(op) /\ awaiting' = TRUE /\ Goes(Rest, got)
  BY Zenon DEF DigestToken, KeepToken
<1>2. SureSteps(Current.todo)
  BY <1>1, DoesNext, FreshParts
<1>3. Len(stack) # 1
  BY <1>1, Inner
<1>4. SureSteps(Rest)
  BY <1>1, <1>2, DoesNext
<1> QED
  BY <1>1, <1>2, <1>3, <1>4, GoesOn

LEMMA TokenTested == ASSUME IInv, TestToken PROVE IInv'
<1> DEFINE yes == Step.yes \o Rest
           no == Step.no \o Rest
<1>1. PICK todo \in {yes, no} : Goes(todo, Current.got) /\ awaiting' = awaiting
  BY DEF TestToken
<1>2. Does("choose")
  BY DEF TestToken
<1>3. /\ Current.todo # <<>> /\ Step = Head(Current.todo) /\ Step.op = "choose" /\ Fresh(Current.todo)
      /\ ~awaiting /\ Rest = Tail(Current.todo)
  BY <1>2, DoesNext DEF Rest
<1>4. SureSteps(Current.todo) => SureSteps(yes) /\ SureSteps(no)
  <2> SUFFICES ASSUME SureSteps(Current.todo) PROVE SureSteps(yes) /\ SureSteps(no)
    OBVIOUS
  <2>1. Sure(Step) /\ SureSteps(Rest)
    BY <1>2, DoesNext
  <2> QED
    BY <1>3, <2>1, Follows
<1>5. ~SureSteps(Current.todo) => Current.at = Len(tokens) /\ Fresh(yes) /\ Fresh(no)
  BY <1>2, <1>3, DoesNext, FreshParts
<1>6. Len(stack) = 1 => {yes, no} \subseteq {<<>>, <<Throw("ExpectedFuncOrEOF")>>}
  BY <1>2, <1>3, DoesNext, OutermostSteps
<1> HIDE DEF yes, no
<1>7. /\ SureSteps(Current.todo) => SureSteps(todo)
      /\ SureSteps(todo) \/ (Current.at = Len(tokens) /\ Fresh(todo))
  BY <1>1, <1>4, <1>5
<1>8. awaiting' \in BOOLEAN
  BY <1>1 DEF IInv, TokensOK
<1> QED
  BY <1>1, <1>3, <1>6, <1>7, <1>8, GoesOn

LEMMA LoopTested == ASSUME IInv, TestLoop PROVE IInv'
<1> DEFINE again == Step.body \o Current.todo
<1>1. PICK todo \in {again, Rest} : Goes(todo, Current.got) /\ awaiting' = awaiting
  BY DEF TestLoop
<1>2. Does("while")
  BY DEF TestLoop
<1>3. SureSteps(Current.todo) /\ Step.op = "while" /\ ~awaiting
  BY <1>2, DoesNext, FreshParts
<1>4. Len(stack) # 1
  BY <1>2, Inner
<1>5. Sure(Step) /\ SureSteps(Rest)
  BY <1>2, <1>3, DoesNext
<1>6. SureSteps(again)
  BY <1>3, <1>5, Follows
<1> HIDE DEF again
<1>7. SureSteps(todo)
  BY <1>1, <1>5, <1>6
<1>8. awaiting' \in BOOLEAN
  BY <1>1 DEF IInv, TokensOK
<1> QED
  BY <1>1, <1>3, <1>4, <1>7, <1>8, GoesOn

LEMMA LoopBroken == ASSUME IInv, BreakLoop PROVE IInv'
<1>1. Does("break") /\ Goes(<<>>, Current.got) /\ awaiting' = awaiting
  BY DEF BreakLoop
<1>2. Len(stack) # 1 /\ ~awaiting
  BY <1>1, DoesNext, Inner
<1>3. SureSteps(<<>>)
  <2>1. <<>> \in Seq({})
    OBVIOUS
  <2>2. IsSeq(<<>>)
    BY <2>1 DEF IsSeq
  <2> QED
    BY <2>2, SureAtOnce
<1>4. awaiting' \in BOOLEAN
  BY <1>1 DEF IInv, TokensOK
<1> QED
  BY <1>1, <1>2, <1>3, <1>4, GoesOn

LEMMA Failed ==
  ASSUME IInv, NEW exception \in Exceptions, Fails(exception)
  PROVE  IInv'
BY DEF IInv, Fails, TokensOK, MayGoOn, Ahead

LEMMA ExceptionThrown == ASSUME IInv, ThrowException PROVE IInv'
<1>1. Does("throw") /\ Fails(Step.exception)
  BY DEF ThrowException
<1>2. SureSteps(Current.todo) /\ Step.op = "throw"
  BY <1>1, DoesNext, FreshParts
<1>3. WellFormed(Step)
  BY <1>1, <1>2, DoesNext
<1>4. Step.exception \in Exceptions
  BY <1>2, <1>3 DEF WellFormed
<1> QED
  BY <1>1, <1>4, Failed

(* The lexer gives a token.                                                  *)
LEMMA TokenReceived == ASSUME IInv, LexerGives PROVE IInv'
<1>1. PICK next \in Gives(feed) : Receive(next[1]) /\ feed' = next[2]
  BY DEF LexerGives
<1>2. feed \in Feeds /\ tokens \in Seq(Tokens)
  BY DEF IInv, TokensOK
<1>3. next[1] \in Tokens /\ next[2] \in Feeds
  BY <1>1, <1>2, LexerGivesTokens
<1> DEFINE t == next[1]
<1> HIDE DEF t
<1>4. /\ awaiting /\ tokens' = Append(tokens, t) /\ awaiting' = (t.type = "COMMENT" /\ tokens # <<>>)
      /\ UNCHANGED <<stack, program, status>>
  BY <1>1 DEF Receive, t
<1>5. /\ tokens' \in Seq(Tokens) /\ Len(tokens') = Len(tokens) + 1 /\ tokens' # <<>> /\ Len(tokens) \in Nat
      /\ tokens'[Len(tokens')] = t /\ (tokens = <<>> => Len(tokens') = 1)
  BY <1>2, <1>3, <1>4 DEF t
<1>6. TokensOK'
  <2>1. (Ahead)' = t
    BY <1>5 DEF Ahead, Last
  <2> QED
    BY <1>1, <1>3, <1>4, <1>5, <2>1 DEF TokensOK
<1>7. SureSteps(stack[1].todo)
  BY <1>4 DEF IInv, MayGoOn
<1>8. AreCalls(stack, Len(tokens'))
  BY <1>5 DEF IInv, AreCalls, IsFrame
<1> QED
  BY <1>4, <1>6, <1>7, <1>8 DEF IInv, MayGoOn
(* A function is called: it has not taken any token.                         *)
LEMMA FunctionCalled == ASSUME IInv, CallFunction PROVE IInv'
<1> DEFINE rule == Step.rule
           f == Entered(rule)
<1>1. PICK op \in {"call", "every"} : Does(op)
  BY DEF CallFunction
<1>2. stack' = OnTop(f, stack) /\ UNCHANGED <<feed, tokens, awaiting, program, status>>
  BY DEF CallFunction, OnTop
<1>3. /\ Current = stack[1] /\ Current.todo # <<>> /\ Step = Head(Current.todo) /\ Step.op = op
      /\ Fresh(Current.todo) /\ ~awaiting /\ tokens # <<>> /\ tokens \in Seq(Tokens)
  BY <1>1, DoesNext
<1>4. /\ DOMAIN f = {"rule", "at", "todo", "got"}
      /\ f.rule = rule /\ f.at = Len(tokens) /\ f.todo = Steps[rule]
  BY DEF Entered
<1> HIDE DEF f
<1>5. rule \in Rules /\ (rule = "Condition" => SureSteps(Current.todo))
  <2>1. CASE SureSteps(Current.todo)
    <3>1. WellFormed(Step)
      BY <1>1, <2>1, DoesNext
    <3> QED
      BY <1>3, <2>1, <3>1 DEF WellFormed
  <2>2. CASE ~SureSteps(Current.todo)
    <3>1. Step.op = "call"
      BY <1>1, <1>3, <2>2, FreshParts
    <3> QED
      BY <1>3, <2>2, <3>1, FreshParts
  <2> QED
    BY <2>1, <2>2
<1>6. ~SureSteps(Current.todo) => Current.at = Len(tokens)
  BY <1>1, DoesNext
<1> HIDE DEF rule
<1>7. rule \in AlwaysGive => SureSteps(f.todo) /\ f.rule # "Condition"
  BY <1>4, AlwaysGiveIsSure DEF AlwaysGive
<1>8. Calling(stack[1], f)
  BY <1>1, <1>3, <1>4, <1>5, <1>6, <1>7 DEF Calling, rule
<1>9. IsFrame(f, Len(tokens))
  BY <1>3, <1>4, <1>5 DEF IsFrame
<1>10. AreCalls(stack, Len(tokens))
  BY DEF IInv
<1>11. AreCalls(stack', Len(tokens)) /\ stack'[1] = f
  <2> DEFINE n == Len(tokens)
  <2> HIDE DEF n
  <2>1. AreCalls(stack, n) /\ IsFrame(f, n)
    BY <1>9, <1>10 DEF n
  <2>2. AreCalls(stack', n) /\ stack'[1] = f
    BY <1>2, <1>8, <2>1, TopPushed
  <2> QED
    BY <2>2 DEF n
<1>12. Fresh(f.todo)
  BY <1>4, <1>5, RulesAreFresh
<1>13. MayGoOn(stack[1])'
  BY <1>2, <1>3, <1>4, <1>11, <1>12 DEF MayGoOn
<1>14. TokensOK'
  BY <1>2 DEF IInv, TokensOK, Ahead
<1> QED
  BY <1>2, <1>11, <1>13, <1>14 DEF IInv

(* What the caller does with the answer.                                     *)
AnswerOf(a, caller, n, given) ==
  /\ IsFrame(a, n) /\ a.rule = caller.rule /\ a.at = caller.at
  /\ Head(caller.todo).op = "every" => a.todo = IF given THEN caller.todo ELSE Tail(caller.todo)
  /\ Head(caller.todo).op = "call" =>
       a.todo = (IF given THEN Head(caller.todo).yes ELSE Head(caller.todo).no) \o Tail(caller.todo)

LEMMA AnsweredFrame ==
  ASSUME NEW caller, NEW n, IsFrame(caller, n), NEW result, Head(caller.todo).op \in {"call", "every"}
  PROVE  AnswerOf(Answered(caller, result), caller, n, result # <<>>)
<1> DEFINE a == Answered(caller, result)
<1>1. DOMAIN a = {"rule", "at", "todo", "got"} /\ a.rule = caller.rule /\ a.at = caller.at
  BY DEF IsFrame, Answered
<1>2. IsFrame(a, n)
  BY <1>1 DEF IsFrame
<1>3. Head(caller.todo).op = "every" => a.todo = IF result # <<>> THEN caller.todo ELSE Tail(caller.todo)
  BY DEF IsFrame, Answered
<1>4. Head(caller.todo).op = "call" =>
        a.todo = (IF result # <<>> THEN Head(caller.todo).yes ELSE Head(caller.todo).no) \o Tail(caller.todo)
  BY DEF IsFrame, Answered
<1> HIDE DEF a
<1>5. AnswerOf(a, caller, n, result # <<>>)
  BY <1>1, <1>2, <1>3, <1>4 DEF AnswerOf
<1> QED
  BY <1>5 DEF a

(* A function gives back: nothing, only if the caller may go on without it.  *)
LEMMA GoesBack ==
  ASSUME IInv, NEW result, GivesBack(result), Len(stack) > 1, ~awaiting,
         result = <<>> =>
           /\ Head(stack[2].todo).rule \notin AlwaysGive
           /\ SureSteps(stack[2].todo) \/ stack[2].at = Len(tokens)
  PROVE  IInv'
<1> DEFINE n == Len(tokens)
           caller == stack[2]
           a == Answered(caller, result)
           step == Head(caller.todo)
           rest == Tail(caller.todo)
           below == Tail(stack)
<1>1. Calling(caller, stack[1]) /\ IsFrame(caller, n)
  BY CallsOnTop DEF IInv
<1>2. AreCalls(below, n) /\ below[1] = caller
  BY TopDropped DEF IInv
<1>3. stack' = OnTop(a, Tail(below)) /\ UNCHANGED <<feed, tokens, awaiting, program, status>>
  BY DEF GivesBack, OnTop
<1>4. caller.todo # <<>> /\ step.op \in {"call", "every"} /\ Fresh(caller.todo)
  BY <1>1, SureIsFresh DEF Calling
<1> HIDE DEF a
<1>5. /\ IsFrame(a, n) /\ a.rule = caller.rule /\ a.at = caller.at
      /\ step.op = "every" => a.todo = IF result # <<>> THEN caller.todo ELSE rest
      /\ step.op = "call" => a.todo = (IF result # <<>> THEN step.yes ELSE step.no) \o rest
  <2>1. AnswerOf(a, caller, n, result # <<>>)
    BY <1>1, <1>4, AnsweredFrame DEF a
  <2> QED
    BY <2>1 DEF AnswerOf
<1>6. SureSteps(caller.todo) => SureSteps(a.todo)
  <2> SUFFICES ASSUME SureSteps(caller.todo) PROVE SureSteps(a.todo)
    OBVIOUS
  <2>1. Sure(step) /\ SureSteps(rest)
    BY <1>4, SureHead
  <2> HIDE DEF step, rest
  <2>2. CASE step.op = "every"
    BY <1>5, <2>1, <2>2
  <2>3. CASE step.op = "call" /\ result # <<>>
    <3>1. SureSteps(step.yes \o rest)
      BY <2>1, <2>3, Follows
    <3> QED
      BY <1>5, <2>3, <3>1
  <2>4. CASE step.op = "call" /\ result = <<>>
    <3>1. SureSteps(step.no \o rest)
      BY <2>1, <2>4, Follows DEF step
    <3> QED
      BY <1>5, <2>4, <3>1
  <2> QED
    BY <1>4, <2>2, <2>3, <2>4 DEF step
<1>7. ASSUME ~SureSteps(caller.todo)
      PROVE  SureSteps(a.todo) \/ (a.at = n /\ Fresh(a.todo))
  <2>1. step.op = "call" /\ SureSteps(step.yes \o rest) /\ Fresh(step.no \o rest)
    BY <1>4, <1>7, FreshParts
  <2>2. result = <<>> => a.at = n
    BY <1>5, <1>7
  <2> QED
    BY <1>5, <2>1, <2>2
<1>8. Len(below) = 1 => Outermost(a)
  <2> SUFFICES ASSUME Len(below) = 1 PROVE Outermost(a)
    OBVIOUS
  <2>1. Outermost(caller)
    BY <1>2, CallsOnTop
  <2>2. step.op = "every" /\ caller.todo = Program
    BY <1>4, <2>1, OutermostSteps
  <2>3. a.todo \in {Program, Tail(Program)}
    BY <1>5, <2>2
  <2> QED
    BY <1>5, <2>1, <2>3 DEF Outermost
<1> HIDE DEF n, below
<1>9. AreCalls(stack', n) /\ stack'[1] = a
  <2>1. a.at = below[1].at /\ a.rule \in {below[1].rule, "FunctionCall"} /\ (SureSteps(below[1].todo) => SureSteps(a.todo))
    BY <1>2, <1>5, <1>6
  <2> QED
    BY <1>2, <1>3, <1>5, <1>8, <2>1, TopChanged
<1> HIDE DEF caller
<1>10. MayGoOn(stack[1])'
  BY <1>3, <1>6, <1>7, <1>9 DEF MayGoOn, n
<1>11. TokensOK'
  BY <1>3 DEF IInv, TokensOK, Ahead
<1> QED
  BY <1>3, <1>9, <1>10, <1>11 DEF IInv, n

LEMMA NothingGiven == ASSUME IInv, GiveNothing PROVE IInv'
<1>1. Does("giveUp") /\ GivesBack(<<>>)
  BY DEF GiveNothing
<1>2. ~SureSteps(Current.todo)
  <2> SUFFICES ASSUME SureSteps(Current.todo) PROVE FALSE
    OBVIOUS
  <2>1. WellFormed(Step) /\ Step.op = "giveUp"
    BY <1>1, DoesNext
  <2> QED
    BY <2>1 DEF WellFormed, Ops
<1>3. Current = stack[1] /\ Current.at = Len(tokens) /\ ~awaiting
  BY <1>1, <1>2, DoesNext
<1>4. Len(stack) > 1
  <2>1. Len(stack) # 1
    BY <1>1, Inner
  <2>2. Len(stack) \in Nat /\ Len(stack) > 0
    BY CallsOnTop DEF IInv
  <2>3. \A k \in Nat : k # 1 /\ k > 0 => k > 1
    OBVIOUS
  <2> QED
    BY <2>1, <2>2, <2>3
<1>5. Calling(stack[2], stack[1])
  BY <1>4, CallsOnTop DEF IInv
<1>6. /\ Head(stack[2].todo).rule \notin AlwaysGive
      /\ SureSteps(stack[2].todo) \/ stack[2].at = Len(tokens)
  BY <1>2, <1>3, <1>5 DEF Calling
<1> QED
  BY <1>1, <1>3, <1>4, <1>6, GoesBack

LEMMA ResultGiven == ASSUME IInv, GiveResult PROVE IInv'
<1> DEFINE result == Result(Current.rule, Current.got)
<1>1. ~awaiting /\ Len(stack) > 1 /\ GivesBack(result)
  BY DEF GiveResult, Ended
<1>2. Current = stack[1] /\ Calling(stack[2], stack[1])
  BY <1>1, CallsOnTop DEF IInv, Current
<1>3. result = <<>> => Current.rule = "Condition"
  BY DEF Result
<1> HIDE DEF result
<1>4. result = <<>> =>
        /\ Head(stack[2].todo).rule \notin AlwaysGive
        /\ SureSteps(stack[2].todo) \/ stack[2].at = Len(tokens)
  BY <1>2, <1>3 DEF Calling
<1> QED
  BY <1>1, <1>4, GoesBack

LEMMA ProgramGiven == ASSUME IInv, GiveProgram PROVE IInv'
BY DEF IInv, GiveProgram, TokensOK, MayGoOn, Ahead
LEMMA OperandsCombined == ASSUME IInv, CombineOperands PROVE IInv'
<1>1. PICK got : Does("combine") /\ Goes(Rest, got) /\ awaiting' = awaiting
  BY DEF CombineOperands
<1>2. SureSteps(Current.todo) /\ Len(stack) # 1 /\ ~awaiting
  BY <1>1, DoesNext, FreshParts, Inner
<1>3. SureSteps(Rest) /\ awaiting' \in BOOLEAN
  BY <1>1, <1>2, DoesNext DEF IInv, TokensOK
<1> QED
  BY <1>1, <1>2, <1>3, GoesOn

LEMMA TargetNoted == ASSUME IInv, NoteTargetName PROVE IInv'
<1>1. PICK got : Does("noteTarget") /\ Goes(Rest, got) /\ awaiting' = awaiting
  BY DEF NoteTargetName
<1>2. Len(stack) # 1
  BY <1>1, Inner
<1>3. ~awaiting /\ awaiting' \in BOOLEAN
  BY <1>1, DoesNext DEF IInv, TokensOK
<1>4. SureSteps(Current.todo) => SureSteps(Rest)
  BY <1>1, DoesNext
<1>5. ~SureSteps(Current.todo) => Current.at = Len(tokens) /\ Fresh(Rest)
  <2>1. Step = Head(Current.todo) /\ Step.op = "noteTarget" /\ Fresh(Current.todo)
    BY <1>1, DoesNext
  <2>2. ~SureSteps(Current.todo) => Current.at = Len(tokens)
    BY <1>1, DoesNext
  <2> QED
    BY <2>1, <2>2, FreshParts DEF Rest
<1> QED
  BY <1>1, <1>2, <1>3, <1>4, <1>5, GoesOn

LEMMA TargetChecked == ASSUME IInv, CheckTargetKind PROVE IInv'
<1>1. Does("checkTarget")
  BY DEF CheckTargetKind
<1>2. SureSteps(Current.todo) /\ Len(stack) # 1 /\ ~awaiting
  BY <1>1, DoesNext, FreshParts, Inner
<1>3. SureSteps(Rest)
  BY <1>1, <1>2, DoesNext
<1>4. CASE Goes(Rest, Current.got) /\ awaiting' = awaiting
  <2>1. awaiting' \in BOOLEAN
    BY <1>4 DEF IInv, TokensOK
  <2> QED
    BY <1>2, <1>3, <1>4, <2>1, GoesOn
<1>5. CASE Fails("InvalidAssignTarget")
  BY <1>5, Failed DEF Exceptions
<1> QED
  BY <1>4, <1>5 DEF CheckTargetKind

LEMMA VariableTypeMade == ASSUME IInv, ConstructVariableType PROVE IInv'
<1>1. Does("makeVariableType")
  BY DEF ConstructVariableType
<1>2. SureSteps(Current.todo) /\ Len(stack) # 1 /\ ~awaiting
  BY <1>1, DoesNext, FreshParts, Inner
<1>3. SureSteps(Rest)
  BY <1>1, <1>2, DoesNext
<1>4. CASE Goes(Rest, Current.got) /\ awaiting' = awaiting
  <2>1. awaiting' \in BOOLEAN
    BY <1>4 DEF IInv, TokensOK
  <2> QED
    BY <1>2, <1>3, <1>4, <2>1, GoesOn
<1>5. CASE Fails("std::invalid_argument")
  BY <1>5, Failed DEF Exceptions
<1> QED
  BY <1>4, <1>5 DEF ConstructVariableType

LEMMA BoundOrCalled == ASSUME IInv, BindFrontOrFunctionCall PROVE IInv'
<1> DEFINE bound == <<Digest, Demand("FunctionCall", "ExpectedBindFrontTarget")>>
           lists == <<Every("ArgumentList")>>
           f(got) == [Current EXCEPT !.rule = "FunctionCall", !.todo = lists, !.got = got]
           n == Len(tokens)
<1>1. Does("bindOrCall")
  BY DEF BindFrontOrFunctionCall
<1>2. SureSteps(Current.todo) /\ Len(stack) # 1 /\ ~awaiting /\ Current = stack[1]
  BY <1>1, DoesNext, FreshParts, Inner
<1>3. SureSteps(bound) /\ SureSteps(lists)
  <2>1. {"FunctionCall", "ArgumentList"} \subseteq Rules /\ "ExpectedBindFrontTarget" \in Exceptions
    BY RuleNames DEF Exceptions
  <2>2. {Digest, Demand("FunctionCall", "ExpectedBindFrontTarget"), Every("ArgumentList")} \subseteq Certain
    BY <2>1 DEF Certain
  <2>3. bound \in Seq(Certain) /\ lists \in Seq(Certain)
    BY <2>2
  <2> QED
    BY <2>3, CertainSteps
<1> HIDE DEF bound, lists
<1>4. CASE Goes(bound, Current.got) /\ awaiting' = awaiting
  <2>1. awaiting' \in BOOLEAN
    BY <1>4 DEF IInv, TokensOK
  <2> QED
    BY <1>2, <1>3, <1>4, <2>1, GoesOn
<1>5. CASE Fails("ExpectedBindFrontOperator")
  BY <1>5, Failed DEF Exceptions
<1>6. ASSUME NEW got, stack' = <<f(got)>> \o Tail(stack), UNCHANGED <<feed, tokens, awaiting, program, status>>
      PROVE  IInv'
  <2> DEFINE g == f(got)
  <2>1. AreCalls(stack, n) /\ IsFrame(Current, n)
    BY <1>2, CallsOnTop DEF IInv
  <2>2. DOMAIN g = DOMAIN Current /\ g.rule = "FunctionCall" /\ g.at = Current.at /\ g.todo = lists
    BY <2>1 DEF IsFrame
  <2>3. stack' = OnTop(g, Tail(stack))
    BY <1>6 DEF OnTop
  <2> HIDE DEF f, g
  <2>4. IsFrame(g, n)
    BY <2>1, <2>2, RuleNames DEF IsFrame
  <2>5. g.at = stack[1].at /\ g.rule \in {stack[1].rule, "FunctionCall"} /\ (SureSteps(stack[1].todo) => SureSteps(g.todo))
    BY <1>2, <1>3, <2>2
  <2> HIDE DEF n
  <2>6. AreCalls(stack', n) /\ stack'[1] = g
    BY <1>2, <2>1, <2>3, <2>4, <2>5, TopChanged
  <2>7. MayGoOn(stack[1])'
    BY <1>3, <2>2, <2>6 DEF MayGoOn
  <2>8. TokensOK'
    BY <1>6 DEF IInv, TokensOK, Ahead
  <2> QED
    BY <1>6, <2>6, <2>7, <2>8 DEF IInv, n
<1> QED
  BY <1>4, <1>5, <1>6 DEF BindFrontOrFunctionCall, bound, lists

-----------------------------------------------------------------------------
(* The invariant holds at the start, and every step keeps it.                *)
LEMMA Initially == ASSUME Init PROVE IInv
<1> DEFINE f == [rule |-> "Program", at |-> 1, todo |-> Program, got |-> <<>>]
           n == Len(tokens)
<1>1. n = 0 /\ tokens \in Seq(Tokens) /\ feed \in Feeds /\ awaiting = TRUE /\ status = "running"
  BY LexerGivesTokens DEF Init
<1>2. DOMAIN f = {"rule", "at", "todo", "got"} /\ f.rule = "Program" /\ f.at = 1 /\ f.todo = Program
  OBVIOUS
<1>3. stack = <<f>>
  BY DEF Init
<1> HIDE DEF f
<1>4. IsFrame(f, n)
  BY <1>1, <1>2, RuleNames DEF IsFrame
<1>5. Outermost(f)
  BY <1>2 DEF Outermost
<1>6. IsSeq(stack) /\ Len(stack) = 1 /\ stack[1] = f /\ stack # <<>>
  BY <1>3, SeqSingle, SeqParts
<1>7. AreCalls(stack, n)
  BY <1>4, <1>5, <1>6 DEF AreCalls
<1>8. SureSteps(Program)
  <2>1. Steps["Program"] = Program
    BY DEF Steps
  <2> QED
    BY <2>1, AlwaysGiveIsSure DEF AlwaysGive
<1>9. MayGoOn(stack[1])
  BY <1>2, <1>6, <1>8 DEF MayGoOn
<1> QED
  BY <1>1, <1>7, <1>9 DEF IInv, TokensOK

LEMMA IInvIsKept == ASSUME IInv, [Next]_vars PROVE IInv'
<1>1. CASE UNCHANGED vars
  BY <1>1 DEF IInv, vars, TokensOK, MayGoOn, Ahead
<1>2. CASE Parse
  BY <1>2, TokensTaken, TokenTested, LoopTested, LoopBroken, ExceptionThrown, FunctionCalled, NothingGiven,
     ResultGiven, ProgramGiven, OperandsCombined, TargetNoted, TargetChecked, VariableTypeMade,
     BoundOrCalled DEF Parse
<1>3. CASE LexerGives
  BY <1>3, TokenReceived
<1> QED
  BY <1>1, <1>2, <1>3 DEF Next, Run, Stopped

(* Every call in progress but the outermost is one its caller waits for, and a *)
(* function that may still give nothing has taken no token.                  *)
THEOREM Invariance == Spec => []IInv
BY Initially, IInvIsKept, PTL DEF Spec

(* The token ahead is no comment but for the very first, the outermost call is *)
(* that of the program, and what is thrown is an exception of parser.cpp or   *)
(* that of the constructor of VariableType.                                 *)
THEOREM TypeCorrect == Spec => []TypeOK
<1>1. IInv => TypeOK
  <2> SUFFICES ASSUME IInv PROVE TypeOK
    OBVIOUS
  <2>1. /\ IsSeq(stack) /\ stack # <<>> /\ Outermost(stack[Len(stack)])
        /\ \A i \in 1..Len(stack) : IsFrame(stack[i], Len(tokens))
    BY DEF IInv, AreCalls
  <2>2. DOMAIN stack = 1..Len(stack)
    BY <2>1, SeqParts
  <2>3. Last(stack).rule = "Program"
    BY <2>1 DEF Last, Outermost
  <2>4. \A i \in DOMAIN stack : stack[i].rule \in DOMAIN Steps /\ stack[i].at \in 1..(Len(tokens) + 1)
    BY <2>1, <2>2 DEF IsFrame, Rules
  <2> QED
    BY <2>1, <2>3, <2>4 DEF TypeOK, IInv, TokensOK
<1> QED
  BY <1>1, Invariance, PTL

(* A function gives nothing only before it takes a token: the caller, that   *)
(* goes on as if it had not been called, loses nothing of the text           *)
(* (parser.cpp 9, 72-91, 157, 456, 462-471, 729-745).                        *)
THEOREM NothingIsLost == Spec => []NothingGivenNothingTaken
<1>1. IInv => NothingGivenNothingTaken
  <2> SUFFICES ASSUME IInv, Does("giveUp") PROVE Len(tokens) = Current.at
    BY DEF NothingGivenNothingTaken
  <2>1. ~SureSteps(Current.todo)
    <3> SUFFICES ASSUME SureSteps(Current.todo) PROVE FALSE
      OBVIOUS
    <3>1. WellFormed(Step) /\ Step.op = "giveUp"
      BY DoesNext
    <3> QED
      BY <3>1 DEF WellFormed, Ops
  <2> QED
    BY <2>1, DoesNext
<1> QED
  BY <1>1, Invariance, PTL
=============================================================================
