----------------------------- MODULE MCFindings -----------------------------
(* One small program for each place where the interpreter departs from what  *)
(* its documentation, its comments or its tests say.                         *)
EXTENDS MCPrograms

(* for (i ...) { for (j ...) { } if (i == 1) { break; } }                    *)
InnerLoop ==
  {<<Main(<<For("i", 3, <<For("j", 1, <<>>), If(Equals(V("i"), I(1)), <<BreakStatement>>)>>), Ret(I(0))>>)>>}

(* if (false) { } else if (true) { b; nested } else { d }                    *)
Branches ==
  {<<Def("f", <<>>, NoneType, <<If(T, <<>>)>>),
     Main(<<IfStatement(Literal(Bool(FALSE)), Block(<<>>), <<Elif(T, <<Say("b"), nested>>)>>, <<Block(<<Say("d")>>)>>),
            Ret(I(0))>>)>>
     : nested \in {If(T, <<>>), For("i", 1, <<>>), Do(C("f", <<>>))}}

(* The else is for the case that "żaden z powyższych warunków nie został      *)
(* spełniony": none of the conditions above it was met                       *)
(* (docs/TKOM-dokumentacja-końcowa.md 210).                                  *)
BranchesAreExclusive == ~({"b", "d"} \subseteq ToSet(output))

(* (f & g)(3), where g declares a variable before its return.                *)
Composition ==
  {<<Def("f", <<In("x", IntType)>>, IntType, <<Ret(V("x"))>>),
     Def("g", <<In("x", IntType)>>, IntType, <<Let("y", IntType, Plus(V("x"), I(1))), Ret(V("y"))>>),
     Main(<<Show(FunctionCall(Compose(V("f"), V("g")), <<I(3)>>)), Ret(I(0))>>)>>}

(* "sum3_mul2(1, 2, 3) == mul2(sum3(1, 2, 3))": the second function is        *)
(* called, whole, on what the first gave (docs/TKOM-dokumentacja-końcowa.md  *)
(* 351).                                                                     *)
CompositionCallsBoth == status # "running" => status = "finished" /\ output = <<"4">>

(* A loop that calls a function with nothing but a break.                    *)
CalleeBreak ==
  {<<Def("f", <<>>, NoneType, <<BreakStatement>>), Main(<<For("i", 2, <<Do(C("f", <<>>))>>), Ret(I(0))>>)>>}
=============================================================================
