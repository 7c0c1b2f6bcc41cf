--------------------------- MODULE MCHigherOrder ---------------------------
(* Functions as values: every composition of two of them, and every          *)
(* binding, called with no argument, a temporary, a variable or two.         *)
EXTENDS MCPrograms

Bind(args, e) == BindFront(args, e)

(* f adds one to its argument; h adds two arguments and takes the first by   *)
(* reference when it is mutable; g gives nothing.                            *)
FunctionValues ==
  {V("f"), V("g"), V("h"), V("print"), I(3),
   Bind(<<I(1)>>, V("h")), Bind(<<V("x")>>, V("h")), Bind(<<V("y")>>, V("h")),
   Bind(<<I(1), I(2)>>, V("h")), Bind(<<I(1), I(2), I(3)>>, V("h")),
   Bind(<<T>>, V("h")), Bind(<<I(1)>>, I(2)), Bind(<<C("g", <<I(1)>>)>>, V("h"))}

Composed ==
  {Compose(a, b) : a, b \in FunctionValues} \cup
  {Compose(Compose(a, V("f")), b) : a, b \in {V("f"), V("h"), Bind(<<V("x")>>, V("h"))}} \cup
  {Bind(<<V("x")>>, Compose(V("h"), b)) : b \in {V("f"), V("g")}} \cup
  {Compose(V("input"), V("is_int"))}

Arguments == {<<>>, <<I(2)>>, <<V("x")>>, <<V("y"), I(2)>>}

(* The callee is evaluated before its argument; a bound variable is captured *)
(* by value, so that the later change of x does not show.                    *)
Program(e, args) ==
  <<Def("f", <<In("i", IntType)>>, IntType, <<Ret(Plus(V("i"), I(1)))>>),
    Def("g", <<In("i", IntType)>>, NoneType, <<Show(V("i"))>>),
    Def("h", <<InOut("i", IntType), In("j", IntType)>>, IntType, <<Ret(Plus(V("i"), V("j")))>>),
    Main(<<LetMut("x", IntType, I(1)), Let("y", IntType, I(4)),
           Show(FunctionCall(e, args)), Ret(V("x"))>>)>>

Later ==
  <<Def("h", <<In("i", IntType), In("j", IntType)>>, IntType, <<Ret(Plus(V("i"), V("j")))>>),
    Main(<<LetMut("x", IntType, I(1)),
           Let("y", FunctionType(<<VariableType(IntType, FALSE)>>, IntType), Bind(<<V("x")>>, V("h"))),
           Set("x", I(5)), Show(C("y", <<V("x")>>)), Ret(V("x"))>>)>>

(* g gives a function with a variable of its own bound, which changes and     *)
(* goes out of scope before the function is called.                         *)
IntToInt == FunctionType(<<VariableType(IntType, FALSE)>>, IntType)
Outliving ==
  <<Def("h", <<In("i", IntType), In("j", IntType)>>, IntType, <<Ret(Plus(V("i"), V("j")))>>),
    Def("g", <<InOut("i", IntType)>>, IntToInt,
        <<LetMut("x", IntType, Plus(V("i"), I(1))), Let("y", IntToInt, Bind(<<V("x")>>, V("h"))),
          Set("x", I(5)), Set("i", V("x")), Ret(V("y"))>>),
    Main(<<LetMut("x", IntType, I(1)), Let("f", IntToInt, C("g", <<V("x")>>)),
           Show(C("f", <<V("x")>>)), Show(FunctionCall(C("g", <<V("x")>>), <<V("x")>>)), Ret(V("x"))>>)>>

HigherOrder == {Program(e, args) : e \in Composed \cup FunctionValues, args \in Arguments} \cup {Later, Outliving}
=============================================================================
