----------------------------- MODULE MCControl -----------------------------
(* Loops and branches: every way to fill the holes of one program with       *)
(* statements that go on, leave the iteration, the loop or the function.     *)
EXTENDS MCPrograms

Plain == {<<>>, <<Inc("x")>>, <<Say("a")>>}
Leaving == {<<Inc("x")>>, <<BreakStatement>>, <<ContinueStatement>>, <<Ret(I(7))>>,
            <<Block(<<ContinueStatement>>), Say("b")>>}

AfterLoop == {<<>>, <<BreakStatement>>, <<ContinueStatement, Say("a")>>}

(* def f() -> int { let mut x: int = 0; for (i: int = 0; i < 2; i = i + 1)   *)
(*   { if (i == 0) { b } else if (x == 1) { c } else { d } e } h return x; }  *)
LoopWith(b, c, d, e, h) ==
  <<Def("f", <<>>, IntType,
        <<LetMut("x", IntType, I(0)),
          For("i", 2,
              <<IfStatement(Equals(V("i"), I(0)), Block(b), <<Elif(Equals(V("x"), I(1)), c)>>, <<Block(d)>>)>>
              \o e)>>
        \o h \o <<Ret(V("x"))>>),
    Main(<<Show(C("f", <<>>)), Ret(I(0))>>)>>

Control == {LoopWith(b, c, d, e, h) : b, c, d \in Leaving, e \in Plain, h \in AfterLoop}
=============================================================================
