------------------------------ MODULE MCJumps ------------------------------
(* Returns, breaks and continues across calls, nested loops, branches and    *)
(* compositions, where flags for all calls and all loops are put to the test. *)
(* Some of these programs depart from the reference: the properties say      *)
(* what holds of every program, or until the moment it departs.              *)
EXTENDS MCPrograms

CallF == C("f", <<>>)

(* What a loop may do in an iteration; f and g may do the same in theirs, or *)
(* outside any loop.                                                        *)
Jumps == {<<BreakStatement>>, <<ContinueStatement>>, <<Ret(I(2))>>, <<Say("a")>>}
Around(jump) == {jump, <<For("j", 1, jump)>>, <<If(T, jump \o <<Do(CallF)>>)>>}

JumpLoops ==
  UNION {
    {<<For("i", 2, around \o <<Do(CallF)>>)>>,
     <<For("i", 2, <<For("j", 1, <<Do(CallF)>>)>> \o around)>>,
     <<For("i", 2, <<IfStatement(Equals(V("i"), I(1)), Block(around), <<Elif(T, around)>>, <<Block(<<Do(CallF)>>)>>)>>)>>,
     <<ForLoop(LoopVarDecl("i", IntType, I(0)), Less(V("i"), I(2)), Set("i", Plus(V("i"), CallF)), Block(around))>>}
      : around \in UNION {Around(jump) : jump \in Jumps}}

JumpCalls ==
  {<<Show(Plus(CallF, CallF))>>, <<Do(FunctionCall(Compose(V("f"), V("g")), <<>>))>>}

(* f has a loop or none around its jump; g calls f.                          *)
BodiesOfF == {<<>>} \cup Jumps \cup {<<For("h", 2, jump \o <<Say("b")>>)>> : jump \in Jumps}

Jumping ==
  {<<Def("f", <<>>, IntType, body \o <<Ret(I(1))>>),
     Def("g", <<In("x", IntType)>>, IntType, <<Let("y", IntType, CallF), Ret(V("y"))>>),
     Main(use \o <<Show(CallF), Ret(I(0))>>)>>
     : body \in BodiesOfF, use \in JumpLoops \cup JumpCalls}
=============================================================================
