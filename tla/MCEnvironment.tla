--------------------------- MODULE MCEnvironment ---------------------------
(* Environment on two types of variables, two names, of which f is also a   *)
(* built-in function, and the four values 0, 1, true and the function f.    *)
EXTENDS Environment, TLC

F == [type |-> FunctionType(<<>>, NoneType), val |-> "f"]
MCTypes == {IntType, BoolType, F.type}
MCValues == { [type |-> IntType, val |-> 0], [type |-> IntType, val |-> 1],
              [type |-> BoolType, val |-> TRUE], F }
MCBuiltins == "f" :> F
=============================================================================
