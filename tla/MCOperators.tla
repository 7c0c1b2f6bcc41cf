---------------------------- MODULE MCOperators ----------------------------
(* A sample of operands that includes all ints of the instance.              *)
EXTENDS Operators

MCStringOrder == <<"", "-9", "1.5", "9", "a", "b">>
MCIntStrings == [s \in {ToString(i) : i \in -12..12} |-> CHOOSE i \in -12..12 : ToString(i) = s]
MCFloatStrings == "1.5" :> <<3, 2>>
MCCaseTable == <<>>

MCOperands ==
  {Int32(n) : n \in Ints} \cup {Bool(b) : b \in BOOLEAN} \cup {Str(MCStringOrder[i]) : i \in DOMAIN MCStringOrder}
    \cup {Float(n, d) : n \in {-35, -22, -21, -20, -3, -1, 0, 1, 3, 18, 19, 20, 25}, d \in {1, 2}} \cup {Float(n, 0) : n \in {-1, 0, 1}}
=============================================================================
