------------------------------- MODULE MCApp -------------------------------
(* Whole programs, written as texts: correct ones, and ones with an error    *)
(* for each of the three components to find, before and after one another.   *)
EXTENDS App, TLC

Str(chars) == [i \in 1..Len(chars) |-> SubSeq(chars, i, i)]

MCLetters ==
  {"a", "b", "c", "d", "e", "f", "g", "i", "l", "m", "n", "o", "p", "r", "s", "t", "u", "x", "y", "A"}

Statements ==
  {"print(\"a\");", "let mut y:function<int:none>=f;", "x=x+1;#x\n", "{let y:int=2*x;f(y);}", "if(x>=1){print(\"a\");}else{return x;}",
   "for(i:int=0;i<2;i=i+1){f(i);}", "((1)>>f)();", "f(1,);", "f(-1.5);", "(f&f)(x);", "print(x as string);",
   "$", "x=!1;", "x=99;", "x=9+1;", "\"a", "1.f;", ";", "}", "else", "x=;", "y;", "return true;"}

InMain(body) ==
  "def f(x:int)->none{print(x as string);}def main()->int{let mut x:int=1;" \o body \o "return 0;}"

First == {"", "print(\"a\");", "x=x+1;#x\n", "for(i:int=0;i<2;i=i+1){f(i);}", "y;", "return true;", "x=;", "$"}

MCTexts ==
  {Str(InMain(a \o b)) : a \in First, b \in Statements} \cup
  {Str(t) : t \in {"", " ", "#a", "$", "def", "def f", "def main()->int{return 1;}def main()->int{}",
                   "def main()->none{}", "def print()->int{}", "def main()->int{print(\"a\");}$",
                   "def main()->int{print(\"a\");}}", "def main()->int{print(\"a\");}\r\n# a"}}

MCStringOrder == <<"", "a">>
MCIntStrings == [s \in {ToString(i) : i \in -9..9} |-> CHOOSE i \in -9..9 : ToString(i) = s]
MCFloatStrings == [s \in DOMAIN MCIntStrings |-> <<MCIntStrings[s], 1>>]
MCCaseTable == [n \in {"lower", "upper", "capitalized"} |-> [s \in {"", "a"} |-> s]]
MCNames == {"f", "i", "main", "x", "y", "print", "round", "input", "is_int", "is_float"} \cup DOMAIN MCCaseTable
=============================================================================
