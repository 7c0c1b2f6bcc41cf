------------------------------ MODULE MCParser ------------------------------
(* Instances of the parser: a part of a program is free, made of any chunks  *)
(* of a small set, or one token of a whole program is wrong.                 *)
EXTENDS Grammar, TokenFeeds

Names == {"a", "b"}
Ints == {"1"}

(* Literals are named by their spelling; the values play no part here.       *)
Token(word) ==
  CASE word \in Names -> [type |-> "IDENTIFIER", value |-> word]
    [] word \in Ints -> [type |-> "LITERAL_INT", value |-> word]
    [] word \in {"true", "false"} -> [type |-> "LITERAL_BOOL", value |-> word]
    [] OTHER -> [type |-> word, value |-> ""]
Text(words) == [i \in DOMAIN words |-> Token(words[i])]
Texts(set) == {Text(words) : words \in set}

BinaryWords == {"or", "and", "==", "!=", "<", "<=", ">", ">=", "+", "-", "*", "/", "&"}
Words ==
  Names \cup Ints \cup BinaryWords \cup DOMAIN ScalarTypes
  \cup {"true", "false", "LITERAL_STRING", "LITERAL_FLOAT", "COMMENT", "EOF", "not", "as", ">>", "(",
        ")", ",", ":", ";", "=", "{", "}", "->", "def", "let", "mut", "function", "none", "if", "else",
        "for", "return", "break", "continue"}
MCTokens == {Token(w) : w \in Words}

-----------------------------------------------------------------------------
(* A text: what comes "before"; then at most "most" of the "chunks"; then     *)
(* what comes "after", with at most one of the Edits if there may be "edits".  *)

Source(before, chunks, most, after, edits) ==
  [before |-> Text(before), chunks |-> Texts(chunks), most |-> most, after |-> Text(after), edits |-> edits]

Others == {Token(w) : w \in {"a", ";", "(", ")", "{", "mut", ","}}

(* A token is left out, replaced or preceded by another, or the text ends.   *)
Edits(text) ==
  IF Len(text) < 2 THEN {}
  ELSE {Tail(text), Text(<<"EOF">>)}
       \cup {<<t>> \o text : t \in Others} \cup {<<t>> \o Tail(text) : t \in Others}

MCGives(left) ==
  LET After(text, edits) ==
        <<Head(text), [left EXCEPT !.chunks = {}, !.most = 0, !.after = Tail(text), !.edits = edits]>>
  IN  IF left.before # <<>>
      THEN {<<Head(left.before), [left EXCEPT !.before = Tail(@)]>>}
      ELSE {<<Head(chunk), [left EXCEPT !.before = Tail(chunk), !.most = @ - 1]>>
              : chunk \in {c \in left.chunks : left.most > 0}}
           \cup {After(text, left.edits) : text \in {left.after} \ {<<>>}}
           \cup {After(text, FALSE) : text \in {e \in Edits(left.after) : left.edits}}

-----------------------------------------------------------------------------
(* Parts of the body of a function are free.                                *)

Function == <<"def", "a", "(", ")", "->", "none", "{">>
InBody(opening, chunks, most, closing) ==
  Source(Function \o opening, chunks, most, closing \o <<"}", "EOF">>, FALSE)

(* Any two operators, one of each level, with operands.                  *)
Operators ==
  {<<w>> : w \in {"or", "and", "==", "<", "+", "-", "*", "&"}}
  \cup {<<"not">>, <<"as", "int">>, <<"(", "a", ")">>, <<"a", ">>">>}
TwoOperators == {InBody(<<"return">>, {<<"a">>, x, y}, 5, <<";">>) : x, y \in Operators}

(* Lists of arguments, calls and parentheses.                               *)
Lists == {<<"a">>, <<"b", ",">>, <<"(">>, <<")">>, <<">>">>}
CallsAndBindings == {InBody(opening, Lists, 5, <<"b", ";">>) : opening \in {<<"a">>, <<"return", "(">>}}

(* Statements.                                                             *)
Assignments == {InBody(<<>>, {<<w>> : w \in {"a", "=", "(", ")", ";"}}, 4, <<"a", ";">>)}
IfsAndElses ==
  {InBody(<<"if", "(", "a", ")", "{", "}">>,
          {<<"else">>, <<"if", "(", "b", ")">>, <<"{", "}">>,
           <<"{", "if", "(", "a", ")", "{", "}", "}">>}, 4, <<"{", "}">>)}

-----------------------------------------------------------------------------
(* Whole programs, in which one token may be wrong.                         *)

Body(words) == Function \o words \o <<"}">>

Definitions ==
  <<"def", "a", "(", "mut", "a", "COMMENT", ":", "int", ",", "b", ":", "function", "<", "mut", "int",
    ",", "function", "<", "int", ":", "none", ">", ":", "function", "<", "none", ":", "none", ">", ">", ",", "b", ":", "bool", ")", "->",
    "float", "{", "}", "def", "b", "(", ")", "->", "function", "<", "bool", ":", "int", ">", "{", "}">>
Loop ==
  Body(<<"for", "(", "a", ":", "int", "=", "1", ";", "a", "<", "b", ";", "a", "=", "a", "+", "1", ")",
         "{", "continue", ";", "break", ";", "{", "}", "}">>)
Declarations ==
  Body(<<"let", "a", ":", "function", "<", "none", ":", "bool", ">", "=", "b", ";", "let", "mut", "b",
         ":", "string", "=", "a", ">=", "1", ";", "return", ";">>)
IfStatements ==
  Body(<<"if", "(", "a", ")", "{", "a", "(", ")", ";", "}", "else", "if", "(", "b", "<=", "1", ")", "{",
         "}", "COMMENT", "else", "{", "return", "1", ";", "}">>)
CastsAndLogic ==
  Body(<<"COMMENT", "COMMENT", "a", "=", "-", "b", "as", "string", "*", "1", ">", "1", "or", "not",
         "true", "and", "b", "(", ")", ";">>)
BindingsAndCalls ==
  Body(<<"(", "1", ",", "LITERAL_FLOAT", ")", ">>", "a", "(", "b", ")", "(", ")", "COMMENT", "&", "(",
         "a", ")", "!=", "false", "/", "LITERAL_STRING", ";">>)

Wrong ==
  {Source(<<Head(words)>>, {}, 0, Tail(words) \o <<"EOF">>, TRUE)
     : words \in {Definitions, Loop, Declarations, IfStatements, CastsAndLogic, BindingsAndCalls}}

(* What may be left of them: ends of what was to come.                       *)
Ends(text) == {SubSeq(text, i, Len(text)) : i \in 1..(Len(text) + 1)}
LeftOf(source) ==
  {[source EXCEPT !.before = b] : b \in Ends(source.before)}
  \cup {[source EXCEPT !.before = b, !.most = m] :
           b \in UNION {Ends(chunk) : chunk \in source.chunks}, m \in 0..(source.most - 1)}
  \cup [before : {<<>>}, chunks : {{}}, most : {0}, after : Ends(source.after), edits : {source.edits, FALSE}]
MCFeeds == UNION {LeftOf(source) : source \in Sources}

MCSources == TwoOperators \cup CallsAndBindings \cup Assignments \cup IfsAndElses \cup Wrong
=============================================================================
