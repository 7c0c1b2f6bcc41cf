------------------------------ MODULE Grammar ------------------------------
(***************************************************************************)
(* The grammar of the language as docs/TKOM-dokumentacja-końcowa.md gives  *)
(* it (403-560): the trees of a sequence of tokens, by symbol.  A symbol   *)
(* derives a sequence that can be cut into parts that its own parts        *)
(* derive; nothing here reads from left to right.                          *)
(***************************************************************************)
EXTENDS Parser

(* The binary operators: the symbol of the operands, and whether there may  *)
(* be more than one operator, in which case they group to the left.        *)
Level(sub, types, many) == [sub |-> sub, types |-> types, many |-> many]
Levels ==
  [logical_or_expression |-> Level("logical_and_expression", {"or"}, TRUE),
   logical_and_expression |-> Level("equality_expression", {"and"}, TRUE),
   equality_expression |-> Level("comparison_expression", {"==", "!="}, FALSE),
   comparison_expression |-> Level("term", {"<", ">", "<=", ">="}, FALSE),
   term |-> Level("factor", {"+", "-"}, TRUE),
   factor |-> Level("cast", {"*", "/"}, TRUE),
   function_composition |-> Level("bind_front", {"&"}, TRUE)]

(* Repetitions: their items, which of them have commas between the items,   *)
(* and which may be empty.                                                 *)
ItemOf ==
  [program |-> "function_definition", statements |-> "statement", parameter_list |-> "typed_identifier",
   arguments |-> "expression", argument_types |-> "argument_type"]
Separated == {"parameter_list", "arguments", "argument_types"}
CanBeEmpty == {"program", "statements", "parameter_list"}

RECURSIVE Trees(_, _)
Trees(symbol, s) ==
  LET n == Len(s)
      Is(i, type) == i \in 1..n /\ s[i].type = type
      At(type) == {i \in 1..n : s[i].type = type}
      Of(part, i, j) == Trees(part, SubSeq(s, i, j))

      Alone(type, tree) == IF n = 1 /\ Is(1, type) THEN {tree} ELSE {}
      After(type, part) == IF Is(1, type) THEN Of(part, 2, n) ELSE {}
      Between(open, part, close) ==
        IF n >= 2 /\ Is(1, open) /\ Is(n, close) THEN Of(part, 2, n - 1) ELSE {}

      Operations(level) ==
        UNION {UNION {{Binary(BinaryKind[s[k].type], l, r) : r \in Of(level.sub, k + 1, n)}
                        : l \in Of(IF level.many THEN symbol ELSE level.sub, 1, k - 1)}
                 : k \in {i \in 1..n : s[i].type \in level.types}}

      (* The first item ends before k, the others begin at k + skipped.     *)
      Repetitions(ends, skipped) ==
        UNION {UNION {{<<first>> \o rest : rest \in Of(symbol, k + skipped, n)}
                        : first \in Of(ItemOf[symbol], 1, k - 1)}
                 : k \in ends}

  IN IF n = 0 THEN IF symbol \in CanBeEmpty THEN {<<>>} ELSE {}
     ELSE CASE symbol \in DOMAIN Levels -> Of(Levels[symbol].sub, 1, n) \cup Operations(Levels[symbol])

        [] symbol \in Separated ->
             {<<t>> : t \in Of(ItemOf[symbol], 1, n)} \cup Repetitions(At(",") \ {n}, 1)
        [] symbol \in DOMAIN ItemOf \ Separated ->
             Repetitions({i + 1 : i \in At("}") \cup At(";")}, 0)

        [] symbol = "function_definition" ->
             UNION {UNION {{FunctionDefinition(s[2].value, params, ret, body)
                              : params \in Of("parameter_list", 4, c - 1), ret \in Of("return_type", c + 2, b - 1)}
                             : body \in Of("code_block", b, n)}
                      : <<c, b>> \in {<<c, b>> \in At(")") \X At("{") :
                                        /\ Is(1, "def") /\ Is(2, "IDENTIFIER") /\ Is(3, "(")
                                        /\ c < b /\ Is(c + 1, "->")}}
        [] symbol = "typed_identifier" ->
             {Param(s[i].value, type, i = 2)
                : i \in {i \in 1..2 : Is(i, "IDENTIFIER") /\ Is(i + 1, ":") /\ (i = 2 => Is(1, "mut"))},
                  type \in Of("type", IF Is(1, "mut") THEN 4 ELSE 3, n)}

        [] symbol = "return_type" -> Of("type", 1, n) \cup Alone("none", NoneType)
        [] symbol = "type" ->
             UNION {Alone(t, ScalarTypes[t]) : t \in DOMAIN ScalarTypes}
             \cup UNION {{FunctionType(params, ret)
                            : params \in IF c = 4 /\ Is(3, "none") THEN {<<>>} ELSE Of("argument_types", 3, c - 1),
                              ret \in Of("return_type", c + 1, n - 1)}
                           : c \in {c \in At(":") : Is(1, "function") /\ Is(2, "<") /\ Is(n, ">")}}
        [] symbol = "argument_type" ->
             {VariableType(type, FALSE) : type \in Of("type", 1, n)}
             \cup {VariableType(type, TRUE) : type \in After("mut", "type")}

        [] symbol = "statement" ->
             Of("code_block", 1, n) \cup Of("if_statement", 1, n) \cup Of("for_loop", 1, n)
             \cup IF Is(n, ";")
                  THEN UNION {Of(part, 1, n - 1) : part \in {"variable_declaration", "assignment", "jump"}}
                       \cup {ExpressionStatement(e) : e \in Of("expression", 1, n - 1)}
                  ELSE {}
        [] symbol = "code_block" -> {CodeBlock(b) : b \in Between("{", "statements", "}")}
        [] symbol = "variable_declaration" ->
             UNION {{VariableDeclaration(t.name, t.vt, e)
                       : t \in Of("typed_identifier", 2, a - 1), e \in Of("expression", a + 1, n)}
                      : a \in {a \in At("=") : Is(1, "let")}}
        [] symbol = "loop_var_decl" ->
             UNION {{LoopVarDecl(s[1].value, type, e)
                       : type \in Of("type", 3, a - 1), e \in Of("expression", a + 1, n)}
                      : a \in {a \in At("=") : Is(1, "IDENTIFIER") /\ Is(2, ":")}}
        [] symbol = "assignment" ->
             {AssignStatement(s[1].value, e)
                : e \in IF Is(1, "IDENTIFIER") /\ Is(2, "=") THEN Of("expression", 3, n) ELSE {}}
        [] symbol = "jump" ->
             Alone("break", BreakStatement) \cup Alone("continue", ContinueStatement)
             \cup Alone("return", ReturnStatement(<<>>))
             \cup {ReturnStatement(<<e>>) : e \in After("return", "expression")}
        [] symbol = "if_statement" ->
             UNION {UNION {{IfStatement(cond, body, <<>>, <<>>) : body \in IF b = n THEN Of("code_block", c + 1, n) ELSE {}}
                           \cup {IfStatement(cond, body, <<>>, <<other>>)
                                   : body \in Of("code_block", c + 1, b), other \in Of("code_block", b + 2, n)}
                           \cup {IfStatement(cond, body, <<ElseIf(i.cond, i.body)>> \o i.elseIfs, i.optElse)
                                   : body \in Of("code_block", c + 1, b), i \in Of("if_statement", b + 2, n)}
                             : cond \in Of("expression", 3, c - 1)}
                      : <<c, b>> \in {<<c, b>> \in At(")") \X At("}") :
                                        Is(1, "if") /\ Is(2, "(") /\ c < b /\ (b = n \/ Is(b + 1, "else"))}}
        [] symbol = "for_loop" ->
             UNION {UNION {{ForLoop(decl, cond, update, body)
                              : cond \in Of("expression", i + 1, j - 1), update \in Of("assignment", j + 1, c - 1),
                                body \in Of("code_block", c + 1, n)}
                             : decl \in Of("loop_var_decl", 3, i - 1)}
                      : <<i, j, c>> \in {<<i, j, c>> \in At(";") \X At(";") \X At(")") :
                                           Is(1, "for") /\ Is(2, "(") /\ i < j /\ j < c}}

        [] symbol = "expression" -> Of("logical_or_expression", 1, n)
        [] symbol = "cast" ->
             Of("unary", 1, n)
             \cup UNION {{TypeCast(e, type) : e \in Of("unary", 1, a - 1), type \in Of("type", a + 1, n)} : a \in At("as")}
        [] symbol = "unary" ->
             Of("function_composition", 1, n)
             \cup {Unary("LOGICAL_NOT", e) : e \in After("not", "function_composition")}
             \cup {Unary("UNARY_MINUS", e) : e \in After("-", "function_composition")}
        [] symbol = "bind_front" ->
             Of("function_call", 1, n)
             \cup UNION {{BindFront(args, f) : args \in Of("arg_list", 1, b - 1), f \in Of("function_call", b + 1, n)}
                           : b \in At(">>")}
        [] symbol = "function_call" ->
             Of("primary", 1, n)
             \cup UNION {{FunctionCall(f, args) : f \in Of("function_call", 1, p - 1), args \in Of("arg_list", p, n)}
                           : p \in IF Is(n, ")") THEN At("(") \ {1} ELSE {}}
        [] symbol = "arg_list" ->
             Between("(", "arguments", ")") \cup IF n = 2 /\ Is(1, "(") /\ Is(2, ")") THEN {<<>>} ELSE {}
        [] symbol = "primary" ->
             Between("(", "expression", ")")
             \cup {Identifier(s[i].value) : i \in {i \in 1..n : n = 1 /\ Is(1, "IDENTIFIER")}}
             \cup {Literal(s[i].value) : i \in {i \in 1..n : n = 1 /\ s[1].type \in LiteralTypes}}
        [] OTHER -> {}

-----------------------------------------------------------------------------
(* Properties: the parser against the grammar.                             *)

Code(s) == SelectSeq(s, LAMBDA t : t.type \notin {"COMMENT", "EOF"})

(* Where the parser takes more than the grammar has: a target of an          *)
(* assignment in parentheses (parser.cpp 265-292), and mut before the        *)
(* variable of a loop (294-306).                                            *)
Tolerated(s) ==
  \E i \in 2..Len(s) :
    \/ s[i].type = "=" /\ s[i - 1].type = ")"
    \/ s[i].type = "mut" /\ s[i - 1].type = "(" /\ i > 2 /\ s[i - 2].type = "for"

(* Where it takes less: a function that may change, as a variable, a          *)
(* parameter or the type of one (type.cpp 88-90).                           *)
MutableFunction(s) ==
  \E i \in 1..Len(s) :
    /\ s[i].type = "mut"
    /\ LET type == IF i < Len(s) /\ s[i + 1].type = "IDENTIFIER" THEN i + 3 ELSE i + 1
       IN  type <= Len(s) /\ s[type].type = "function"

(* The tree the parser gives is the one, and the only one, that the grammar  *)
(* gives: operators bind and group as it says, a list of arguments and a     *)
(* parenthesised expression are told apart, an else belongs to its if, and   *)
(* comments change nothing (parser.cpp 5-578).  None has a function that may *)
(* change (639, 744).                                                       *)
GivesTheTree ==
  status = "parsed" =>
    /\ Trees("program", Code(tokens)) = IF Tolerated(Code(tokens)) THEN {} ELSE {program}
    /\ ~MutableFunction(Code(tokens))

(* What the lexer may still give, with what it has left.                    *)
RECURSIVE Rests(_)
Rests(left) ==
  IF Gives(left) = {} THEN {<<>>}
  ELSE UNION {{<<next[1]>> \o rest : rest \in Rests(next[2])} : next \in Gives(left)}

(* A text is refused only if it is not of the language, or for a function    *)
(* that may change: at the token of any other exception, nothing that may    *)
(* follow makes a program (parser.cpp 3-745).  One token is seen ahead, no   *)
(* function reads one and then gives it back.                               *)
RefusesNoProgram ==
  CASE status \in {"running", "parsed"} -> TRUE
    [] status = "std::invalid_argument" -> MutableFunction(Code(tokens))
    [] OTHER -> \A rest \in Rests(feed) : Trees("program", Code(tokens \o rest)) = {}
=============================================================================
