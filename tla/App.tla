-------------------------------- MODULE App --------------------------------
(***************************************************************************)
(* A run of the program: core/cli_app.cpp, core/safe_exec.cpp, main.cpp.   *)
(* The lexer, the parser and the interpreter are those of their modules;   *)
(* here is how they meet.  The parser has a lexer of its own and asks it   *)
(* for one token at a time (ILexer); the interpreter accepts the program   *)
(* when it is parsed in full; an exception of any of them ends the run.    *)
(***************************************************************************)
EXTENDS Integers, SequencesExt

CONSTANTS
  Letters, Texts, MaxIdentifierLen, MaxStrLiteralLen, MaxCommentLen, MaxFraction,    (* Lexer *)
  MaxInt,                                                                 (* Lexer, Interpreter *)
  StringOrder, IntStrings, FloatStrings, CaseTable, Inputs, Names, Types, Values  (* Interpreter *)

VARIABLES
  (* Lexer; what it gave is lexemes, its status lexing.                     *)
  text, read, nextPosition, character, position, building, lexemes, lexing,
  (* Parser; its stack is callers, its status parsing.                      *)
  tokens, awaiting, callers, program, parsing,
  (* Interpreter; its stack is work, its status running.                    *)
  functions, callFrames, store, tmpResult, isReturning, conditionMet, insideLoop, onContinue, onBreak,
  work, running, output,
  report           (* what run_safe logs; "" before, "nothing" if nothing   *)

lexerVars == <<text, read, nextPosition, character, position, building, lexemes, lexing>>
parserVars == <<tokens, awaiting, callers, program, parsing>>
interpreterVars ==
  <<functions, callFrames, store, tmpResult, isReturning, conditionMet, insideLoop, onContinue, onBreak,
    work, running, output>>
vars == <<lexerVars, parserVars, interpreterVars, report>>

Lex == INSTANCE Lexemes WITH tokens <- lexemes, status <- lexing

(* For the parser alone, the lexer may give anything: Deliver says what.     *)
NoTokens(feed) == {}
Syntax == INSTANCE Grammar
            WITH stack <- callers, status <- parsing, feed <- "lexer", Sources <- {"lexer"}, Tokens <- {},
                 Gives <- NoTokens

Interpreter == INSTANCE Interpreter WITH stack <- work, status <- running, Programs <- {}
Language == INSTANCE Reference

-----------------------------------------------------------------------------
(* Token: its type and value, as the parser looks at them.                  *)

Joined(chars) == FoldLeft(LAMBDA word, c : word \o c, "", chars)
Decimal(integer, fraction, digits) ==
  Interpreter!Float(integer * 10 ^ digits + fraction, 10 ^ digits)

(* Slip: an operator is known by its first character.                       *)
TokenOfFirst(t) ==
  CASE t.type = "LITERAL_INT"     -> [type |-> t.type, value |-> Interpreter!Int32(t.value)]
    [] t.type = "LITERAL_FLOAT"   -> [type |-> t.type, value |-> Decimal(t.value[1], t.value[2], t.value[3])]
    [] t.type = "LITERAL_BOOL"    -> [type |-> t.type, value |-> Interpreter!Bool(t.value)]
    [] t.type = "LITERAL_STRING"  -> [type |-> t.type, value |-> Interpreter!Str(Joined(t.value))]
    [] t.type = "IDENTIFIER"      -> [type |-> t.type, value |-> Joined(t.value)]
    [] t.type = "KEYWORD"         -> [type |-> Joined(t.value), value |-> ""]
    [] OTHER                      -> [type |-> t.type, value |-> ""]

TokenOf(t) ==
  CASE t.type = "LITERAL_INT"     -> [type |-> t.type, value |-> Interpreter!Int32(t.value)]
    [] t.type = "LITERAL_FLOAT"   -> [type |-> t.type, value |-> Decimal(t.value[1], t.value[2], t.value[3])]
    [] t.type = "LITERAL_BOOL"    -> [type |-> t.type, value |-> Interpreter!Bool(t.value)]
    [] t.type = "LITERAL_STRING"  -> [type |-> t.type, value |-> Interpreter!Str(Joined(t.value))]
    [] t.type = "IDENTIFIER"      -> [type |-> t.type, value |-> Joined(t.value)]
    [] t.type = "KEYWORD"         -> [type |-> Joined(t.value), value |-> ""]
    [] t.type = "COMMENT"         -> [type |-> t.type, value |-> ""]
    [] OTHER                      -> [type |-> t.type \o Joined(t.value), value |-> ""]

-----------------------------------------------------------------------------
(* CLIApp.                                                                 *)

(* _initialize_components; the members are constructed before.              *)
Init ==
  /\ Lex!Init
  /\ Syntax!Init
  /\ Interpreter!Constructed
  /\ work = <<>>
  /\ running = "idle"
  /\ report = ""

Given == Len(lexemes) > Len(tokens)

(* get_next_token, called by the parser.                                    *)
BuildToken ==
  /\ report = "" /\ awaiting /\ ~Given
  /\ Lex!Build
  /\ UNCHANGED <<text, parserVars, interpreterVars, report>>

DeliverToken ==
  /\ report = "" /\ awaiting /\ Given
  /\ Syntax!Receive(TokenOf(Last(lexemes)))
  /\ UNCHANGED <<lexerVars, interpreterVars, report>>

ParseProgram ==
  /\ report = ""
  /\ Syntax!Parse
  /\ UNCHANGED <<lexerVars, interpreterVars, report>>

(* Slip: a program that was run is run again.                               *)
AcceptProgramAgain ==
  /\ parsing = "parsed" /\ report = ""
  /\ work' = Interpreter!VisitProgram(program)
  /\ running' = "running"
  /\ UNCHANGED <<lexerVars, parserVars, functions, callFrames, store, tmpResult, isReturning, conditionMet,
                 insideLoop, onContinue, onBreak, output, report>>

(* run: program->accept(_interpreter)                                       *)
AcceptProgram ==
  /\ parsing = "parsed" /\ running = "idle"
  /\ work' = Interpreter!VisitProgram(program)
  /\ running' = "running"
  /\ UNCHANGED <<lexerVars, parserVars, functions, callFrames, store, tmpResult, isReturning, conditionMet,
                 insideLoop, onContinue, onBreak, output, report>>

Interpret ==
  /\ report = ""
  /\ Interpreter!Run
  /\ UNCHANGED <<lexerVars, parserVars, report>>

-----------------------------------------------------------------------------
(* run_safe: the handler of the class of the exception.                     *)

InterpreterFails == running \notin {"idle", "running", "finished", "ImplementationError"}

Outcome ==
  CASE lexing \notin {"running", "finished"} -> "LexicalError"
    [] parsing = "std::invalid_argument"     -> "function type parameter cannot be mutable"
    [] parsing \notin {"running", "parsed", "std::invalid_argument"} -> "SyntaxError"
    [] running = "ImplementationError"       -> "IMPLEMENTATION ERROR"
    [] running = "finished"                  -> "nothing"
    [] InterpreterFails                         -> "RuntimeError"
    [] OTHER                                 -> ""

Report ==
  /\ report = "" /\ Outcome # ""
  /\ report' = Outcome
  /\ UNCHANGED <<lexerVars, parserVars, interpreterVars>>

-----------------------------------------------------------------------------

Run == BuildToken \/ DeliverToken \/ ParseProgram \/ AcceptProgram \/ Interpret \/ Report

Stopped == report # "" /\ UNCHANGED vars

Next == Run \/ Stopped

(* One thread, which waits for nothing but the user's input.                *)
Spec == Init /\ [][Next]_vars /\ WF_vars(Run)

-----------------------------------------------------------------------------
(* Properties.                                                             *)

Meant(meaning) ==
  /\ output = meaning.state.output
  /\ report = IF meaning.how = "error" THEN "RuntimeError" ELSE "nothing"

(* A text does what the documentation says, the three components together:   *)
(* it prints what its program means and ends as that does, or it is refused  *)
(* and nothing of it was run, however far its error is from the start        *)
(* (cli_app.cpp 20-23, safe_exec.cpp 7-26).  A text that begins with a       *)
(* comment, or makes a function mutable, is refused too.                     *)
RunsAsDocumented ==
  report # "" =>
    LET words == Lex!LexemesFrom(Lex!Unix(text), 1)
        TokenAt(i) == LET word == words.lexemes[i].chars
                      IN  IF Lex!IsOperator(word) \/ word \in Lex!Keywords
                          THEN [type |-> Joined(word), value |-> ""]
                          ELSE TokenOf(Lex!TypeAndValue(word))
        code == Syntax!Code([i \in DOMAIN words.lexemes |-> TokenAt(i)])
        trees == Syntax!Trees("program", code)
        Refused ==
          \/ report = "LexicalError" /\ words.fails
          \/ report = "SyntaxError" /\ (words.fails \/ trees = {} \/ Head(tokens).type = "COMMENT")
          \/ report = "function type parameter cannot be mutable" /\ Syntax!MutableFunction(code)
    IN  \/ output = <<>> /\ Refused
        \/ /\ ~words.fails /\ ~Syntax!MutableFunction(code)
           /\ \E tree \in trees : Meant(Language!Meaning(tree))

(* Every run ends, with its report or without error (safe_exec.cpp 7-26);    *)
(* none waits for ever, as it would if the parser asked for a token after    *)
(* T_EOF (parser.cpp 5-16, 751-757).                                        *)
EndsInReport == <>(report # "")
=============================================================================
