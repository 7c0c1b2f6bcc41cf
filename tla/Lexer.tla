------------------------------- MODULE Lexer -------------------------------
(***************************************************************************)
(* From characters to tokens: Lexer and the SourceHandler it reads from.   *)
(* A token is built by one call of get_next_token; an action is one        *)
(* iteration of one of its loops, or the code between two of them.         *)
(*                                                                         *)
(* A character is a string of length one.  The variable building is the    *)
(* local state of the builder in progress; Idle between two tokens.        *)
(***************************************************************************)
EXTENDS Integers, Sequences, FiniteSets

CONSTANTS
  Letters,              (* the letters that texts are made of               *)
  Texts,                (* the sources, sequences of characters             *)
  MaxIdentifierLen, MaxStrLiteralLen, MaxCommentLen,
  MaxInt,               (* the largest int                                  *)
  MaxFraction           (* the largest uint64_t                             *)

EOF == "EOF"
LF == "\n"
CR == "\r"
QUOTE == "\""
BACKSLASH == "\\"

Digits == {"0", "1", "2", "3", "4", "5", "6", "7", "8", "9"}
DigitValue ==
  [c \in Digits |-> CASE c = "0" -> 0 [] c = "1" -> 1 [] c = "2" -> 2 [] c = "3" -> 3 [] c = "4" -> 4
                      [] c = "5" -> 5 [] c = "6" -> 6 [] c = "7" -> 7 [] c = "8" -> 8 [] OTHER -> 9]
WhiteChars == {" ", "\t", LF, CR}
FirstOfWord == Letters \cup {"_"}
WordChars == Letters \cup Digits \cup {"_"}

(* The characters that are tokens of their own; those that may begin two or  *)
(* three tokens, alone or with a second character.  "!" is none alone.       *)
Singles == {"(", ")", "{", "}", ",", ";", ":", "&", "+", "*", "/", EOF}
Extended == [first : {"-"}, second : {">"}] \cup [first : {"=", "<", "!", ">"}, second : {"="}]
            \cup [first : {">"}, second : {">"}]
FirstOfPair == {p.first : p \in Extended}

(* No character is the byte \x03, which is EOF_CHAR: a text that held one    *)
(* would end there for the lexer (constants.hpp 3).                         *)
Characters == Letters \cup Digits \cup WhiteChars \cup (Singles \ {EOF}) \cup FirstOfPair
              \cup {"_", ".", "#", "$", QUOTE, BACKSLASH}

Positions == [line : Nat \ {0}, column : Nat \ {0}]
Limits == {MaxIdentifierLen, MaxStrLiteralLen, MaxCommentLen, MaxInt, MaxFraction}

ASSUME LimitsAreNaturals == Limits \subseteq Nat
ASSUME MaxIntAssumption == MaxInt >= 9
ASSUME MaxFractionAssumption == MaxFraction >= 9
ASSUME LettersAreLetters ==
  Letters \cap (Digits \cup WhiteChars \cup Singles \cup FirstOfPair \cup {"_", ".", "#", "$", QUOTE, BACKSLASH}) = {}
ASSUME TextsAssumption == Texts \subseteq Seq(Characters)

VARIABLES
  text,            (* the source                                            *)
  read,            (* how many of its characters the stream has given       *)
  nextPosition,    (* SourceHandler: the position of the next character     *)
  character, position,    (* Lexer: one character ahead, and where it is    *)
  building,        (* the token in progress                                 *)
  tokens,          (* the tokens given                                      *)
  status           (* "running", "finished" after T_EOF, or the exception   *)

sourceVars == <<read, nextPosition>>
vars == <<text, read, nextPosition, character, position, building, tokens, status>>

-----------------------------------------------------------------------------
(* SourceHandler.                                                          *)

CharAt(i) ==
  CASE i > Len(text) -> EOF
    [] i <= Len(text) /\ text[i] = CR /\ i < Len(text) /\ text[i + 1] = LF -> LF
    [] OTHER -> text[i]

(* Slip: the stream goes on behind its end.                                 *)
ReadAfterTheEnd(i) == IF CharAt(i) = LF /\ text[i] = CR THEN i + 1 ELSE i

ReadAfter(i) ==
  CASE i > Len(text) -> Len(text)
    [] i <= Len(text) /\ text[i] = CR /\ CharAt(i) = LF -> i + 1
    [] OTHER -> i

(* Slip: the column goes on in a new line.                                  *)
AdjustedInColumn(p, c) ==
  CASE c = LF -> [p EXCEPT !.line = @ + 1]
    [] c = EOF -> p
    [] OTHER -> [p EXCEPT !.column = @ + 1]

Adjusted(p, c) ==
  CASE c = LF -> [line |-> p.line + 1, column |-> 1]
    [] c = EOF -> p
    [] OTHER -> [p EXCEPT !.column = @ + 1]

GetNextChar ==
  /\ character' = CharAt(read + 1)
  /\ position' = nextPosition
  /\ read' = ReadAfter(read + 1)
  /\ nextPosition' = Adjusted(nextPosition, CharAt(read + 1))

-----------------------------------------------------------------------------
(* Tokens and builders.                                                    *)

Token(type, at, value) == [type |-> type, position |-> at, value |-> value]
Idle == [kind |-> "idle"]
Building(kind) == building.kind = kind

(* The token begins at the character ahead.                                 *)
Starts(kind, lexeme) == building' = [kind |-> kind, at |-> position, lexeme |-> lexeme]
Takes(c) == building' = [building EXCEPT !.lexeme = Append(@, c)]

Ends(type, value) ==
  /\ tokens' = Append(tokens, Token(type, building.at, value))
  /\ building' = Idle

Throw(exception) ==
  /\ status' = exception
  /\ UNCHANGED <<sourceVars, character, position, building, tokens>>

Keep == UNCHANGED <<sourceVars, character, position>>
Ready == status = "running" /\ Building("idle") /\ character \notin WhiteChars
Goes(kind) == status = "running" /\ Building(kind)

IgnoreWhiteChar ==
  /\ Goes("idle")
  /\ character \in WhiteChars
  /\ GetNextChar
  /\ UNCHANGED <<building, tokens, status>>

(* The builders of _simple_builders_map.  T_EOF ends the calls.              *)
BuildSingle ==
  /\ Ready
  /\ character \in Singles
  /\ tokens' = Append(tokens, Token(character, position, <<>>))
  /\ GetNextChar
  /\ status' = IF character = EOF THEN "finished" ELSE status
  /\ UNCHANGED building

StartPair ==
  /\ Ready
  /\ character \in FirstOfPair
  /\ Starts("pair", <<character>>)
  /\ GetNextChar
  /\ UNCHANGED <<tokens, status>>

(* Slip: the second character is left for the next token.                   *)
EndPairInPlace ==
  /\ Goes("pair")
  /\ LET first == building.lexeme[1]
     IN  CASE [first |-> first, second |-> character] \in Extended
                -> Ends(first, <<character>>) /\ Keep /\ UNCHANGED status
           [] [first |-> first, second |-> character] \notin Extended /\ first = "!"
                -> Throw("UnexpectedCharacter")
           [] OTHER -> Ends(first, <<>>) /\ Keep /\ UNCHANGED status

EndPair ==
  /\ Goes("pair")
  /\ LET first == building.lexeme[1]
     IN  CASE [first |-> first, second |-> character] \in Extended
                -> Ends(first, <<character>>) /\ GetNextChar /\ UNCHANGED status
           [] [first |-> first, second |-> character] \notin Extended /\ first = "!"
                -> Throw("UnexpectedCharacter")
           [] OTHER -> Ends(first, <<>>) /\ Keep /\ UNCHANGED status

-----------------------------------------------------------------------------
(* Identifiers and keywords.                                               *)

(* The words of _keywords_build_map: a keyword is a type of token of its own, *)
(* here the value of a "KEYWORD"; the other two are the values of literals. *)
Keywords ==
  {<<"i", "n", "t">>, <<"f", "l", "o", "a", "t">>, <<"b", "o", "o", "l">>,
    <<"s", "t", "r", "i", "n", "g">>, <<"f", "u", "n", "c", "t", "i", "o", "n">>,
    <<"n", "o", "n", "e">>, <<"n", "o", "t">>, <<"a", "n", "d">>, <<"o", "r">>, <<"d", "e", "f">>,
    <<"l", "e", "t">>, <<"m", "u", "t">>, <<"a", "s">>, <<"i", "f">>, <<"e", "l", "s", "e">>,
    <<"b", "r", "e", "a", "k">>, <<"c", "o", "n", "t", "i", "n", "u", "e">>,
    <<"r", "e", "t", "u", "r", "n">>, <<"f", "o", "r">>}
True == <<"t", "r", "u", "e">>
False == <<"f", "a", "l", "s", "e">>

StartIdentifier ==
  /\ Ready
  /\ character \in FirstOfWord
  /\ Starts("identifier", <<>>)
  /\ Keep
  /\ UNCHANGED <<tokens, status>>

TakeIdentifierChar ==
  /\ Goes("identifier")
  /\ building.lexeme = <<>> \/ character \in WordChars
  /\ IF Len(building.lexeme) = MaxIdentifierLen
     THEN Throw("IdentifierTooLong")
     ELSE Takes(character) /\ GetNextChar /\ UNCHANGED <<tokens, status>>

EndIdentifier ==
  /\ Goes("identifier")
  /\ building.lexeme # <<>> /\ character \notin WordChars
  /\ CASE building.lexeme \in Keywords -> Ends("KEYWORD", building.lexeme)
       [] building.lexeme \in {True, False} -> Ends("LITERAL_BOOL", building.lexeme = True)
       [] OTHER -> Ends("IDENTIFIER", building.lexeme)
  /\ Keep
  /\ UNCHANGED status

-----------------------------------------------------------------------------
(* Strings.                                                                *)

StartString ==
  /\ Ready
  /\ character = QUOTE
  /\ Starts("string", <<>>)
  /\ GetNextChar
  /\ UNCHANGED <<tokens, status>>

StringGoesOn ==
  Goes("string") /\ Len(building.lexeme) < MaxStrLiteralLen /\ character # QUOTE

UnfinishedString ==
  /\ StringGoesOn
  /\ character \in {LF, EOF}
  /\ Throw("UnfinishedString")

TakeStringChar ==
  /\ StringGoesOn
  /\ character \notin {LF, EOF, BACKSLASH}
  /\ Takes(character)
  /\ GetNextChar
  /\ UNCHANGED <<tokens, status>>

StartEscape ==
  /\ StringGoesOn
  /\ character = BACKSLASH
  /\ building' = [building EXCEPT !.kind = "escape"]
  /\ GetNextChar
  /\ UNCHANGED <<tokens, status>>

EscapedChar == CASE character = "n" -> LF [] character = "t" -> "\t" [] OTHER -> character

TakeEscape ==
  /\ Goes("escape")
  /\ building' = [building EXCEPT !.kind = "string", !.lexeme = Append(@, EscapedChar)]
  /\ GetNextChar
  /\ UNCHANGED <<tokens, status>>

(* A string also ends at its limit, with whatever character is there.        *)
EndString ==
  /\ Goes("string")
  /\ Len(building.lexeme) >= MaxStrLiteralLen \/ character = QUOTE
  /\ Ends("LITERAL_STRING", building.lexeme)
  /\ GetNextChar
  /\ UNCHANGED status

-----------------------------------------------------------------------------
(* Ints and floats.                                                        *)

(* The sum wraps around where it exceeds an int: undefined in the code.      *)
Wrapped(n) == ((n + MaxInt + 1) % (2 * (MaxInt + 1))) - (MaxInt + 1)

StartNumber ==
  /\ Ready
  /\ character \in Digits
  /\ LET digit == DigitValue[character]
     IN  building' = [kind |-> "int", at |-> position, integer |-> digit, digit |-> digit, zero |-> digit = 0]
  /\ GetNextChar
  /\ UNCHANGED <<tokens, status>>

(* The check comes before the new digit is read: it uses the one before.      *)
TakeDigit ==
  /\ Goes("int")
  /\ ~building.zero /\ character \in Digits
  /\ IF building.integer > (MaxInt - building.digit) \div 10
     THEN Throw("ParseIntOverflow")
     ELSE LET digit == DigitValue[character]
          IN  /\ building' = [building EXCEPT !.digit = digit, !.integer = Wrapped(@ * 10 + digit)]
              /\ GetNextChar
              /\ UNCHANGED <<tokens, status>>

EndInt ==
  /\ Goes("int")
  /\ building.zero \/ character \notin Digits
  /\ character # "."
  /\ Ends("LITERAL_INT", building.integer)
  /\ Keep
  /\ UNCHANGED status

TakePoint ==
  /\ Goes("int")
  /\ building.zero \/ character \notin Digits
  /\ character = "."
  /\ building' = [kind |-> "point", at |-> building.at, integer |-> building.integer]
  /\ GetNextChar
  /\ UNCHANGED <<tokens, status>>

StartFraction ==
  /\ Goes("point")
  /\ IF character \notin Digits
     THEN Throw("UnexpectedCharacter")
     ELSE /\ building' = [kind |-> "fraction", at |-> building.at, integer |-> building.integer,
                          fraction |-> DigitValue[character], digits |-> 1]
          /\ GetNextChar
          /\ UNCHANGED <<tokens, status>>

(* Slip: the digit to come is left out of the check.                        *)
FractionFitsWithoutDigit(fraction, digit) == fraction <= MaxFraction \div 10

FractionFits(fraction, digit) == fraction <= (MaxFraction - digit) \div 10

TakeFractionDigit ==
  /\ Goes("fraction")
  /\ character \in Digits
  /\ LET digit == DigitValue[character]
     IN  IF ~FractionFits(building.fraction, digit)
         THEN Throw("ParseFractionRangeExceeded")
         ELSE /\ building' = [building EXCEPT !.fraction = @ * 10 + digit, !.digits = @ + 1]
              /\ GetNextChar
              /\ UNCHANGED <<tokens, status>>

EndFraction ==
  /\ Goes("fraction")
  /\ character \notin Digits
  /\ Ends("LITERAL_FLOAT", <<building.integer, building.fraction, building.digits>>)
  /\ Keep
  /\ UNCHANGED status

-----------------------------------------------------------------------------
(* Comments, and what is none of these.                                    *)

StartComment ==
  /\ Ready
  /\ character = "#"
  /\ Starts("comment", <<>>)
  /\ GetNextChar
  /\ UNCHANGED <<tokens, status>>

CommentGoesOn == Len(building.lexeme) < MaxCommentLen /\ character \notin {LF, EOF}

TakeCommentChar ==
  /\ Goes("comment")
  /\ CommentGoesOn
  /\ Takes(character)
  /\ GetNextChar
  /\ UNCHANGED <<tokens, status>>

EndComment ==
  /\ Goes("comment")
  /\ ~CommentGoesOn
  /\ Ends("COMMENT", building.lexeme)
  /\ Keep
  /\ UNCHANGED status

Unexpected ==
  /\ Ready
  /\ character \notin Singles \cup FirstOfPair \cup FirstOfWord \cup Digits \cup {QUOTE, "#"}
  /\ Throw("UnexpectedCharacter")

-----------------------------------------------------------------------------

(* The constructor has read the first character.                            *)
Init ==
  /\ text \in Texts
  /\ character = CharAt(1)
  /\ position = [line |-> 1, column |-> 1]
  /\ read = ReadAfter(1)
  /\ nextPosition = Adjusted(position, CharAt(1))
  /\ building = Idle
  /\ tokens = <<>>
  /\ status = "running"

Build ==
  \/ IgnoreWhiteChar \/ BuildSingle \/ StartPair \/ EndPair
  \/ StartIdentifier \/ TakeIdentifierChar \/ EndIdentifier
  \/ StartString \/ UnfinishedString \/ TakeStringChar \/ StartEscape \/ TakeEscape \/ EndString
  \/ StartNumber \/ TakeDigit \/ EndInt \/ TakePoint \/ StartFraction \/ TakeFractionDigit \/ EndFraction
  \/ StartComment \/ TakeCommentChar \/ EndComment
  \/ Unexpected

Stopped == status # "running" /\ UNCHANGED vars

Next == (Build /\ UNCHANGED text) \/ Stopped

Spec == Init /\ [][Next]_vars

-----------------------------------------------------------------------------
(* Properties.                                                             *)

Lexeme == Seq(Characters \cup {EOF})
Builders ==
  {Idle}
  \cup [kind : {"pair", "identifier", "string", "escape", "comment"}, at : Positions, lexeme : Lexeme]
  \cup [kind : {"int"}, at : Positions, integer : Int, digit : 0..9, zero : BOOLEAN]
  \cup [kind : {"point"}, at : Positions, integer : Int]
  \cup [kind : {"fraction"}, at : Positions, integer : Int, fraction : Nat, digits : Nat]

TypeOK ==
  /\ text \in Texts
  /\ read \in 0..Len(text)
  /\ nextPosition \in Positions /\ position \in Positions
  /\ character \in Characters \cup {EOF}
  /\ building \in Builders

(* No builder goes beyond its limit: identifiers, strings and comments stop  *)
(* at theirs, and the fraction of a float never wraps around, as the check   *)
(* before each digit is to see to (lexer.cpp 48, 67, 141, 308).              *)
LengthLimit ==
  [identifier |-> MaxIdentifierLen, string |-> MaxStrLiteralLen, comment |-> MaxCommentLen]

LimitsHold ==
  /\ building.kind \in DOMAIN LengthLimit => Len(building.lexeme) <= LengthLimit[building.kind]
  /\ Building("fraction") => building.fraction <= MaxFraction

(* Where the i-th character of the text is: behind the lines that end before *)
(* it and the characters of its own line.                                   *)
PlaceOf(i) ==
  [line |-> 1 + Cardinality({j \in 1..(i - 1) : text[j] = LF}),
   column |-> 1 + Cardinality({j \in 1..(i - 1) : \A k \in j..(i - 1) : text[k] # LF})]

(* The character ahead is the last one read, or the end; a line ending of two *)
(* characters is where its first one is.                                    *)
IndexAhead ==
  CASE character = EOF -> Len(text) + 1
    [] character = LF /\ read > 1 /\ text[read - 1] = CR -> read - 1
    [] OTHER -> read

(* The lexer is one character ahead and knows where that character is, also   *)
(* at the end of the text, whatever its line endings (source_handler.cpp     *)
(* 5-33).                                                                   *)
PositionsAreExact == position = PlaceOf(IndexAhead)

(* The value of an int literal never wraps around: the check before each      *)
(* digit is "equivalent to token_value * 10 + digit > INT_MAX"               *)
(* (lexer.cpp 113-115).                                                     *)
IntNeverWraps == Building("int") => building.integer \in 0..MaxInt
=============================================================================
