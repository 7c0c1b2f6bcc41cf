------------------------------ MODULE Lexemes ------------------------------
(***************************************************************************)
(* The tokens of a text as docs/TKOM-dokumentacja-końcowa.md describes     *)
(* them (76-127, 465-483): the longest lexeme at each place that is not    *)
(* white, each with the place where it begins.  It knows no limits but     *)
(* those whose excess is an error.                                         *)
(***************************************************************************)
EXTENDS Lexer, SequencesExt, FiniteSetsExt

(* The text with one character for each line ending.                        *)
Unix(chars) ==
  FoldLeft(LAMBDA out, c : IF c = LF /\ out # <<>> /\ Last(out) = CR THEN Append(Front(out), LF) ELSE Append(out, c),
           <<>>, chars)

PositionAt(chars, i) ==
  LET ends == {j \in 1..(i - 1) : chars[j] = LF}
  IN  [line |-> 1 + Cardinality(ends), column |-> i - Max(ends \cup {0})]

-----------------------------------------------------------------------------
(* The kinds of lexemes.  The int part of a float is an int, as the lexer    *)
(* has it; the grammar of the documentation (475) would also take 00.5.     *)

AllIn(s, chars) == ToSet(s) \subseteq chars
IsWord(s) == s # <<>> /\ s[1] \in FirstOfWord /\ AllIn(s, WordChars)
IsInt(s) == s # <<>> /\ AllIn(s, Digits) /\ (s[1] = "0" => Len(s) = 1)
IsFloat(s) ==
  \E k \in 2..(Len(s) - 1) :
    s[k] = "." /\ IsInt(SubSeq(s, 1, k - 1)) /\ AllIn(SubSeq(s, k + 1, Len(s)), Digits)
IsComment(s) == s # <<>> /\ s[1] = "#" /\ LF \notin ToSet(s)
IsOperator(s) ==
  \/ Len(s) = 1 /\ s[1] \in (Singles \cup FirstOfPair) \ {"!"}
  \/ Len(s) = 2 /\ [first |-> s[1], second |-> s[2]] \in Extended

(* A character is escaped when an odd number of backslashes comes before it. *)
Escaped(s, j) ==
  LET others == {k \in 1..(j - 1) : s[k] # BACKSLASH}
  IN  (j - 1 - Max(others)) % 2 = 1

IsString(s) ==
  /\ Len(s) >= 2 /\ s[1] = QUOTE
  /\ \A j \in 2..Len(s) :
       /\ s[j] = QUOTE => (j = Len(s) <=> ~Escaped(s, j))
       /\ s[j] = LF => Escaped(s, j)
  /\ s[Len(s)] = QUOTE

IsLexeme(s) == IsWord(s) \/ IsInt(s) \/ IsFloat(s) \/ IsComment(s) \/ IsOperator(s) \/ IsString(s)

-----------------------------------------------------------------------------
(* What they stand for.                                                    *)

NumberOf(digits) == FoldLeft(LAMBDA n, c : 10 * n + DigitValue[c], 0, digits)

StringOf(s) ==
  LET Shown(j) == CASE ~Escaped(s, j) -> s[j]
                    [] Escaped(s, j) /\ s[j] = "n" -> LF
                    [] Escaped(s, j) /\ s[j] = "t" -> "\t"
                    [] OTHER -> s[j]
      shown == {j \in 2..(Len(s) - 1) : Escaped(s, j) \/ s[j] # BACKSLASH}
  IN  [n \in 1..Cardinality(shown) |-> Shown(SetToSortSeq(shown, <)[n])]

PartsOf(s) == LET point == CHOOSE k \in 1..Len(s) : s[k] = "."
              IN  <<SubSeq(s, 1, point - 1), SubSeq(s, point + 1, Len(s))>>

TypeAndValue(s) ==
  CASE s \in Keywords -> [type |-> "KEYWORD", value |-> s]
    [] s \in {True, False} -> [type |-> "LITERAL_BOOL", value |-> s = True]
    [] IsWord(s) /\ s \notin Keywords \cup {True, False} -> [type |-> "IDENTIFIER", value |-> s]
    [] IsInt(s) -> [type |-> "LITERAL_INT", value |-> NumberOf(s)]
    [] IsFloat(s) -> [type |-> "LITERAL_FLOAT",
                      value |-> <<NumberOf(PartsOf(s)[1]), NumberOf(PartsOf(s)[2]), Len(PartsOf(s)[2])>>]
    [] IsComment(s) -> [type |-> "COMMENT", value |-> Tail(s)]
    [] IsOperator(s) -> [type |-> s[1], value |-> Tail(s)]
    [] OTHER -> [type |-> "LITERAL_STRING", value |-> StringOf(s)]

(* Words and numbers that are refused.                                      *)
TooLong(s) ==
  \/ IsWord(s) /\ Len(s) > MaxIdentifierLen
  \/ IsInt(s) /\ NumberOf(s) > MaxInt
  \/ IsFloat(s) /\ (NumberOf(PartsOf(s)[1]) > MaxInt \/ NumberOf(PartsOf(s)[2]) > MaxFraction)

(* A comment that goes on at the limit, and a string that does, be it with   *)
(* the end of the line: the lexer cuts both.                                *)
Overlong(chars, i, k) ==
  LET s == SubSeq(chars, i, k)
  IN  \/ IsComment(s) /\ Len(s) > 1 + MaxCommentLen
      \/ /\ s # <<>> /\ IsString(Append(s, QUOTE))
         /\ Len(StringOf(Append(s, QUOTE))) = MaxStrLiteralLen
         /\ k = Len(chars) \/ chars[k + 1] # QUOTE

-----------------------------------------------------------------------------

(* The lexemes of a text from its i-th character, up to the first that is    *)
(* none.                                                                    *)
RECURSIVE LexemesFrom(_, _)
LexemesFrom(chars, i) ==
  LET ends == {k \in i..Len(chars) : IsLexeme(SubSeq(chars, i, k))}
      rest == LexemesFrom(chars, Max(ends) + 1)
      pointless == IsInt(SubSeq(chars, i, Max(ends))) /\ Max(ends) < Len(chars) /\ chars[Max(ends) + 1] = "."
  IN  CASE i > Len(chars) -> [lexemes |-> <<[from |-> i, chars |-> <<EOF>>]>>, fails |-> FALSE]
        [] i <= Len(chars) /\ chars[i] \in WhiteChars -> LexemesFrom(chars, i + 1)
        [] i <= Len(chars) /\ chars[i] \notin WhiteChars /\ ends = {} -> [lexemes |-> <<>>, fails |-> TRUE]
        [] OTHER ->
             IF TooLong(SubSeq(chars, i, Max(ends))) \/ pointless
             THEN [lexemes |-> <<>>, fails |-> TRUE]
             ELSE [rest EXCEPT !.lexemes = <<[from |-> i, chars |-> SubSeq(chars, i, Max(ends))]>> \o @]

(* The lexer gives the tokens of its text, or those before an error when the  *)
(* text is in error (lexer.cpp 13-147).                                      *)
AgreesWithLexemes ==
  status # "running" =>
    LET chars == Unix(text)
        whole == LexemesFrom(chars, 1)
        TokenOf(lexeme) == LET tv == TypeAndValue(lexeme.chars)
                           IN  Token(tv.type, PositionAt(chars, lexeme.from), tv.value)
    IN  /\ whole.fails = (status # "finished")
        /\ tokens = [i \in DOMAIN whole.lexemes |-> TokenOf(whole.lexemes[i])]

(* It does so whenever no string and no comment goes beyond its limit.       *)
AgreesWithinLimits ==
  status # "running" =>
    LET chars == Append(Unix(text), EOF)
    IN  (\A i, k \in DOMAIN chars : ~Overlong(chars, i, k)) => AgreesWithLexemes
=============================================================================
