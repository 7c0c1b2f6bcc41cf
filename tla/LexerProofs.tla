---------------------------- MODULE LexerProofs ----------------------------
(***************************************************************************)
(* The lexer keeps its types and its limits on every text, whatever the    *)
(* limits are.  LimitsHold is not inductive on its own: an escaped          *)
(* character is added without a look at the limit, which was checked before *)
(* the backslash.                                                          *)
(***************************************************************************)
EXTENDS Lexer, FiniteSetTheorems, TLAPS

EscapesFit == Building("escape") => Len(building.lexeme) < MaxStrLiteralLen

IInv == TypeOK /\ LimitsHold /\ EscapesFit

-----------------------------------------------------------------------------
(* The source.                                                             *)

(* The value of a digit is a digit.                                        *)
LEMMA DigitValues == ASSUME NEW c \in Digits PROVE DigitValue[c] \in 0..9
BY DEF Digits, DigitValue

(* The stream gives characters, and does not go beyond the end.             *)
LEMMA CharacterRead ==
  ASSUME NEW i \in Nat \ {0}, text \in Texts
  PROVE  CharAt(i) \in Characters \cup {EOF}
<1>1. text \in Seq(Characters)
  BY TextsAssumption
<1>2. LF \in Characters
  BY DEF Characters, WhiteChars
<1> QED
  BY <1>1, <1>2 DEF CharAt

LEMMA ReadWithinText ==
  ASSUME NEW i \in Nat, text \in Texts, i <= Len(text)
  PROVE  ReadAfter(i + 1) \in 0..Len(text)
<1>1. text \in Seq(Characters)
  BY TextsAssumption
<1>2. Len(text) \in Nat
  BY <1>1
<1>3. CASE i + 1 > Len(text)
  BY <1>2, <1>3 DEF ReadAfter
<1>4. CASE i + 1 <= Len(text) /\ text[i + 1] = CR /\ CharAt(i + 1) = LF
  <2>1. i + 1 < Len(text)
    BY <1>2, <1>4 DEF CharAt, CR, LF
  <2> QED
    BY <1>2, <1>4, <2>1 DEF ReadAfter
<1>5. CASE i + 1 <= Len(text) /\ ~(text[i + 1] = CR /\ CharAt(i + 1) = LF)
  BY <1>2, <1>5 DEF ReadAfter
<1> QED
  BY <1>2, <1>3, <1>4, <1>5

LEMMA PositionAdjusted ==
  ASSUME NEW p \in Positions, NEW c
  PROVE  Adjusted(p, c) \in Positions
BY DEF Adjusted, Positions

(* What the state of the source is after a character was read.              *)
SourceOK ==
  /\ read \in 0..Len(text)
  /\ nextPosition \in Positions /\ position \in Positions
  /\ character \in Characters \cup {EOF}

LEMMA ReadingKeepsTypes ==
  ASSUME TypeOK, UNCHANGED text, GetNextChar
  PROVE  SourceOK'
<1>1. text \in Texts /\ read \in 0..Len(text) /\ nextPosition \in Positions
  BY DEF TypeOK
<1>2. text \in Seq(Characters)
  BY <1>1, TextsAssumption
<1>3. read \in Nat /\ read <= Len(text)
  BY <1>1, <1>2
<1>4. ReadAfter(read + 1) \in 0..Len(text)
  BY <1>1, <1>3, ReadWithinText
<1>5. CharAt(read + 1) \in Characters \cup {EOF}
  BY <1>1, <1>3, CharacterRead
<1>6. Adjusted(nextPosition, CharAt(read + 1)) \in Positions
  BY <1>1, PositionAdjusted
<1> QED
  BY <1>1, <1>4, <1>5, <1>6 DEF GetNextChar, SourceOK

LEMMA KeepingKeepsTypes ==
  ASSUME TypeOK, UNCHANGED text, UNCHANGED <<sourceVars, character, position>>
  PROVE  SourceOK'
BY DEF TypeOK, SourceOK, sourceVars

-----------------------------------------------------------------------------
(* Builders.                                                               *)

LexemeKinds == {"pair", "identifier", "string", "escape", "comment"}

(* What a builder of each kind holds.                                       *)
LEMMA LexemeBuilder ==
  ASSUME TypeOK, building.kind \in LexemeKinds
  PROVE  building \in [kind : LexemeKinds, at : Positions, lexeme : Lexeme]
BY DEF TypeOK, Builders, LexemeKinds, Idle

LEMMA IntBuilder ==
  ASSUME TypeOK, Building("int")
  PROVE  building \in [kind : {"int"}, at : Positions, integer : Int, digit : 0..9, zero : BOOLEAN]
BY DEF TypeOK, Builders, Building, Idle

LEMMA PointBuilder ==
  ASSUME TypeOK, Building("point")
  PROVE  building \in [kind : {"point"}, at : Positions, integer : Int]
BY DEF TypeOK, Builders, Building, Idle

LEMMA FractionBuilder ==
  ASSUME TypeOK, Building("fraction")
  PROVE  building \in [kind : {"fraction"}, at : Positions, integer : Int, fraction : Nat, digits : Nat]
BY DEF TypeOK, Builders, Building, Idle

(* A builder may become idle, or begin with an empty or a short lexeme.      *)
BuildingOK == building \in Builders /\ LimitsHold /\ EscapesFit

LEMMA IdleIsOK == ASSUME building' = Idle PROVE BuildingOK'
BY DEF BuildingOK, Builders, Idle, LimitsHold, EscapesFit, Building, LengthLimit

LEMMA StartIsOK ==
  ASSUME TypeOK, NEW kind \in {"pair", "identifier", "string", "comment"}, NEW lexeme \in Lexeme,
         lexeme = <<>> \/ kind = "pair", Starts(kind, lexeme)
  PROVE  BuildingOK'
<1>1. position \in Positions
  BY DEF TypeOK
<1>2. building' = [kind |-> kind, at |-> position, lexeme |-> lexeme]
  BY DEF Starts
<1>3. building' \in Builders
  BY <1>1, <1>2 DEF Builders
<1>4. building'.kind = kind /\ building'.lexeme = lexeme
  BY <1>2
<1>5. EscapesFit'
  BY <1>4 DEF EscapesFit, Building
<1>6. LimitsHold'
  <2>1. MaxIdentifierLen \in Nat /\ MaxStrLiteralLen \in Nat /\ MaxCommentLen \in Nat
    BY LimitsAreNaturals DEF Limits
  <2>2. CASE lexeme = <<>>
    BY <1>4, <2>1, <2>2 DEF LimitsHold, Building, LengthLimit
  <2>3. CASE kind = "pair"
    BY <1>4, <2>3 DEF LimitsHold, Building, LengthLimit
  <2> QED
    BY <2>2, <2>3
<1> QED
  BY <1>3, <1>5, <1>6 DEF BuildingOK

(* A builder of text takes one more character when it is below its limit.    *)
LEMMA TakeIsOK ==
  ASSUME TypeOK, building.kind \in {"identifier", "string", "comment", "escape"},
         NEW kind \in {"identifier", "string", "comment"},
         NEW c \in Characters \cup {EOF},
         building' = [kind |-> kind, at |-> building.at, lexeme |-> Append(building.lexeme, c)],
         Len(building.lexeme) < LengthLimit[kind]
  PROVE  BuildingOK'
<1>1. building \in [kind : LexemeKinds, at : Positions, lexeme : Lexeme]
  BY LexemeBuilder DEF LexemeKinds
<1>2. building.lexeme \in Seq(Characters \cup {EOF}) /\ building.at \in Positions
  BY <1>1 DEF Lexeme
<1>3. Append(building.lexeme, c) \in Lexeme /\ Len(Append(building.lexeme, c)) = Len(building.lexeme) + 1
  BY <1>2 DEF Lexeme
<1>4. building' \in Builders
  BY <1>2, <1>3 DEF Builders
<1>5. building'.kind = kind /\ building'.lexeme = Append(building.lexeme, c)
  OBVIOUS
<1>6. EscapesFit'
  BY <1>5 DEF EscapesFit, Building
<1>7. Len(building.lexeme) \in Nat /\ LengthLimit[kind] \in Nat
  BY <1>2, LimitsAreNaturals DEF Limits, LengthLimit
<1>8. LimitsHold'
  BY <1>3, <1>5, <1>7 DEF LimitsHold, Building, LengthLimit
<1> QED
  BY <1>4, <1>6, <1>8 DEF BuildingOK

(* The other builders have no lexeme to limit.                              *)
LEMMA NumberIsOK ==
  ASSUME building' \in Builders, building'.kind \in {"int", "point"}
  PROVE  BuildingOK'
BY DEF BuildingOK, EscapesFit, LimitsHold, LengthLimit, Building

LEMMA FractionIsOK ==
  ASSUME building' \in Builders, building'.kind = "fraction", building'.fraction <= MaxFraction
  PROVE  BuildingOK'
BY DEF BuildingOK, EscapesFit, LimitsHold, LengthLimit, Building

(* The check before a digit of a fraction is exact where it has to be.       *)
LEMMA FractionStaysBelow ==
  ASSUME NEW fraction \in Nat, NEW digit \in 0..9, FractionFits(fraction, digit)
  PROVE  fraction * 10 + digit <= MaxFraction
<1>1. MaxFraction \in Nat /\ MaxFraction >= 9
  BY LimitsAreNaturals, MaxFractionAssumption DEF Limits
<1> QED
  BY <1>1 DEF FractionFits

-----------------------------------------------------------------------------

(* Every way of building a token keeps the builder right.                    *)
LEMMA BuildKeepsBuilding ==
  ASSUME IInv, Build
  PROVE  BuildingOK'
<1> USE DEF IInv
<1>0. BuildingOK /\ character \in Characters \cup {EOF} /\ position \in Positions
  BY DEF BuildingOK, TypeOK
<1>a. ASSUME UNCHANGED building PROVE BuildingOK'
  BY <1>0, <1>a DEF BuildingOK, LimitsHold, EscapesFit, Building
<1>b. ASSUME NEW e, Throw(e) PROVE BuildingOK'
  BY <1>a, <1>b DEF Throw
<1>c. ASSUME NEW type, NEW value, Ends(type, value) PROVE BuildingOK'
  BY <1>c, IdleIsOK DEF Ends
<1>d. <<>> \in Lexeme
  BY DEF Lexeme
<1>1. CASE IgnoreWhiteChar
  BY <1>1, <1>a DEF IgnoreWhiteChar
<1>2. CASE BuildSingle
  BY <1>2, <1>a DEF BuildSingle
<1>3. CASE StartPair
  <2>1. <<character>> \in Lexeme
    BY <1>0 DEF Lexeme
  <2> QED
    BY <1>3, <2>1, StartIsOK DEF StartPair
<1>4. CASE EndPair
  <2>1. PICK first : first = building.lexeme[1]
    OBVIOUS
  <2>2. \/ Ends(first, <<character>>) \/ Throw("UnexpectedCharacter") \/ Ends(first, <<>>)
    BY <1>4, <2>1 DEF EndPair
  <2> QED
    BY <2>2, <1>b, <1>c
<1>5. CASE StartIdentifier
  BY <1>5, <1>d, StartIsOK DEF StartIdentifier
<1>6. CASE TakeIdentifierChar
  <2>1. CASE Throw("IdentifierTooLong")
    BY <2>1, <1>b
  <2>2. CASE Len(building.lexeme) # MaxIdentifierLen /\ Takes(character)
    <3>1. building.kind = "identifier"
      BY <1>6 DEF TakeIdentifierChar, Goes, Building
    <3>2. building \in [kind : LexemeKinds, at : Positions, lexeme : Lexeme]
      BY <3>1, LexemeBuilder DEF LexemeKinds
    <3>3. building' = [kind |-> "identifier", at |-> building.at, lexeme |-> Append(building.lexeme, character)]
      BY <2>2, <3>1, <3>2 DEF Takes
    <3>4. Len(building.lexeme) \in Nat /\ MaxIdentifierLen \in Nat
      BY <3>2, LimitsAreNaturals DEF Limits, Lexeme
    <3>5. Len(building.lexeme) < LengthLimit["identifier"]
      BY <2>2, <3>1, <3>4 DEF LimitsHold, LengthLimit
    <3> QED
      BY <1>0, <3>1, <3>3, <3>5, TakeIsOK
  <2> QED
    BY <1>6, <2>1, <2>2 DEF TakeIdentifierChar
<1>7. CASE EndIdentifier
  <2>1. \/ Ends("KEYWORD", building.lexeme) \/ Ends("LITERAL_BOOL", building.lexeme = True)
        \/ Ends("IDENTIFIER", building.lexeme)
    BY <1>7 DEF EndIdentifier
  <2> QED
    BY <2>1, <1>c
<1>8. CASE StartString
  BY <1>8, <1>d, StartIsOK DEF StartString
<1>9. CASE UnfinishedString
  BY <1>9, <1>b DEF UnfinishedString
<1>10. CASE TakeStringChar
  <2>1. building.kind = "string" /\ Len(building.lexeme) < LengthLimit["string"]
    BY <1>10 DEF TakeStringChar, StringGoesOn, Goes, Building, LengthLimit
  <2>2. building \in [kind : LexemeKinds, at : Positions, lexeme : Lexeme]
    BY <2>1, LexemeBuilder DEF LexemeKinds
  <2>3. building' = [kind |-> "string", at |-> building.at, lexeme |-> Append(building.lexeme, character)]
    BY <1>10, <2>1, <2>2 DEF TakeStringChar, Takes
  <2> QED
    BY <1>0, <2>1, <2>3, TakeIsOK
<1>11. CASE StartEscape
  <2>1. building.kind = "string" /\ Len(building.lexeme) < MaxStrLiteralLen
    BY <1>11 DEF StartEscape, StringGoesOn, Goes, Building
  <2>2. building \in [kind : LexemeKinds, at : Positions, lexeme : Lexeme]
    BY <2>1, LexemeBuilder DEF LexemeKinds
  <2>3. building' = [kind |-> "escape", at |-> building.at, lexeme |-> building.lexeme]
    BY <1>11, <2>2 DEF StartEscape
  <2>4. building' \in Builders
    BY <2>2, <2>3 DEF Builders
  <2> QED
    BY <2>1, <2>3, <2>4 DEF BuildingOK, LimitsHold, EscapesFit, LengthLimit, Building
<1>12. CASE TakeEscape
  <2>1. building.kind = "escape" /\ Len(building.lexeme) < LengthLimit["string"]
    BY <1>12 DEF TakeEscape, EscapesFit, Goes, Building, LengthLimit
  <2>2. building \in [kind : LexemeKinds, at : Positions, lexeme : Lexeme]
    BY <2>1, LexemeBuilder DEF LexemeKinds
  <2>3. EscapedChar \in Characters \cup {EOF}
    BY <1>0 DEF EscapedChar, Characters, WhiteChars
  <2>4. building' = [kind |-> "string", at |-> building.at, lexeme |-> Append(building.lexeme, EscapedChar)]
    BY <1>12, <2>2 DEF TakeEscape
  <2> QED
    BY <2>1, <2>3, <2>4, TakeIsOK
<1>13. CASE EndString
  BY <1>13, <1>c DEF EndString
<1>14. CASE StartNumber
  <2>1. DigitValue[character] \in 0..9
    BY <1>14, DigitValues DEF StartNumber
  <2>2. building' = [kind |-> "int", at |-> position, integer |-> DigitValue[character],
                     digit |-> DigitValue[character], zero |-> DigitValue[character] = 0]
    BY <1>14 DEF StartNumber
  <2>3. building' \in Builders
    BY <1>0, <2>1, <2>2 DEF Builders
  <2> QED
    BY <2>2, <2>3, NumberIsOK
<1>15. CASE TakeDigit
  <2>1. CASE Throw("ParseIntOverflow")
    BY <2>1, <1>b
  <2>2. CASE building' = [building EXCEPT !.digit = DigitValue[character],
                                          !.integer = Wrapped(@ * 10 + DigitValue[character])]
    <3>1. building \in [kind : {"int"}, at : Positions, integer : Int, digit : 0..9, zero : BOOLEAN]
      BY <1>15, IntBuilder DEF TakeDigit, Goes
    <3>2. DigitValue[character] \in 0..9
      BY <1>15, DigitValues DEF TakeDigit
    <3>3. MaxInt \in Nat
      BY LimitsAreNaturals DEF Limits
    <3>4. ASSUME NEW n \in Int PROVE Wrapped(n) \in Int
      BY <3>3 DEF Wrapped
    <3>5. Wrapped(building.integer * 10 + DigitValue[character]) \in Int
      BY <3>1, <3>2, <3>4
    <3>6. building' \in [kind : {"int"}, at : Positions, integer : Int, digit : 0..9, zero : BOOLEAN]
      BY <2>2, <3>1, <3>2, <3>5
    <3> QED
      BY <3>6, NumberIsOK DEF Builders
  <2> QED
    BY <1>15, <2>1, <2>2 DEF TakeDigit
<1>16. CASE EndInt
  BY <1>16, <1>c DEF EndInt
<1>17. CASE TakePoint
  <2>1. building \in [kind : {"int"}, at : Positions, integer : Int, digit : 0..9, zero : BOOLEAN]
    BY <1>17, IntBuilder DEF TakePoint, Goes
  <2>2. building' \in [kind : {"point"}, at : Positions, integer : Int]
    BY <1>17, <2>1 DEF TakePoint
  <2> QED
    BY <2>2, NumberIsOK DEF Builders
<1>18. CASE StartFraction
  <2>1. CASE Throw("UnexpectedCharacter")
    BY <2>1, <1>b
  <2>2. CASE /\ character \in Digits
             /\ building' = [kind |-> "fraction", at |-> building.at, integer |-> building.integer,
                             fraction |-> DigitValue[character], digits |-> 1]
    <3>1. building \in [kind : {"point"}, at : Positions, integer : Int]
      BY <1>18, PointBuilder DEF StartFraction, Goes
    <3>2. DigitValue[character] \in 0..9
      BY <2>2, DigitValues
    <3>3. building' \in Builders
      BY <2>2, <3>1, <3>2 DEF Builders
    <3>4. building'.fraction <= MaxFraction
      BY <2>2, <3>2, LimitsAreNaturals, MaxFractionAssumption DEF Limits
    <3> QED
      BY <2>2, <3>3, <3>4, FractionIsOK
  <2> QED
    BY <1>18, <2>1, <2>2 DEF StartFraction
<1>19. CASE TakeFractionDigit
  <2>1. CASE Throw("ParseFractionRangeExceeded")
    BY <2>1, <1>b
  <2>2. CASE /\ FractionFits(building.fraction, DigitValue[character])
             /\ building' = [building EXCEPT !.fraction = @ * 10 + DigitValue[character], !.digits = @ + 1]
    <3>1. building \in [kind : {"fraction"}, at : Positions, integer : Int, fraction : Nat, digits : Nat]
      BY <1>19, FractionBuilder DEF TakeFractionDigit, Goes
    <3>2. DigitValue[character] \in 0..9
      BY <1>19, DigitValues DEF TakeFractionDigit
    <3>3. building.fraction * 10 + DigitValue[character] <= MaxFraction
      BY <2>2, <3>1, <3>2, FractionStaysBelow
    <3>4. building' \in [kind : {"fraction"}, at : Positions, integer : Int, fraction : Nat, digits : Nat]
      <4>1. building.fraction * 10 + DigitValue[character] \in Nat /\ building.digits + 1 \in Nat
        BY <3>1, <3>2
      <4> QED
        BY <2>2, <3>1, <4>1
    <3>5. building'.fraction <= MaxFraction
      BY <2>2, <3>1, <3>3
    <3> QED
      BY <3>4, <3>5, FractionIsOK DEF Builders
  <2> QED
    BY <1>19, <2>1, <2>2 DEF TakeFractionDigit
<1>20. CASE EndFraction
  BY <1>20, <1>c DEF EndFraction
<1>21. CASE StartComment
  BY <1>21, <1>d, StartIsOK DEF StartComment
<1>22. CASE TakeCommentChar
  <2>1. building.kind = "comment" /\ Len(building.lexeme) < LengthLimit["comment"]
    BY <1>22 DEF TakeCommentChar, CommentGoesOn, Goes, Building, LengthLimit
  <2>2. building \in [kind : LexemeKinds, at : Positions, lexeme : Lexeme]
    BY <2>1, LexemeBuilder DEF LexemeKinds
  <2>3. building' = [kind |-> "comment", at |-> building.at, lexeme |-> Append(building.lexeme, character)]
    BY <1>22, <2>1, <2>2 DEF TakeCommentChar, Takes
  <2> QED
    BY <1>0, <2>1, <2>3, TakeIsOK
<1>23. CASE EndComment
  BY <1>23, <1>c DEF EndComment
<1>24. CASE Unexpected
  BY <1>24, <1>b DEF Unexpected
<1> QED
  BY <1>1, <1>2, <1>3, <1>4, <1>5, <1>6, <1>7, <1>8, <1>9, <1>10, <1>11, <1>12, <1>13, <1>14, <1>15,
     <1>16, <1>17, <1>18, <1>19, <1>20, <1>21, <1>22, <1>23, <1>24 DEF Build

(* Every action leaves the source alone or reads from it.                    *)
ReadsOrKeeps == GetNextChar \/ UNCHANGED <<sourceVars, character, position>>

LEMMA BuildReadsOrKeeps == ASSUME Build PROVE ReadsOrKeeps
<1>1. Keep => ReadsOrKeeps
  BY DEF Keep, ReadsOrKeeps
<1>2. GetNextChar => ReadsOrKeeps
  BY DEF ReadsOrKeeps
<1>3. ASSUME NEW e, Throw(e) PROVE ReadsOrKeeps
  BY <1>3 DEF Throw, ReadsOrKeeps
<1>4. CASE IgnoreWhiteChar \/ BuildSingle \/ StartPair \/ StartString \/ TakeStringChar \/ StartEscape
           \/ TakeEscape \/ EndString \/ StartNumber \/ TakePoint \/ StartComment \/ TakeCommentChar
  BY <1>4, <1>2 DEF IgnoreWhiteChar, BuildSingle, StartPair, StartString, TakeStringChar, StartEscape,
                    TakeEscape, EndString, StartNumber, TakePoint, StartComment, TakeCommentChar
<1>5. CASE StartIdentifier \/ EndIdentifier \/ EndInt \/ EndFraction \/ EndComment
  BY <1>5, <1>1 DEF StartIdentifier, EndIdentifier, EndInt, EndFraction, EndComment
<1>6. CASE UnfinishedString \/ Unexpected
  BY <1>6, <1>3 DEF UnfinishedString, Unexpected
<1>7. CASE EndPair
  <2>1. Keep \/ GetNextChar \/ Throw("UnexpectedCharacter")
    BY <1>7 DEF EndPair
  <2> QED
    BY <2>1, <1>1, <1>2, <1>3
<1>8. CASE TakeIdentifierChar
  BY <1>8, <1>2, <1>3 DEF TakeIdentifierChar
<1>9. CASE TakeDigit
  BY <1>9, <1>2, <1>3 DEF TakeDigit
<1>10. CASE StartFraction
  BY <1>10, <1>2, <1>3 DEF StartFraction
<1>11. CASE TakeFractionDigit
  BY <1>11, <1>2, <1>3 DEF TakeFractionDigit
<1> QED
  BY <1>4, <1>5, <1>6, <1>7, <1>8, <1>9, <1>10, <1>11 DEF Build

LEMMA BuildKeepsSource == ASSUME TypeOK, UNCHANGED text, Build PROVE SourceOK'
BY BuildReadsOrKeeps, ReadingKeepsTypes, KeepingKeepsTypes DEF ReadsOrKeeps

-----------------------------------------------------------------------------
(* Positions.  The place of the next character is known too, and a line      *)
(* ending of two characters is read as a whole.                              *)
Index(c, r) ==
  CASE c = EOF -> Len(text) + 1
    [] c = LF /\ r > 1 /\ text[r - 1] = CR -> r - 1
    [] OTHER -> r

PlacesAre(c, p, r, next) ==
  /\ p = PlaceOf(Index(c, r))
  /\ next = PlaceOf(r + 1)
  /\ r > 0 /\ r < Len(text) /\ text[r] = CR => text[r + 1] # LF

PlacesOK == PlacesAre(character, position, read, nextPosition)

(* What a character does to the place of the one after it.                   *)
LEMMA PlaceAfter ==
  ASSUME text \in Seq(Characters), NEW i \in 1..Len(text)
  PROVE  PlaceOf(i + 1) = IF text[i] = LF
                          THEN [line |-> PlaceOf(i).line + 1, column |-> 1]
                          ELSE [line |-> PlaceOf(i).line, column |-> PlaceOf(i).column + 1]
<1> DEFINE LineEnds(k) == {j \in 1..(k - 1) : text[j] = LF}
           Before(k) == {j \in 1..(k - 1) : \A m \in j..(k - 1) : text[m] # LF}
<1>1. i \in Nat /\ i + 1 - 1 = i /\ i \in 1..i /\ i \notin 1..(i - 1) /\ 1..i = 1..(i - 1) \cup {i}
  OBVIOUS
<1>2. IsFiniteSet(LineEnds(i)) /\ IsFiniteSet(Before(i)) /\ Cardinality(LineEnds(i)) \in Nat /\ Cardinality(Before(i)) \in Nat
  <2>1. IsFiniteSet(1..(i - 1))
    BY FS_Interval
  <2>2. LineEnds(i) \in SUBSET (1..(i - 1)) /\ Before(i) \in SUBSET (1..(i - 1))
    OBVIOUS
  <2> QED
    BY <2>1, <2>2, FS_Subset, FS_CardinalityType
<1>3. PlaceOf(i) = [line |-> 1 + Cardinality(LineEnds(i)), column |-> 1 + Cardinality(Before(i))]
  BY DEF PlaceOf
<1>4. PlaceOf(i + 1) = [line |-> 1 + Cardinality(LineEnds(i + 1)), column |-> 1 + Cardinality(Before(i + 1))]
  BY DEF PlaceOf
<1>5. CASE text[i] = LF
  <2>1. LineEnds(i + 1) = LineEnds(i) \cup {i} /\ i \notin LineEnds(i)
    BY <1>1, <1>5
  <2>2. Before(i + 1) = {}
    BY <1>1, <1>5
  <2> HIDE DEF LineEnds, Before
  <2>3. Cardinality(LineEnds(i + 1)) = Cardinality(LineEnds(i)) + 1 /\ Cardinality(Before(i + 1)) = 0
    BY <1>2, <2>1, <2>2, FS_AddElement, FS_EmptySet
  <2> QED
    BY <1>2, <1>3, <1>4, <1>5, <2>3
<1>6. CASE text[i] # LF
  <2>1. LineEnds(i + 1) = LineEnds(i)
    BY <1>1, <1>6
  <2>2. Before(i + 1) = Before(i) \cup {i} /\ i \notin Before(i)
    <3>1. \A j \in 1..(i - 1) : j..i = (j..(i - 1)) \cup {i}
      BY <1>1
    <3>2. i..i = {i}
      BY <1>1
    <3> QED
      BY <1>1, <1>6, <3>1, <3>2
  <2> HIDE DEF LineEnds, Before
  <2>3. Cardinality(Before(i + 1)) = Cardinality(Before(i)) + 1
    BY <1>2, <2>2, FS_AddElement
  <2> QED
    BY <1>2, <1>3, <1>4, <1>6, <2>1, <2>3
<1> QED
  BY <1>5, <1>6

(* Reading the i-th character, when the one before was not cut off from it.  *)
LEMMA PlacesRead ==
  ASSUME text \in Texts, NEW i \in Nat, i > 0, i <= Len(text) + 1,
         i > 1 /\ i <= Len(text) /\ text[i - 1] = CR => text[i] # LF,
         NEW c, c = CharAt(i), NEW r, r = ReadAfter(i), NEW next, next = Adjusted(PlaceOf(i), c)
  PROVE  PlacesAre(c, PlaceOf(i), r, next)
<1>1. text \in Seq(Characters) /\ Len(text) \in Nat
  BY TextsAssumption
<1>2. EOF \notin Characters /\ LF # CR /\ LF # EOF
  BY LettersAreLetters DEF Characters, Digits, WhiteChars, Singles, FirstOfPair, Extended, EOF, LF, CR, QUOTE, BACKSLASH
<1>4. CASE i = Len(text) + 1
  <2>1. c = EOF /\ r = Len(text) /\ next = PlaceOf(i)
    BY <1>1, <1>2, <1>4 DEF CharAt, ReadAfter, Adjusted
  <2>2. Index(c, r) = i
    BY <1>2, <1>4, <2>1 DEF Index
  <2> QED
    BY <1>1, <1>4, <2>1, <2>2 DEF PlacesAre
<1>5. CASE i < Len(text) /\ text[i] = CR /\ text[i + 1] = LF
  <2>1. c = LF /\ r = i + 1
    BY <1>1, <1>2, <1>5 DEF CharAt, ReadAfter
  <2>2. next = [line |-> PlaceOf(i).line + 1, column |-> 1]
    <3>1. CharAt(i) = LF
      BY <2>1
    <3> QED
      BY <1>2, <3>1 DEF Adjusted
  <2>3. PlaceOf(i + 1).line = PlaceOf(i).line
    <3>1. i \in 1..Len(text) /\ text[i] # LF
      BY <1>1, <1>2, <1>5
    <3>2. PlaceOf(i + 1) = [line |-> PlaceOf(i).line, column |-> PlaceOf(i).column + 1]
      BY <1>1, <3>1, PlaceAfter
    <3> QED
      BY <3>2
  <2>4. PlaceOf(i + 1 + 1) = [line |-> PlaceOf(i + 1).line + 1, column |-> 1]
    <3>1. i + 1 \in 1..Len(text)
      BY <1>1, <1>5
    <3> QED
      BY <1>1, <1>5, <3>1, PlaceAfter
  <2>5. Index(c, r) = i
    BY <1>1, <1>2, <1>5, <2>1 DEF Index
  <2> QED
    BY <1>1, <1>2, <1>5, <2>1, <2>2, <2>3, <2>4, <2>5 DEF PlacesAre
<1>6. CASE i <= Len(text) /\ ~(i < Len(text) /\ text[i] = CR /\ text[i + 1] = LF)
  <2>1. text[i] \in Characters
    BY <1>1, <1>6
  <2>2. c = text[i] /\ CharAt(i) = text[i] /\ text[i] # EOF
    BY <1>1, <1>2, <1>6, <2>1 DEF CharAt
  <2>3. r = i
    BY <1>1, <1>2, <1>6, <2>2 DEF ReadAfter
  <2>4. next = PlaceOf(i + 1)
    <3>1. i \in 1..Len(text)
      BY <1>1, <1>6
    <3>2. next = IF text[i] = LF THEN [line |-> PlaceOf(i).line + 1, column |-> 1]
                                           ELSE [PlaceOf(i) EXCEPT !.column = @ + 1]
      BY <1>2, <2>2 DEF Adjusted
    <3>3. [PlaceOf(i) EXCEPT !.column = @ + 1] = [line |-> PlaceOf(i).line, column |-> PlaceOf(i).column + 1]
      BY DEF PlaceOf
    <3> QED
      BY <1>1, <3>1, <3>2, <3>3, PlaceAfter
  <2>5. Index(c, r) = i
    BY <1>1, <1>2, <1>6, <2>2, <2>3 DEF Index
  <2> QED
    BY <1>1, <1>6, <2>3, <2>4, <2>5 DEF PlacesAre
<1> QED
  BY <1>1, <1>4, <1>5, <1>6

LEMMA BuildKeepsPlaces ==
  ASSUME TypeOK, PlacesOK, UNCHANGED text, ReadsOrKeeps
  PROVE  PlacesOK'
<1>1. text \in Texts /\ read \in Nat /\ read <= Len(text) /\ Len(text) \in Nat
  <2>1. text \in Seq(Characters)
    BY TextsAssumption DEF TypeOK
  <2> QED
    BY <2>1 DEF TypeOK
<1>2. CASE GetNextChar
  <2> DEFINE i == read + 1
  <2>1. i \in Nat /\ i > 0 /\ i <= Len(text) + 1 /\ i - 1 = read /\ (i > 1 => read > 0)
        /\ (i <= Len(text) => read < Len(text))
    BY <1>1
  <2>2. i > 1 /\ i <= Len(text) /\ text[i - 1] = CR => text[i] # LF
    BY <2>1 DEF PlacesOK, PlacesAre
  <2>3. /\ position' = PlaceOf(i) /\ character' = CharAt(i) /\ read' = ReadAfter(i)
        /\ nextPosition' = Adjusted(PlaceOf(i), CharAt(i))
    BY <1>2 DEF GetNextChar, PlacesOK, PlacesAre
  <2> HIDE DEF i
  <2> QED
    <3>1. PlacesAre(character', position', read', nextPosition')
      BY <1>1, <2>1, <2>2, <2>3, PlacesRead
    <3> QED
      BY <3>1 DEF PlacesOK, PlacesAre, PlaceOf, Index
<1>3. CASE UNCHANGED <<sourceVars, character, position>>
  BY <1>3 DEF PlacesOK, PlacesAre, PlaceOf, Index, sourceVars
<1> QED
  BY <1>2, <1>3 DEF ReadsOrKeeps

LEMMA PlacesAtStart == ASSUME Init PROVE PlacesOK
<1>1. text \in Texts /\ Len(text) \in Nat
  BY TextsAssumption DEF Init
<1>2. PlaceOf(1) = [line |-> 1, column |-> 1]
  <2>1. 1..(1 - 1) = {}
    OBVIOUS
  <2> QED
    BY <2>1, FS_EmptySet DEF PlaceOf
<1>3. PlacesAre(CharAt(1), PlaceOf(1), ReadAfter(1), Adjusted(PlaceOf(1), CharAt(1)))
  BY <1>1, PlacesRead
<1> QED
  BY <1>2, <1>3 DEF Init, PlacesOK

LEMMA InitialState == Init => IInv
<1> SUFFICES ASSUME Init PROVE IInv
  OBVIOUS
<1>1. text \in Texts /\ text \in Seq(Characters) /\ Len(text) \in Nat
  BY TextsAssumption DEF Init
<1>2. CharAt(1) \in Characters \cup {EOF}
  BY <1>1, CharacterRead
<1>3. ReadAfter(0 + 1) \in 0..Len(text)
  BY <1>1, ReadWithinText
<1>4. position \in Positions
  BY DEF Init, Positions
<1>5. nextPosition \in Positions
  BY <1>4, PositionAdjusted DEF Init
<1>6. building \in Builders /\ building.kind = "idle"
  BY DEF Init, Builders, Idle
<1> QED
  BY <1>1, <1>2, <1>3, <1>4, <1>5, <1>6
  DEF Init, IInv, TypeOK, LimitsHold, EscapesFit, Building, LengthLimit

LEMMA NextState == IInv /\ [Next]_vars => IInv'
<1> SUFFICES ASSUME IInv, [Next]_vars PROVE IInv'
  OBVIOUS
<1>1. CASE Build /\ UNCHANGED text
  <2>1. SourceOK'
    BY <1>1, BuildKeepsSource DEF IInv
  <2>2. BuildingOK'
    BY <1>1, BuildKeepsBuilding
  <2>3. (text \in Texts)'
    BY <1>1 DEF IInv, TypeOK
  <2> QED
    BY <2>1, <2>2, <2>3 DEF IInv, TypeOK, SourceOK, BuildingOK
<1>2. CASE UNCHANGED vars
  BY <1>2 DEF vars, sourceVars, IInv, TypeOK, LimitsHold, EscapesFit, Building
<1> QED
  BY <1>1, <1>2 DEF Next, Stopped

(* The inductive invariant holds throughout (lexer.cpp 8-152).             *)
THEOREM Invariance == Spec => []IInv
BY InitialState, NextState, PTL DEF Spec

(* The lexer has its types on every text: one character ahead, read no       *)
(* further than the end, and a builder of one of the kinds (lexer.cpp 8-33,  *)
(* source_handler.cpp 5-33).                                                *)
THEOREM TypeCorrect == Spec => []TypeOK
<1>1. IInv => TypeOK
  BY DEF IInv
<1> QED
  BY <1>1, Invariance, PTL

(* No identifier, string or comment exceeds its limit, and no fraction       *)
(* wraps around, for all limits (lexer.cpp 48, 67, 141, 308).                *)
THEOREM LimitsAreKept == Spec => []LimitsHold
<1>1. IInv => LimitsHold
  BY DEF IInv
<1> QED
  BY <1>1, Invariance, PTL

(* The lexer knows where the character ahead is, on every text and with any   *)
(* line endings (source_handler.cpp 5-33, lexer.cpp 8-33).                   *)
THEOREM PositionsAreKnown == Spec => []PositionsAreExact
<1>1. ASSUME IInv, PlacesOK, [Next]_vars PROVE PlacesOK'
  <2>1. CASE Build /\ UNCHANGED text
    BY <1>1, <2>1, BuildReadsOrKeeps, BuildKeepsPlaces DEF IInv
  <2>2. CASE UNCHANGED vars
    BY <1>1, <2>2 DEF vars, PlacesOK, PlacesAre, PlaceOf, Index
  <2> QED
    BY <1>1, <2>1, <2>2 DEF Next, Stopped
<1>2. PlacesOK => PositionsAreExact
  BY DEF PlacesOK, PlacesAre, PositionsAreExact, IndexAhead, Index
<1> QED
  BY <1>1, <1>2, Invariance, PlacesAtStart, PTL DEF Spec
=============================================================================
