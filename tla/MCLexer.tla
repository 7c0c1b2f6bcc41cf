------------------------------ MODULE MCLexer ------------------------------
(* Every short text over several alphabets, each made for one kind of token. *)
EXTENDS Lexemes

MCLetters == {"a", "e", "f", "i", "n", "r", "t", "u"}
MCTexts ==
  SeqOf({"i", "f", "_", "1"}, 5) \cup SeqOf({"0", "1", "7", ".", "a"}, 5) \cup
  SeqOf({"-", "=", "<", ">", "!", "("}, 4) \cup SeqOf({QUOTE, BACKSLASH, "n", "a", LF}, 5) \cup
  SeqOf({"#", "a", QUOTE, CR, LF}, 5) \cup SeqOf({"$", " ", CR, LF}, 4) \cup {<<"t", "r", "u", "e">>}

(* The ints around the largest of eight bits.                               *)
LargeInts == {<<"1", "2", d>> : d \in {"6", "7", "8", "9"}} \cup {<<"1", "3", "0">>}
=============================================================================
