----------------------------- MODULE TokenFeeds -----------------------------
(***************************************************************************)
(* What the parser may rely on of the lexer: src/include/lexer.hpp,        *)
(* ILexer::get_next_token.                                                 *)
(***************************************************************************)
EXTENDS Parser

CONSTANT Feeds   (* what the lexer may have left to give at any time        *)

ASSUME LexerGivesTokens ==
  /\ Sources \subseteq Feeds
  /\ \A left \in Feeds : Gives(left) \subseteq Tokens \X Feeds
=============================================================================
