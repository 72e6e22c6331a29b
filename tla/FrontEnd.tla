------------------------------ MODULE FrontEnd -------------------------------
(***************************************************************************)
(* The front end from the characters of a file to clauses: TptpLexer       *)
(* (Lexer) and TptpParser (Tptp) of src/frontend/tptp_parser.cc, composed  *)
(* as parseTptpFile has them.  The parser asks for a token at a time; the  *)
(* lexer never throws and reads nothing but the text, so that here it has  *)
(* read it before the parser begins.                                       *)
(***************************************************************************)
EXTENDS Tptp, Lexer

CONSTANT NameOf(_)   \* the name that a word of characters is

\* The parser looks at types, at the value of a word, and of other tokens at none.
ParserToken(t) ==
  IF t.type = "kWord" THEN Word(NameOf(t.value)) ELSE Symbol(t.value[1])

ParserText == [k \in 1..(Len(tokens) - 1) |-> ParserToken(tokens[k])]

FrontEndInit == Init /\ LexerInit

Read == LexerNext /\ UNCHANGED vars

parseTptpFile ==
  /\ mode = "done" /\ parses = 0
  /\ parseTptpString(ParserText)
  /\ UNCHANGED lexer_vars

Parse == (parseProblem \/ prepareForProving) /\ UNCHANGED lexer_vars

FrontEndNext == Read \/ parseTptpFile \/ Parse

FrontEndFairness ==
  /\ WF_<<vars, lexer_vars>>(Read)
  /\ WF_<<vars, lexer_vars>>(parseProblem /\ UNCHANGED lexer_vars)
=============================================================================
