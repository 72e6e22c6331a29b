------------------------------- MODULE Lexer ---------------------------------
(***************************************************************************)
(* TptpLexer of src/frontend/tptp_parser.cc: nextToken() called until it   *)
(* returns kEOF, one character per step.  What the parser of module Tptp   *)
(* reads is the types and values of these tokens.                          *)
(***************************************************************************)
EXTENDS Integers, Sequences, FiniteSets

CONSTANTS
  Char, Alpha, Digit, Space,   \* characters and the classes of <cctype>
  Files                        \* what may be read: sequences of characters

ASSUME CharTyped ==
  /\ Alpha \cup Digit \cup Space \cup {"%", "_", "newline"} \subseteq Char
  /\ Files \subseteq Seq(Char)

\* isalpha, isdigit and isspace in the C locale, which the program never leaves.
ASSUME ClassesApart ==
  /\ "newline" \in Space
  /\ Space \cap (Alpha \cup Digit \cup {"_"}) = {}
  /\ "%" \notin Space \cup Alpha \cup Digit

VARIABLES
  source,         \* source_
  pos,            \* pos_, from 1
  line, column,   \* line_, column_
  start,          \* start_pos of the word under way
  mode,           \* "skip", "comment", "word" or "done"
  tokens          \* what nextToken() has returned

lexer_vars == <<source, pos, line, column, start, mode, tokens>>

TokenTypeOf(c) ==
  CASE c = "(" -> "kLParen" [] c = ")" -> "kRParen" [] c = "," -> "kComma"
    [] c = "." -> "kDot"    [] c = "~" -> "kNot"    [] c = "|" -> "kOr"
    [] OTHER -> "kUnkown"

WordStart == Alpha \cup {"_"}
WordChar  == WordStart \cup Digit

AtEnd  == pos > Len(source)
At(S)  == ~AtEnd /\ source[pos] \in S

\* Mutant of advanceChar: the column goes on after the end of a line.
advanceCharOnly ==
  /\ pos' = pos + 1 /\ column' = column + 1
  /\ line' = line + IF source[pos] = "newline" THEN 1 ELSE 0

advanceChar ==
  /\ pos' = pos + 1
  /\ IF source[pos] = "newline"
     THEN line' = line + 1 /\ column' = 1
     ELSE column' = column + 1 /\ UNCHANGED line

\* The position in a token is that behind it.
Deliver(type, value) ==
  tokens' = Append(tokens, [type |-> type, value |-> value, line |-> line', column |-> column'])

LexerInit ==
  /\ source \in Files
  /\ pos = 1 /\ line = 1 /\ column = 1 /\ start = 1
  /\ mode = "skip" /\ tokens = <<>>

-----------------------------------------------------------------------------
(* skipWhitespaceAndComments                                                *)

SkipSpace ==
  /\ mode = "skip" /\ At(Space)
  /\ advanceChar
  /\ UNCHANGED <<source, start, mode, tokens>>

BeginComment ==
  /\ mode = "skip" /\ At({"%"})
  /\ mode' = "comment"
  /\ UNCHANGED <<source, pos, line, column, start, tokens>>

SkipComment ==
  /\ mode = "comment" /\ At(Char \ {"newline"})
  /\ advanceChar
  /\ UNCHANGED <<source, start, mode, tokens>>

\* Mutant of EndComment: only a newline ends a comment.
EndCommentAtNewline ==
  /\ mode = "comment" /\ At({"newline"})
  /\ mode' = "skip"
  /\ UNCHANGED <<source, pos, line, column, start, tokens>>

EndComment ==
  /\ mode = "comment" /\ ~At(Char \ {"newline"})
  /\ mode' = "skip"
  /\ UNCHANGED <<source, pos, line, column, start, tokens>>

-----------------------------------------------------------------------------
(* The rest of nextToken                                                    *)

BeginWord ==
  /\ mode = "skip" /\ At(WordStart)
  /\ mode' = "word" /\ start' = pos
  /\ UNCHANGED <<source, pos, line, column, tokens>>

ReadWord ==
  /\ mode = "word" /\ At(WordChar)
  /\ advanceChar
  /\ UNCHANGED <<source, start, mode, tokens>>

EndWord ==
  /\ mode = "word" /\ ~At(WordChar)
  /\ mode' = "skip"
  /\ UNCHANGED <<source, pos, line, column, start>>
  /\ Deliver("kWord", SubSeq(source, start, pos - 1))

ReadSymbol ==
  /\ mode = "skip" /\ At(Char \ (Space \cup {"%"} \cup WordStart))
  /\ advanceChar
  /\ Deliver(TokenTypeOf(source[pos]), <<source[pos]>>)
  /\ UNCHANGED <<source, start, mode>>

ReadEnd ==
  /\ mode = "skip" /\ AtEnd
  /\ mode' = "done"
  /\ UNCHANGED <<source, pos, line, column, start>>
  /\ Deliver("kEOF", <<>>)

skipWhitespaceAndComments == SkipSpace \/ BeginComment \/ SkipComment \/ EndComment
nextToken == \/ skipWhitespaceAndComments
             \/ BeginWord \/ ReadWord \/ EndWord \/ ReadSymbol \/ ReadEnd

LexerNext == nextToken

LexerSpec == LexerInit /\ [][LexerNext]_lexer_vars /\ WF_lexer_vars(nextToken)

-----------------------------------------------------------------------------
(* Properties *)

\* What a character belongs to, read off the text alone.
InComment(k) == \E j \in 1..k : source[j] = "%" /\ \A i \in j..k : source[i] # "newline"
Significant(k) == source[k] \notin Space /\ ~InComment(k)
InWord(k) ==
  Significant(k) /\ \E j \in 1..k : source[j] \in WordStart /\ \A i \in j..k : source[i] \in WordChar

Starts == {k \in DOMAIN source : Significant(k) /\ ~(k > 1 /\ InWord(k - 1) /\ InWord(k))}

LexemeAt(k) ==
  LET end == IF ~InWord(k) THEN k
             ELSE CHOOSE e \in k..Len(source) :
                    /\ \A i \in k..e : InWord(i)
                    /\ e = Len(source) \/ ~InWord(e + 1)
      newlines == {j \in 1..(k - 1) : source[j] = "newline"}
      line_start == IF newlines = {} THEN 0 ELSE CHOOSE j \in newlines : \A i \in newlines : i <= j
  IN  [type   |-> IF InWord(k) THEN "kWord" ELSE TokenTypeOf(source[k]),
       value  |-> SubSeq(source, k, end),
       line   |-> Cardinality(newlines) + 1,
       column |-> end + 1 - line_start]

\* The tokens are the longest words and the single characters of the text outside
\* of blanks and comments, in order and each once, and an error message names the
\* line of its token and the column behind it.
TokensAreLexemes ==
  mode = "done" =>
    /\ Len(tokens) = Cardinality(Starts) + 1
    /\ \A k \in Starts : tokens[Cardinality({j \in Starts : j <= k})] = LexemeAt(k)
    /\ tokens[Len(tokens)].type = "kEOF"

\* Every text has an end, a comment without a newline or a word at its end too.
LexerEnds == <>(mode = "done")
=============================================================================
