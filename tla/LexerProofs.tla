----------------------------- MODULE LexerProofs ------------------------------
(***************************************************************************)
(* Theorems about the lexer, for every text over every set of characters:  *)
(* what it returns are the lexemes of the text.                            *)
(***************************************************************************)
EXTENDS Lexer, SequenceTheorems, FiniteSetTheorems, WellFoundedInduction, TLAPS

TokenType == {"kLParen", "kRParen", "kComma", "kDot", "kNot", "kOr", "kUnkown", "kWord", "kEOF"}
Token     == [type : TokenType, value : Seq(Char), line : Nat, column : Int]

Newlines(p)  == {j \in 1..(p - 1) : source[j] = "newline"}
LineStart(p) == IF Newlines(p) = {} THEN 0
                ELSE CHOOSE j \in Newlines(p) : \A i \in Newlines(p) : i <= j

LexerTyped ==
  /\ source \in Seq(Char) /\ pos \in 1..(Len(source) + 1) /\ tokens \in Seq(Token)
  /\ mode \in {"skip", "comment", "word", "done"}

\* line and column are those of the next character.
PositionKnown ==
  /\ line = Cardinality(Newlines(pos)) + 1
  /\ column = pos - LineStart(pos)
  /\ LineStart(pos) \in 0..(pos - 1)

Before(p) == {k \in Starts : k < p}
Rank(k)   == Cardinality({j \in Starts : j <= k})

\* The lexemes that start before p have been returned, and nothing else.
Written(p) ==
  /\ Len(tokens) = Cardinality(Before(p))
  /\ \A k \in Before(p) : tokens[Rank(k)] = LexemeAt(k)

\* Outside of a word and a comment: if the next character is in a comment it
\* begins it, and it does not go on with a word.
BetweenLexemes ==
  /\ pos \in DOMAIN source /\ source[pos] # "%" => ~InComment(pos)
  /\ pos \in DOMAIN source /\ pos > 1 /\ InWord(pos - 1) => source[pos] \notin WordChar
  /\ Written(pos)

WithinComment ==
  /\ pos \in DOMAIN source /\ source[pos] # "newline" => InComment(pos)
  /\ Written(pos)

WithinWord ==
  /\ start \in Starts /\ start <= pos
  /\ source[start] \in WordStart /\ ~InComment(start)
  /\ \A i \in start..(pos - 1) : source[i] \in WordChar
  /\ Written(start)

LexerInv ==
  /\ LexerTyped
  /\ PositionKnown
  /\ mode = "skip"    => BetweenLexemes
  /\ mode = "comment" => WithinComment
  /\ mode = "word"    => WithinWord
  /\ mode = "done"    => TokensAreLexemes

-----------------------------------------------------------------------------
(* The classes of characters                                                *)

\* No character is in two classes.
LEMMA Classes ==
  /\ "newline" \in Space /\ "newline" \notin WordChar /\ "newline" # "%"
  /\ "%" \notin Space /\ "%" \notin WordChar /\ "%" \notin WordStart
  /\ Space \cap WordChar = {} /\ WordStart \subseteq WordChar
BY ClassesApart DEF WordChar, WordStart

\* A comment goes on until its line ends.
LEMMA CommentGoesOn ==
  ASSUME NEW p \in Nat \ {0, 1}
  PROVE  InComment(p) <=> source[p] = "%" \/ (InComment(p - 1) /\ source[p] # "newline")
<1>1. ASSUME InComment(p), source[p] # "%" PROVE InComment(p - 1) /\ source[p] # "newline"
  <2>1. PICK j \in 1..p : source[j] = "%" /\ \A i \in j..p : source[i] # "newline"
    BY <1>1 DEF InComment
  <2>2. j # p /\ j \in 1..(p - 1) /\ p \in j..p
    BY <1>1, <2>1
  <2>3. \A i \in j..(p - 1) : i \in j..p
    OBVIOUS
  <2> QED BY <2>1, <2>2, <2>3 DEF InComment
<1>2. ASSUME source[p] = "%" PROVE InComment(p)
  <2>1. p \in 1..p /\ \A i \in p..p : i = p
    OBVIOUS
  <2> QED BY <1>2, <2>1, Classes DEF InComment
<1>3. ASSUME InComment(p - 1), source[p] # "newline" PROVE InComment(p)
  <2>1. PICK j \in 1..(p - 1) : source[j] = "%" /\ \A i \in j..(p - 1) : source[i] # "newline"
    BY <1>3 DEF InComment
  <2>2. j \in 1..p /\ \A i \in j..p : i \in j..(p - 1) \/ i = p
    OBVIOUS
  <2> QED BY <1>3, <2>1, <2>2 DEF InComment
<1> QED BY <1>1, <1>2, <1>3

\* A comment at the beginning of the text opens with a percent sign.
LEMMA FirstComment == InComment(1) <=> source[1] = "%"
<1>1. 1..1 = {1}
  OBVIOUS
<1> QED BY <1>1, Classes DEF InComment

\* No character of a comment, a blank or the end of a line is one of a word.
LEMMA WordCharacters ==
  ASSUME NEW p \in Nat \ {0}, InWord(p)
  PROVE  source[p] \in WordChar /\ source[p] \notin Space /\ ~InComment(p)
<1>1. PICK j \in 1..p : \A i \in j..p : source[i] \in WordChar
  BY DEF InWord
<1>2. p \in j..p
  OBVIOUS
<1> QED BY <1>1, <1>2 DEF InWord, Significant

\* A word begins with a letter or an underscore and goes on to the next.
LEMMA WordGoesOn ==
  ASSUME NEW p \in Nat \ {0, 1}, source[p] \in WordChar, ~InComment(p)
  PROVE  InWord(p) <=> source[p] \in WordStart \/ InWord(p - 1)
<1>1. Significant(p)
  BY Classes DEF Significant
<1>2. ASSUME InWord(p), source[p] \notin WordStart PROVE InWord(p - 1)
  <2>1. PICK j \in 1..p : source[j] \in WordStart /\ \A i \in j..p : source[i] \in WordChar
    BY <1>2 DEF InWord
  <2>2. j \in 1..(p - 1) /\ p - 1 \in j..p /\ \A i \in j..(p - 1) : i \in j..p
    BY <1>2, <2>1
  <2>3. source[p - 1] \notin Space
    BY <2>1, <2>2, Classes
  <2>4. ~InComment(p - 1)
    BY CommentGoesOn, Classes
  <2> QED BY <2>1, <2>2, <2>3, <2>4 DEF InWord, Significant
<1>3. ASSUME source[p] \in WordStart PROVE InWord(p)
  <2>1. p \in 1..p /\ \A i \in p..p : i = p
    OBVIOUS
  <2> QED BY <1>1, <1>3, <2>1, Classes DEF InWord
<1>4. ASSUME InWord(p - 1) PROVE InWord(p)
  <2>1. PICK j \in 1..(p - 1) : source[j] \in WordStart /\ \A i \in j..(p - 1) : source[i] \in WordChar
    BY <1>4 DEF InWord
  <2>2. j \in 1..p /\ \A i \in j..p : i \in j..(p - 1) \/ i = p
    OBVIOUS
  <2> QED BY <1>1, <2>1, <2>2 DEF InWord
<1> QED BY <1>2, <1>3, <1>4

\* A letter at the beginning of the text begins a word.
LEMMA FirstWord ==
  ASSUME source[1] \in WordStart
  PROVE  InWord(1)
<1>1. 1..1 = {1}
  OBVIOUS
<1> QED BY <1>1, FirstComment, Classes DEF InWord, Significant

\* A word at the beginning of the text begins with a letter.
LEMMA FirstIsStart ==
  ASSUME InWord(1)
  PROVE  source[1] \in WordStart
<1>1. 1..1 = {1}
  OBVIOUS
<1> QED BY <1>1 DEF InWord

-----------------------------------------------------------------------------
(* Counting lexemes and lines                                               *)

\* A set of natural numbers has a least one.
LEMMA LeastNatural ==
  ASSUME NEW S \in SUBSET Nat, S # {}
  PROVE  \E n \in S : \A m \in S : n <= m
<1> DEFINE R == {ss \in Nat \X Nat : ss[1] < ss[2]}
<1>1. IsWellFoundedOn(R, Nat)
  BY NatLessThanWellFounded DEF OpToRel
<1>2. \A x, y \in Nat : y < x => <<y, x>> \in R
  OBVIOUS
<1>3. PICK x \in S : \A y \in S : ~(<<y, x>> \in R)
  <2> HIDE DEF R
  <2> QED BY <1>1, WFMin
<1>4. \A y \in S : ~(y < x)
  <2> HIDE DEF R
  <2> QED BY <1>2, <1>3
<1> QED BY <1>3, <1>4

\* A text has finitely many starts.
LEMMA StartsFinite ==
  ASSUME source \in Seq(Char)
  PROVE  /\ IsFiniteSet(Starts) /\ Starts \subseteq 1..Len(source) /\ Len(source) \in Nat
         /\ \A S \in SUBSET Starts : IsFiniteSet(S) /\ Cardinality(S) \in Nat
<1>1. DOMAIN source = 1..Len(source) /\ Len(source) \in Nat
  OBVIOUS
<1>2. IsFiniteSet(1..Len(source))
  BY <1>1, FS_Interval
<1>3. Starts \subseteq 1..Len(source)
  BY <1>1 DEF Starts
<1>4. \A S \in SUBSET Starts : IsFiniteSet(S)
  BY <1>2, <1>3, FS_Subset
<1> QED BY <1>1, <1>3, <1>4, FS_CardinalityType

\* The next lexeme has the next rank, and those before it lower ones.
LEMMA NextRank ==
  ASSUME source \in Seq(Char), NEW p \in Starts
  PROVE  /\ Rank(p) = Cardinality(Before(p)) + 1
         /\ \A k \in Before(p) : Rank(k) \in 1..Cardinality(Before(p))
         /\ Cardinality(Before(p)) \in Nat
<1>1. Starts \subseteq Nat
  BY StartsFinite
<1>2. /\ IsFiniteSet(Before(p)) /\ Cardinality(Before(p)) \in Nat /\ p \notin Before(p)
      /\ {j \in Starts : j <= p} = Before(p) \cup {p}
  <2>1. Before(p) \in SUBSET Starts /\ p \in Nat
    BY <1>1 DEF Before
  <2>2. \A j \in Starts : j <= p <=> j < p \/ j = p
    BY <1>1, <2>1
  <2>3. {j \in Starts : j <= p} = Before(p) \cup {p}
    BY <2>2 DEF Before
  <2>4. p \notin Before(p)
    BY <2>1 DEF Before
  <2> QED BY <2>1, <2>3, <2>4, StartsFinite
<1>3. Rank(p) = Cardinality(Before(p)) + 1
  BY <1>2, FS_AddElement DEF Rank
<1>4. ASSUME NEW k \in Before(p) PROVE Rank(k) \in 1..Cardinality(Before(p))
  <2> DEFINE S == {j \in Starts : j <= k}
  <2>1. k \in S /\ S \in SUBSET Before(p) /\ IsFiniteSet(S) /\ Cardinality(S) \in Nat
    <3>1. k \in Starts /\ k \in Nat /\ p \in Nat /\ k < p
      BY <1>1 DEF Before
    <3>2. \A j \in Nat : j <= k => j < p
      BY <3>1
    <3>3. k \in S /\ S \in SUBSET Starts /\ \A j \in S : j < p
      BY <1>1, <3>1, <3>2
    <3> QED BY <3>3, StartsFinite DEF Before
  <2> HIDE DEF S
  <2>2. Cardinality(S) <= Cardinality(Before(p))
    BY <1>2, <2>1, FS_Subset
  <2>3. Cardinality(S) # 0
    BY <2>1, FS_EmptySet
  <2> QED BY <1>2, <2>1, <2>2, <2>3 DEF Rank, S
<1> QED BY <1>2, <1>3, <1>4

\* A position where no lexeme starts is passed by.
LEMMA PassBy ==
  ASSUME source \in Seq(Char), NEW p \in Nat, NEW q \in Nat, p <= q,
         \A k \in p..(q - 1) : k \notin Starts
  PROVE  Before(q) = Before(p)
<1>1. Starts \subseteq Nat
  BY StartsFinite
<1>2. \A k \in Nat : p <= k /\ k < q => k \in p..(q - 1)
  OBVIOUS
<1>3. \A k \in Starts : k < q => k < p
  BY <1>1, <1>2
<1>4. \A k \in Starts : k < p => k < q
  BY <1>1
<1> QED BY <1>3, <1>4 DEF Before

\* The lexeme that starts at p is returned, and the next starts at q or behind.
LEMMA Delivered ==
  ASSUME source \in Seq(Char), NEW p \in Starts, NEW q \in Nat, p < q,
         \A k \in (p + 1)..(q - 1) : k \notin Starts,
         tokens \in Seq(Token), Written(p), NEW t, t = LexemeAt(p),
         tokens' = Append(tokens, t), source' = source
  PROVE  Written(q)'
<1>1. p \in Nat
  BY StartsFinite
<1>2. Before(q) = Before(p) \cup {p}
  <2>1. Before(q) = Before(p + 1)
    BY <1>1, PassBy
  <2>2. Starts \subseteq Nat
    BY StartsFinite
  <2>3. \A k \in Nat : k < p + 1 <=> k < p \/ k = p
    BY <1>1
  <2>4. Before(p + 1) = Before(p) \cup {p}
    BY <2>2, <2>3 DEF Before
  <2> QED BY <2>1, <2>4
<1>3. /\ IsFiniteSet(Before(p)) /\ p \notin Before(p)
  BY <1>1, StartsFinite DEF Before
<1>4. Cardinality(Before(q)) = Cardinality(Before(p)) + 1
  BY <1>2, <1>3, FS_AddElement
<1>5. Len(tokens') = Len(tokens) + 1 /\ tokens'[Len(tokens) + 1] = t
      /\ \A i \in 1..Len(tokens) : tokens'[i] = tokens[i]
  OBVIOUS
<1>6. \A k \in Before(q) : tokens'[Rank(k)] = LexemeAt(k)
  BY <1>2, <1>5, NextRank DEF Written
<1>7. Len(tokens') = Cardinality(Before(q))
  BY <1>4, <1>5 DEF Written
<1>8. (Before(q) = Before(q)') /\ \A k : Rank(k)' = Rank(k) /\ LexemeAt(k)' = LexemeAt(k)
  BY DEF Before, Rank, LexemeAt, Starts, Significant, InComment, InWord
<1> QED BY <1>6, <1>7, <1>8 DEF Written

-----------------------------------------------------------------------------
(* Lines and columns                                                        *)

\* The line a position is in begins after the last newline before it.
LEMMA LineStartIs ==
  ASSUME NEW p \in Nat \ {0}
  PROVE  /\ LineStart(p) \in 0..(p - 1)
         /\ Newlines(p) # {} => LineStart(p) \in Newlines(p)
         /\ \A i \in Newlines(p) : i <= LineStart(p)
         /\ IsFiniteSet(Newlines(p)) /\ Cardinality(Newlines(p)) \in Nat
<1>1. Newlines(p) \subseteq 1..(p - 1) /\ IsFiniteSet(1..(p - 1))
  BY FS_Interval DEF Newlines
<1>2. IsFiniteSet(Newlines(p)) /\ Cardinality(Newlines(p)) \in Nat
  BY <1>1, FS_Subset, FS_CardinalityType
<1>3. CASE Newlines(p) = {}
  BY <1>2, <1>3 DEF LineStart
<1>4. CASE Newlines(p) # {}
  <2> DEFINE Up == {p - i : i \in Newlines(p)}
             Last(j) == j \in Newlines(p) /\ \A i \in Newlines(p) : i <= j
  <2>1. \E j : Last(j)
    <3>1. Up \in SUBSET Nat /\ Up # {}
      BY <1>1, <1>4
    <3>2. PICK m \in Up : \A l \in Up : m <= l
      BY <3>1, LeastNatural
    <3>3. PICK j \in Newlines(p) : m = p - j
      BY <3>2
    <3>4. \A i \in Newlines(p) : p - j <= p - i /\ i \in Int /\ j \in Int
      BY <1>1, <3>2, <3>3
    <3>5. \A i \in Newlines(p) : i <= j
      BY <3>4
    <3> QED BY <3>3, <3>5
  <2>2. Last(CHOOSE j : Last(j))
    <3> HIDE DEF Last
    <3> QED BY <2>1
  <2>3. LineStart(p) = CHOOSE j : Last(j)
    BY <1>4 DEF LineStart
  <2>4. Last(LineStart(p))
    BY <2>2, <2>3
  <2> QED BY <1>1, <1>2, <2>4
<1> QED BY <1>3, <1>4

\* The last newline is the only one without a newline behind it.
LEMMA LineStartIf ==
  ASSUME NEW p \in Nat \ {0}, NEW j \in Newlines(p), \A i \in Newlines(p) : i <= j
  PROVE  LineStart(p) = j
<1>1. LineStart(p) \in Newlines(p) /\ j <= LineStart(p) /\ LineStart(p) <= j
  BY LineStartIs
<1>2. Newlines(p) \subseteq Int
  BY DEF Newlines
<1> QED BY <1>1, <1>2

\* Any other character stays in its line.
LEMMA LineGoesOn ==
  ASSUME NEW p \in Nat \ {0}, source[p] # "newline"
  PROVE  Newlines(p + 1) = Newlines(p) /\ LineStart(p + 1) = LineStart(p)
<1>1. \A j : j \in 1..(p + 1 - 1) <=> j \in 1..(p - 1) \/ j = p
  OBVIOUS
<1>2. Newlines(p + 1) = Newlines(p)
  BY <1>1 DEF Newlines
<1>3. LineStart(p + 1) = LineStart(p)
  <2> DEFINE L(S) == IF S = {} THEN 0 ELSE CHOOSE j \in S : \A i \in S : i <= j
  <2>1. LineStart(p + 1) = L(Newlines(p + 1)) /\ LineStart(p) = L(Newlines(p))
    BY DEF LineStart
  <2> HIDE DEF L
  <2> QED BY <1>2, <2>1
<1> QED BY <1>2, <1>3

\* A newline begins a line.
LEMMA LineEnds ==
  ASSUME NEW p \in Nat \ {0}, source[p] = "newline"
  PROVE  Cardinality(Newlines(p + 1)) = Cardinality(Newlines(p)) + 1 /\ LineStart(p + 1) = p
<1>1. Newlines(p + 1) = Newlines(p) \cup {p} /\ p \notin Newlines(p)
  BY DEF Newlines
<1>2. Cardinality(Newlines(p + 1)) = Cardinality(Newlines(p)) + 1
  BY <1>1, LineStartIs, FS_AddElement
<1>3. \A i \in Newlines(p + 1) : i <= p
  BY DEF Newlines
<1>4. p + 1 \in Nat \ {0} /\ p \in Newlines(p + 1)
  BY <1>1
<1> QED BY <1>2, <1>3, <1>4, LineStartIf

\* advanceChar() keeps count of lines and columns.
LEMMA AdvanceKeeps ==
  ASSUME LexerTyped, PositionKnown, pos \in DOMAIN source, advanceChar, source' = source
  PROVE  /\ PositionKnown' /\ pos' = pos + 1 /\ pos' \in 1..(Len(source) + 1)
         /\ source[pos] # "newline" => line' = line /\ column' = column + 1
<1>1. pos \in Nat \ {0} /\ pos + 1 \in Nat \ {0} /\ pos + 1 \in 1..(Len(source) + 1)
  BY DEF LexerTyped
<1>2. pos' = pos + 1
  BY DEF advanceChar
<1>3. Newlines(pos)' = Newlines(pos + 1) /\ LineStart(pos)' = LineStart(pos + 1)
  BY <1>2 DEF Newlines, LineStart
<1>4. /\ LineStart(pos) \in Nat /\ Cardinality(Newlines(pos)) \in Nat
      /\ LineStart(pos + 1) \in 0..pos
  BY <1>1, LineStartIs
<1>5. CASE source[pos] = "newline"
  BY <1>1, <1>2, <1>3, <1>4, <1>5, LineEnds, SMTT(40) DEF advanceChar, PositionKnown
<1>6. CASE source[pos] # "newline"
  BY <1>1, <1>2, <1>3, <1>4, <1>6, LineGoesOn DEF advanceChar, PositionKnown
<1> QED BY <1>1, <1>2, <1>5, <1>6

-----------------------------------------------------------------------------
(* The steps of nextToken()                                                 *)

\* The invariant speaks of a text that does not change.
LEMMA Here ==
  ASSUME source' = source, NEW p, pos' = p
  PROVE  /\ InComment(pos)' <=> InComment(p)
         /\ InWord(pos - 1)' <=> InWord(p - 1)
         /\ Written(pos)' <=> Written(p)'
         /\ \A k : InWord(k)' <=> InWord(k)
         /\ \A k : InComment(k)' <=> InComment(k)
         /\ Starts' = Starts
         /\ tokens' = tokens => \A k : Written(k)' <=> Written(k)
<1>1. ASSUME NEW k
      PROVE  /\ InComment(k)' <=> InComment(k)
             /\ InWord(k)' <=> InWord(k)
             /\ LexemeAt(k)' = LexemeAt(k)
  BY DEF LexemeAt, Significant, InComment, InWord
<1>2. Starts' = Starts
  BY DEF Starts, Significant, InComment, InWord
<1>3. ASSUME NEW k
      PROVE  Before(k)' = Before(k) /\ Rank(k)' = Rank(k)
  BY <1>2 DEF Before, Rank
<1>4. ASSUME tokens' = tokens, NEW k
      PROVE  Written(k)' <=> Written(k)
  <2>1. Before(k)' = Before(k) /\ \A j \in Before(k) : Rank(j)' = Rank(j) /\ LexemeAt(j)' = LexemeAt(j)
    BY <1>1, <1>3
  <2> QED BY <1>4, <2>1 DEF Written
<1>5. Written(pos)' <=> Written(p)'
  BY DEF Written, Before
<1>6. InComment(pos)' <=> InComment(p)
  BY DEF InComment
<1>7. InWord(pos - 1)' <=> InWord(p - 1)
  BY DEF InWord, Significant, InComment
<1> QED BY <1>1, <1>2, <1>4, <1>5, <1>6, <1>7, Zenon

\* What is known of a position is known of start once it is there.
LEMMA ThereStarted ==
  ASSUME source' = source, tokens' = tokens, NEW p, start' = p
  PROVE  /\ InComment(start)' <=> InComment(p)
         /\ Written(start)' <=> Written(p)
         /\ Starts' = Starts
<1>1. Written(start)' <=> Written(p)'
  BY DEF Written, Before
<1>2. InComment(start)' <=> InComment(p)
  BY DEF InComment
<1>3. \A k : Written(k)' <=> Written(k)
  BY Here
<1>4. Starts' = Starts
  BY Here
<1> QED BY <1>1, <1>2, <1>3, <1>4, Zenon

\* Before an end of line or the end of the text no comment goes on.
LEMMA Significance ==
  ASSUME LexerTyped, BetweenLexemes, pos \in DOMAIN source, source[pos] # "%"
  PROVE  /\ Significant(pos) <=> source[pos] \notin Space
         /\ InWord(pos) <=> source[pos] \in WordStart
         /\ source[pos] \in WordStart => pos \in Starts
<1>1. pos \in Nat \ {0} /\ ~InComment(pos)
  BY DEF LexerTyped, BetweenLexemes
<1>2. Significant(pos) <=> source[pos] \notin Space
  BY <1>1 DEF Significant
<1>3. InWord(pos) <=> source[pos] \in WordStart
  <2>1. CASE pos = 1
    BY <2>1, FirstWord, FirstIsStart
  <2>2. CASE pos # 1
    <3>1. InWord(pos - 1) => source[pos] \notin WordChar
      BY <1>1, <2>2 DEF BetweenLexemes
    <3>2. source[pos] \in WordChar => (InWord(pos) <=> source[pos] \in WordStart)
      BY <1>1, <2>2, <3>1, WordGoesOn
    <3> QED BY <1>1, <3>2, WordCharacters, Classes
  <2> QED BY <2>1, <2>2
<1>4. ASSUME source[pos] \in WordStart PROVE pos \in Starts
  <2>1. Significant(pos) /\ source[pos] \in WordChar
    BY <1>2, <1>4, Classes
  <2>2. ~(pos > 1 /\ InWord(pos - 1))
    BY <2>1 DEF BetweenLexemes
  <2> QED BY <2>1, <2>2 DEF Starts
<1> QED BY <1>2, <1>3, <1>4

\* Where the next character is neither in a comment nor goes on with a word.
LEMMA NextBetween ==
  ASSUME LexerTyped, source' = source, pos \in DOMAIN source, NEW p, p = pos + 1, pos' = p,
         ~InComment(pos), ~InWord(pos), Written(p)'
  PROVE  BetweenLexemes'
<1>1. p \in Nat \ {0, 1} /\ p - 1 = pos /\ pos' = p
  BY DEF LexerTyped
<1>2. InComment(p) => source[p] = "%"
  BY <1>1, CommentGoesOn
<1>3. /\ InComment(pos)' <=> InComment(p)
      /\ InWord(pos - 1)' <=> InWord(p - 1)
      /\ Written(pos)' <=> Written(p)'
  BY <1>1, Here
<1> QED BY <1>1, <1>2, <1>3 DEF BetweenLexemes

\* Skipping a space emits nothing and passes no start.
LEMMA StepSkipSpace ==
  ASSUME LexerInv, SkipSpace
  PROVE  LexerInv'
<1>1. /\ LexerTyped /\ PositionKnown /\ BetweenLexemes /\ mode = "skip"
      /\ pos \in DOMAIN source /\ source[pos] \in Space /\ source[pos] # "%"
      /\ advanceChar /\ source' = source /\ tokens' = tokens /\ mode' = "skip"
  BY Classes DEF LexerInv, LexerTyped, SkipSpace, At, AtEnd
<1>2. PositionKnown' /\ pos' = pos + 1 /\ pos' \in 1..(Len(source) + 1)
  BY <1>1, AdvanceKeeps
<1>3. ~InComment(pos) /\ ~InWord(pos) /\ pos \notin Starts /\ pos \in Nat
  BY <1>1, Significance, Classes DEF BetweenLexemes, Starts, LexerTyped
<1>4. PICK p : p = pos + 1
  OBVIOUS
<1>5. Before(p) = Before(pos)
  <2>1. pos \in Nat /\ p \in Nat /\ pos <= p /\ \A k \in pos..(p - 1) : k = pos
    BY <1>3, <1>4
  <2> QED BY <1>1, <1>3, <2>1, PassBy DEF LexerTyped
<1>6. Written(p)
  BY <1>1, <1>5 DEF BetweenLexemes, Written
<1>7. BetweenLexemes'
  <2>1. Written(p)'
    BY <1>1, <1>6, Here
  <2> QED BY <1>1, <1>2, <1>3, <1>4, <2>1, NextBetween
<1> QED BY <1>1, <1>2, <1>7 DEF LexerInv, LexerTyped

\* A percent sign opens a comment.
LEMMA StepBeginComment ==
  ASSUME LexerInv, BeginComment
  PROVE  LexerInv'
<1>1. /\ LexerTyped /\ PositionKnown /\ BetweenLexemes
      /\ pos \in DOMAIN source /\ source[pos] = "%" /\ mode' = "comment"
      /\ UNCHANGED <<source, tokens, pos, line, column>>
  BY DEF LexerInv, LexerTyped, BeginComment, At, AtEnd
<1>2. InComment(pos)
  <2>1. pos \in 1..pos /\ \A i \in pos..pos : i = pos
    BY <1>1 DEF LexerTyped
  <2> QED BY <1>1, <2>1, Classes DEF InComment
<1>3. /\ InComment(pos)' <=> InComment(pos)
      /\ Written(pos)' <=> Written(pos)
  BY <1>1, Here
<1>4. WithinComment'
  BY <1>1, <1>2, <1>3 DEF WithinComment, BetweenLexemes
<1>5. PositionKnown' /\ LexerTyped'
  BY <1>1 DEF PositionKnown, LexerTyped, Newlines, LineStart
<1> QED BY <1>1, <1>4, <1>5 DEF LexerInv

\* A comment is read to the end of its line.
LEMMA StepSkipComment ==
  ASSUME LexerInv, SkipComment
  PROVE  LexerInv'
<1>1. /\ LexerTyped /\ PositionKnown /\ WithinComment
      /\ pos \in DOMAIN source /\ source[pos] # "newline" /\ mode' = "comment"
      /\ advanceChar /\ source' = source /\ tokens' = tokens
  BY DEF LexerInv, LexerTyped, SkipComment, At, AtEnd
<1>2. PositionKnown' /\ pos' = pos + 1 /\ pos' \in 1..(Len(source) + 1)
  BY <1>1, AdvanceKeeps
<1> DEFINE p == pos + 1
<1>3. pos \in Nat /\ p \in Nat \ {0, 1} /\ p - 1 = pos /\ pos' = p /\ InComment(pos)
  BY <1>1, <1>2 DEF LexerTyped, WithinComment
<1>4. source[p] # "newline" => InComment(p)
  BY <1>3, CommentGoesOn
<1>5. pos \notin Starts
  BY <1>3 DEF Starts, Significant
<1>6. Before(p) = Before(pos)
  <2>1. \A k \in pos..(p - 1) : k = pos
    BY <1>3
  <2> QED BY <1>1, <1>3, <1>5, <2>1, PassBy DEF LexerTyped
<1>7. Written(p)
  BY <1>1, <1>6 DEF WithinComment, Written
<1> HIDE DEF p
<1>8. /\ InComment(pos)' <=> InComment(p)
      /\ Written(pos)' <=> Written(p)
  BY <1>1, <1>3, Here
<1>9. WithinComment'
  BY <1>1, <1>3, <1>4, <1>7, <1>8 DEF WithinComment
<1> QED BY <1>1, <1>2, <1>9 DEF LexerInv, LexerTyped

\* The newline ends it.
LEMMA StepEndComment ==
  ASSUME LexerInv, EndComment
  PROVE  LexerInv'
<1>1. /\ LexerTyped /\ PositionKnown /\ WithinComment
      /\ pos \in DOMAIN source => source[pos] = "newline"
      /\ mode' = "skip"
      /\ UNCHANGED <<source, tokens, pos, line, column>>
  <2>1. pos \in DOMAIN source => source[pos] \in Char /\ ~(pos > Len(source))
    BY DEF LexerInv, LexerTyped
  <2> QED BY <2>1 DEF LexerInv, EndComment, At, AtEnd
<1>2. pos \in Nat \ {0} /\ (pos \in DOMAIN source => ~InComment(pos))
  <2>1. pos \in Nat \ {0}
    BY <1>1 DEF LexerTyped
  <2>2. \A j \in 1..pos : pos \in j..pos
    BY <2>1
  <2> QED BY <1>1, <2>1, <2>2 DEF InComment
<1>3. /\ InComment(pos)' <=> InComment(pos)
      /\ Written(pos)' <=> Written(pos)
  BY <1>1, Here
<1>4. BetweenLexemes'
  BY <1>1, <1>2, <1>3, Classes DEF WithinComment, BetweenLexemes
<1>5. PositionKnown' /\ LexerTyped'
  BY <1>1 DEF PositionKnown, LexerTyped, Newlines, LineStart
<1> QED BY <1>1, <1>4, <1>5 DEF LexerInv

\* All characters of a word are in it, and no other lexeme starts in it.
LEMMA InsideWord ==
  ASSUME LexerTyped, WithinWord
  PROVE  /\ start \in 1..pos /\ start \in Nat /\ pos \in Nat
         /\ \A i \in start..(pos - 1) : InWord(i) /\ source[i] # "newline"
         /\ \A i \in (start + 1)..(pos - 1) : i \notin Starts
<1>1. start \in Nat /\ start \in 1..pos /\ pos \in Nat
  <2>1. source \in Seq(Char) /\ pos \in Nat
    BY DEF LexerTyped
  <2>2. start \in 1..Len(source) /\ Len(source) \in Nat
    BY <2>1, StartsFinite DEF WithinWord
  <2> QED BY <2>1, <2>2 DEF WithinWord
<1>2. ASSUME NEW i \in start..(pos - 1)
      PROVE  InWord(i) /\ source[i] # "newline"
  <2>1. i \in Nat /\ start \in 1..i /\ \A j \in start..i : j \in start..(pos - 1)
    BY <1>1
  <2>2. \A j \in start..i : source[j] \in WordChar
    BY <2>1 DEF WithinWord
  <2>3. i \in start..i
    BY <2>1
  <2>4. source[i] \notin Space /\ source[i] # "newline"
    BY <2>2, <2>3, Classes
  <2>5. ~InComment(i)
    <3> SUFFICES ASSUME NEW j \in 1..i, source[j] = "%", \A l \in j..i : source[l] # "newline"
                 PROVE  FALSE
      BY DEF InComment
    <3>1. j \notin start..i
      BY <2>2, Classes
    <3>2. j \in 1..start /\ \A l \in j..start : l \in j..i
      BY <2>1, <3>1
    <3>3. InComment(start)
      BY <3>2 DEF InComment
    <3> QED BY <3>3 DEF WithinWord
  <2>6. InWord(i)
    BY <2>1, <2>2, <2>4, <2>5 DEF InWord, Significant, WithinWord
  <2> QED BY <2>4, <2>6
<1>3. ASSUME NEW i \in (start + 1)..(pos - 1) PROVE i \notin Starts
  <2>1. i > 1 /\ i - 1 \in start..(pos - 1) /\ i \in start..(pos - 1)
    BY <1>1
  <2> QED BY <1>2, <2>1 DEF Starts
<1> QED BY <1>1, <1>2, <1>3

\* A letter opens a word.
LEMMA StepBeginWord ==
  ASSUME LexerInv, BeginWord
  PROVE  LexerInv'
<1>1. /\ LexerTyped /\ PositionKnown /\ BetweenLexemes
      /\ pos \in DOMAIN source /\ source[pos] \in WordStart /\ mode' = "word" /\ start' = pos
      /\ UNCHANGED <<source, tokens, pos, line, column>>
  BY DEF LexerInv, LexerTyped, BeginWord, At, AtEnd
<1>2. pos \in Starts /\ ~InComment(pos) /\ pos \in Nat
  BY <1>1, Significance, Classes DEF BetweenLexemes, LexerTyped
<1>3. PICK p : p = pos
  OBVIOUS
<1>4. Starts' = Starts /\ (InComment(start)' <=> InComment(p)) /\ (Written(start)' <=> Written(p))
  BY <1>1, <1>3, ThereStarted
<1>5. Written(start)' /\ ~InComment(start)'
  BY <1>2, <1>1, <1>3, <1>4 DEF BetweenLexemes
<1>6. \A i \in pos..(pos - 1) : FALSE
  BY <1>2
<1>7. WithinWord'
  BY <1>1, <1>2, <1>4, <1>5, <1>6 DEF WithinWord
<1>8. PositionKnown' /\ LexerTyped'
  BY <1>1 DEF PositionKnown, LexerTyped, Newlines, LineStart
<1> QED BY <1>1, <1>7, <1>8 DEF LexerInv

\* A word takes what continues it.
LEMMA StepReadWord ==
  ASSUME LexerInv, ReadWord
  PROVE  LexerInv'
<1>1. /\ LexerTyped /\ PositionKnown /\ WithinWord
      /\ pos \in DOMAIN source /\ source[pos] \in WordChar /\ mode' = "word"
      /\ advanceChar /\ UNCHANGED <<source, start, tokens>>
  BY DEF LexerInv, LexerTyped, ReadWord, At, AtEnd
<1>2. PositionKnown' /\ pos' = pos + 1 /\ pos' \in 1..(Len(source) + 1)
  BY <1>1, AdvanceKeeps
<1>3. start \in Nat /\ pos \in Nat /\ start \in 1..pos
  BY <1>1, InsideWord
<1>4. \A i \in start..(pos' - 1) : i \in start..(pos - 1) \/ i = pos
  BY <1>2, <1>3
<1>5. Starts' = Starts /\ ~InComment(start)' /\ Written(start)'
  <2>1. PICK p : p = start
    OBVIOUS
  <2>2. Starts' = Starts /\ (InComment(start)' <=> InComment(p)) /\ (Written(start)' <=> Written(p))
    BY <1>1, <2>1, ThereStarted
  <2> QED BY <1>1, <2>1, <2>2 DEF WithinWord
<1>6. WithinWord'
  BY <1>1, <1>2, <1>3, <1>4, <1>5 DEF WithinWord
<1> QED BY <1>1, <1>2, <1>6 DEF LexerInv, LexerTyped

\* What LexemeAt is once the end of the lexeme is known.
LEMMA LexemeIs ==
  ASSUME NEW k, NEW e,
         InWord(k) => /\ e \in k..Len(source) /\ \A i \in k..e : InWord(i)
                      /\ e = Len(source) \/ ~InWord(e + 1),
         ~InWord(k) => e = k, k \in Nat, Len(source) \in Nat
  PROVE  LexemeAt(k) = [type   |-> IF InWord(k) THEN "kWord" ELSE TokenTypeOf(source[k]),
                        value  |-> SubSeq(source, k, e),
                        line   |-> Cardinality(Newlines(k)) + 1,
                        column |-> e + 1 - LineStart(k)]
<1> DEFINE IsEnd(x) == /\ \A i \in k..x : InWord(i)
                       /\ x = Len(source) \/ ~InWord(x + 1)
           end == IF ~InWord(k) THEN k ELSE CHOOSE x \in k..Len(source) : IsEnd(x)
<1>1. end = e
  <2>1. CASE ~InWord(k)
    BY <2>1
  <2>2. CASE InWord(k)
    <3>1. e \in k..Len(source) /\ IsEnd(e)
      BY <2>2
    <3>2. ASSUME NEW x \in k..Len(source), IsEnd(x) PROVE x = e
      <4>1. ~(x < e)
        <5>1. x < e => x + 1 \in k..e /\ x # Len(source)
          BY <3>1
        <5> QED BY <3>1, <3>2, <5>1
      <4>2. ~(e < x)
        <5>1. e < x => e + 1 \in k..x /\ e # Len(source)
          BY <3>1
        <5> QED BY <3>1, <3>2, <5>1
      <4> QED BY <3>1, <4>1, <4>2
    <3> HIDE DEF IsEnd
    <3>3. (CHOOSE x \in k..Len(source) : IsEnd(x)) = e
      BY <3>1, <3>2
    <3> QED BY <2>2, <3>3
  <2> QED BY <2>1, <2>2
<1>2. LexemeAt(k) = [type   |-> IF InWord(k) THEN "kWord" ELSE TokenTypeOf(source[k]),
                     value  |-> SubSeq(source, k, end),
                     line   |-> Cardinality(Newlines(k)) + 1,
                     column |-> end + 1 - LineStart(k)]
  BY DEF LexemeAt, Newlines, LineStart
<1> QED BY <1>1, <1>2

\* A text that goes on without the end of a line stays on the line.
LEMMA SameLine ==
  ASSUME NEW p \in Nat \ {0}, NEW q \in Nat, p <= q,
         \A i \in p..(q - 1) : source[i] # "newline"
  PROVE  Newlines(q) = Newlines(p) /\ LineStart(q) = LineStart(p)
<1>1. \A j : j \in 1..(q - 1) <=> j \in 1..(p - 1) \/ j \in p..(q - 1)
  OBVIOUS
<1>2. Newlines(q) = Newlines(p)
  BY <1>1 DEF Newlines
<1>3. LineStart(q) = LineStart(p)
  <2> DEFINE L(S) == IF S = {} THEN 0 ELSE CHOOSE j \in S : \A i \in S : i <= j
  <2>1. LineStart(q) = L(Newlines(q)) /\ LineStart(p) = L(Newlines(p))
    BY DEF LineStart
  <2> HIDE DEF L
  <2> QED BY <1>2, <2>1
<1> QED BY <1>2, <1>3

\* Any other character ends it, and the word is the next token.
LEMMA StepEndWord ==
  ASSUME LexerInv, EndWord
  PROVE  LexerInv'
<1> DEFINE t == [type |-> "kWord", value |-> SubSeq(source, start, pos - 1),
                 line |-> line, column |-> column]
<1>1. /\ LexerTyped /\ PositionKnown /\ WithinWord
      /\ pos \in DOMAIN source => source[pos] \notin WordChar
      /\ mode' = "skip" /\ UNCHANGED <<source, pos, line, column, start>>
      /\ tokens' = Append(tokens, t)
  BY DEF LexerInv, LexerTyped, EndWord, At, AtEnd, Deliver
<1>2. /\ start \in 1..pos /\ start \in Nat /\ pos \in Nat
      /\ \A i \in start..(pos - 1) : InWord(i) /\ source[i] # "newline"
      /\ \A i \in (start + 1)..(pos - 1) : i \notin Starts
  BY <1>1, InsideWord
<1>3. source \in Seq(Char) /\ Len(source) \in Nat /\ DOMAIN source = 1..Len(source)
      /\ pos \in 1..(Len(source) + 1) /\ tokens \in Seq(Token)
  BY <1>1 DEF LexerTyped
<1>4. start < pos /\ start \in DOMAIN source
  <2>1. start \in DOMAIN source /\ source[start] \in WordChar
    BY <1>1, <1>3, StartsFinite, Classes DEF WithinWord
  <2> QED BY <1>1, <1>2, <2>1
<1>5. ~InWord(pos) \/ pos = Len(source) + 1
  BY <1>1, <1>2, <1>3, WordCharacters
<1>6. t = LexemeAt(start)
  <2> DEFINE e == pos - 1
  <2>1. e \in start..Len(source) /\ e + 1 = pos /\ start \in start..e
    BY <1>2, <1>3, <1>4
  <2>2. InWord(start) /\ (e = Len(source) \/ ~InWord(e + 1))
    BY <1>2, <1>3, <1>5, <2>1
  <2>3. LexemeAt(start) = [type   |-> IF InWord(start) THEN "kWord" ELSE TokenTypeOf(source[start]),
                           value  |-> SubSeq(source, start, e),
                           line   |-> Cardinality(Newlines(start)) + 1,
                           column |-> e + 1 - LineStart(start)]
    BY <1>2, <1>3, <2>1, <2>2, LexemeIs
  <2>4. Newlines(pos) = Newlines(start) /\ LineStart(pos) = LineStart(start)
    BY <1>2, SameLine
  <2>5. line = Cardinality(Newlines(start)) + 1 /\ column = e + 1 - LineStart(start)
    BY <1>1, <2>1, <2>4 DEF PositionKnown
  <2>6. t = [type |-> "kWord", value |-> SubSeq(source, start, e), line |-> line, column |-> column]
    OBVIOUS
  <2> HIDE DEF e, t
  <2> QED BY <2>2, <2>3, <2>5, <2>6
<1>6a. t.column = column /\ t.line = line /\ t = [type |-> "kWord", value |-> SubSeq(source, start, pos - 1),
                 line |-> line, column |-> column]
  OBVIOUS
<1> HIDE DEF t
<1>7. t \in Token
  <2>1. column \in Int /\ line \in Nat
    <3>1. pos \in Nat \ {0}
      BY <1>3
    <3>2. LineStart(pos) \in 0..(pos - 1) /\ Cardinality(Newlines(pos)) \in Nat
      BY <3>1, LineStartIs
    <3> QED BY <1>1, <3>1, <3>2 DEF PositionKnown
  <2>2. SubSeq(source, start, pos - 1) \in Seq(Char)
    BY <1>2, <1>3
  <2> QED BY <1>6a, <2>1, <2>2 DEF Token, TokenType
<1>8. PICK q : q = pos
  OBVIOUS
<1>9. Written(q)'
  BY <1>1, <1>2, <1>3, <1>4, <1>6, <1>8, Delivered DEF WithinWord
<1>10. InWord(pos - 1)' => (pos \in DOMAIN source => source[pos] \notin WordChar)
  BY <1>1
<1>11. pos \in DOMAIN source => ~InComment(pos) \/ source[pos] = "%"
  <2>1. pos \in Nat \ {0, 1} /\ pos - 1 \in Nat \ {0} /\ InWord(pos - 1)
    BY <1>2, <1>4
  <2> QED BY <2>1, CommentGoesOn, WordCharacters
<1>12. BetweenLexemes'
  <2>1. (InComment(pos)' <=> InComment(q)) /\ (Written(pos)' <=> Written(q)')
    BY <1>1, <1>8, Here
  <2> QED BY <1>1, <1>8, <1>9, <1>11, <2>1 DEF BetweenLexemes
<1>13. PositionKnown'
  BY <1>1 DEF PositionKnown, Newlines, LineStart
<1>14. LexerTyped'
  <2>1. tokens' \in Seq(Token)
    BY <1>1, <1>3, <1>7
  <2> QED BY <1>1, <2>1 DEF LexerTyped
<1> QED BY <1>1, <1>12, <1>13, <1>14 DEF LexerInv

\* The text from a position to itself is its character.
LEMMA SingleCharacter ==
  ASSUME NEW S, NEW s \in Seq(S), NEW i \in DOMAIN s
  PROVE  SubSeq(s, i, i) = <<s[i]>>
<1>1. SubSeq(s, i, i) = [k \in 1..1 |-> s[i]]
  OBVIOUS
<1>2. <<s[i]>> = [k \in 1..1 |-> s[i]]
  OBVIOUS
<1> QED BY <1>1, <1>2

\* A symbol is a token of its own.
LEMMA StepReadSymbol ==
  ASSUME LexerInv, ReadSymbol
  PROVE  LexerInv'
<1> DEFINE t == [type |-> TokenTypeOf(source[pos]), value |-> <<source[pos]>>,
                 line |-> line', column |-> column']
<1>1. /\ LexerTyped /\ PositionKnown /\ BetweenLexemes /\ mode' = "skip"
      /\ pos \in DOMAIN source /\ source[pos] \in Char
      /\ source[pos] \notin Space /\ source[pos] # "%" /\ source[pos] \notin WordStart
      /\ advanceChar /\ source' = source
      /\ tokens' = Append(tokens, t)
  BY DEF LexerInv, LexerTyped, ReadSymbol, At, AtEnd, Deliver
<1>2. source[pos] # "newline"
  BY <1>1, Classes
<1>3. /\ PositionKnown' /\ pos' = pos + 1 /\ pos' \in 1..(Len(source) + 1)
      /\ line' = line /\ column' = column + 1
  BY <1>1, <1>2, AdvanceKeeps
<1>4. /\ source \in Seq(Char) /\ Len(source) \in Nat /\ tokens \in Seq(Token)
      /\ pos \in Nat \ {0}
  BY <1>1 DEF LexerTyped
<1>5. ~InComment(pos) /\ ~InWord(pos) /\ Significant(pos)
  BY <1>1, Significance DEF BetweenLexemes
<1>6. pos \in Starts
  BY <1>1, <1>5 DEF Starts
<1>7. t = LexemeAt(pos)
  <2>1. LexemeAt(pos) = [type   |-> IF InWord(pos) THEN "kWord" ELSE TokenTypeOf(source[pos]),
                         value  |-> SubSeq(source, pos, pos),
                         line   |-> Cardinality(Newlines(pos)) + 1,
                         column |-> pos + 1 - LineStart(pos)]
    BY <1>4, <1>5, LexemeIs
  <2>2. SubSeq(source, pos, pos) = <<source[pos]>>
    <3> HIDE DEF t
    <3> QED BY <1>1, <1>4, SingleCharacter
  <2>3. line' = Cardinality(Newlines(pos)) + 1 /\ column' = pos + 1 - LineStart(pos)
    <3>1. LineStart(pos) \in Int
      BY <1>4, LineStartIs
    <3> QED BY <1>1, <1>3, <1>4, <3>1, SMTT(40) DEF PositionKnown
  <2> QED BY <1>5, <2>1, <2>2, <2>3
<1>8. t \in Token
  <2>1. column' \in Int /\ line' \in Nat
    <3>1. LineStart(pos) \in 0..(pos - 1) /\ Cardinality(Newlines(pos)) \in Nat
      BY <1>4, LineStartIs
    <3>2. column \in Int /\ line \in Nat
      BY <1>1, <1>4, <3>1 DEF PositionKnown
    <3> QED BY <1>3, <3>2
  <2>2. TokenTypeOf(source[pos]) \in TokenType
    BY DEF TokenTypeOf, TokenType
  <2>3. <<source[pos]>> \in Seq(Char)
    BY <1>1
  <2> QED BY <2>1, <2>2, <2>3 DEF Token
<1> HIDE DEF t
<1>9. PICK p : p = pos + 1
  OBVIOUS
<1>10. Written(p)'
  <2>1. p \in Nat /\ pos < p /\ \A k \in (pos + 1)..(p - 1) : k \notin Starts
    BY <1>4, <1>9
  <2>2. Written(pos)
    BY <1>1 DEF BetweenLexemes
  <2> QED BY <1>1, <1>4, <1>6, <1>7, <2>1, <2>2, Delivered
<1>11. BetweenLexemes'
  BY <1>1, <1>3, <1>5, <1>9, <1>10, NextBetween
<1>12. LexerTyped'
  <2>1. tokens' \in Seq(Token)
    BY <1>1, <1>4, <1>8
  <2> QED BY <1>1, <1>3, <2>1 DEF LexerTyped
<1> QED BY <1>1, <1>3, <1>11, <1>12 DEF LexerInv

\* At the end of the text the token of the end is the last one.
LEMMA StepEndOfFile ==
  ASSUME LexerInv, ReadEnd
  PROVE  LexerInv'
<1> DEFINE t == [type |-> "kEOF", value |-> <<>>, line |-> line, column |-> column]
<1>1. /\ LexerTyped /\ PositionKnown /\ BetweenLexemes /\ mode' = "done"
      /\ pos > Len(source) /\ UNCHANGED <<source, pos, line, column, start>>
      /\ tokens' = Append(tokens, t)
  BY DEF LexerInv, ReadEnd, AtEnd, Deliver
<1>2. /\ source \in Seq(Char) /\ Len(source) \in Nat /\ tokens \in Seq(Token)
      /\ pos \in Nat \ {0} /\ Starts \subseteq 1..Len(source)
  BY <1>1, StartsFinite DEF LexerTyped
<1>3. t \in Token
  <2>1. column \in Int /\ line \in Nat
    <3>1. LineStart(pos) \in 0..(pos - 1) /\ Cardinality(Newlines(pos)) \in Nat
      BY <1>2, LineStartIs
    <3> QED BY <1>1, <1>2, <3>1 DEF PositionKnown
  <2>2. <<>> \in Seq(Char)
    OBVIOUS
  <2> QED BY <2>1, <2>2 DEF Token, TokenType
<1>4. t.type = "kEOF"
  OBVIOUS
<1> HIDE DEF t
<1>5. Before(pos) = Starts
  <2>1. \A k \in Starts : k < pos
    BY <1>1, <1>2
  <2> QED BY <2>1 DEF Before
<1>6. Len(tokens) = Cardinality(Starts) /\ Len(tokens) \in Nat
      /\ \A k \in Starts : tokens[Rank(k)] = LexemeAt(k)
  BY <1>1, <1>2, <1>5 DEF BetweenLexemes, Written
<1>7. \A k \in Starts : Rank(k) \in 1..Len(tokens)
  <2> TAKE k \in Starts
  <2> DEFINE S == {j \in Starts : j <= k}
  <2>1. S \in SUBSET Starts /\ k \in S
    BY <1>2
  <2>2. IsFiniteSet(S) /\ Cardinality(S) \in Nat /\ IsFiniteSet(Starts)
    BY <1>2, <2>1, StartsFinite
  <2> HIDE DEF S
  <2>3. Cardinality(S) <= Cardinality(Starts) /\ Cardinality(S) # 0
    BY <2>1, <2>2, FS_Subset, FS_EmptySet
  <2> QED BY <1>6, <2>2, <2>3 DEF Rank, S
<1>8. /\ Len(tokens') = Len(tokens) + 1 /\ tokens'[Len(tokens')] = t
      /\ \A i \in 1..Len(tokens) : tokens'[i] = tokens[i]
  BY <1>1, <1>2
<1>9. /\ Len(tokens') = Cardinality(Starts) + 1
      /\ \A k \in Starts : tokens'[Rank(k)] = LexemeAt(k)
      /\ tokens'[Len(tokens')].type = "kEOF"
  BY <1>4, <1>6, <1>7, <1>8
<1>10. TokensAreLexemes'
  <2>1. Starts' = Starts /\ \A k : LexemeAt(k)' = LexemeAt(k)
    BY <1>1 DEF LexemeAt, Starts, Significant, InComment, InWord
  <2>2. \A k \in Starts : Rank(k) = Cardinality({j \in Starts : j <= k})
    BY DEF Rank
  <2> HIDE DEF Rank
  <2>3. \A k \in Starts : tokens'[Cardinality({j \in Starts : j <= k})] = LexemeAt(k)'
    BY <1>9, <2>1, <2>2
  <2> QED BY <1>9, <2>1, <2>3 DEF TokensAreLexemes
<1>11. LexerTyped'
  <2>1. tokens' \in Seq(Token)
    BY <1>1, <1>2, <1>3
  <2> QED BY <1>1, <2>1 DEF LexerTyped
<1>12. PositionKnown'
  BY <1>1 DEF PositionKnown, Newlines, LineStart
<1> QED BY <1>1, <1>10, <1>11, <1>12 DEF LexerInv

\* Nothing is read and nothing emitted at first.
LEMMA LexerStart == ASSUME LexerInit PROVE LexerInv
<1>1. source \in Seq(Char)
  BY CharTyped DEF LexerInit, CharTyped
<1>2. LexerTyped
  BY <1>1 DEF LexerInit, LexerTyped
<1>3. Newlines(1) = {}
  BY DEF Newlines
<1>4. PositionKnown
  <2>1. pos = 1 /\ line = 1 /\ column = 1
    BY DEF LexerInit
  <2>2. LineStart(1) = 0
    BY <1>3 DEF LineStart
  <2>3. Cardinality(Newlines(1)) = 0
    BY <1>3, FS_EmptySet
  <2> QED BY <2>1, <2>2, <2>3 DEF PositionKnown
<1>5. Before(1) = {}
  BY <1>1, StartsFinite DEF Before
<1>6. Written(1)
  BY <1>5, FS_EmptySet DEF LexerInit, Written
<1>7. BetweenLexemes
  BY <1>6, FirstComment DEF LexerInit, BetweenLexemes
<1> QED BY <1>2, <1>4, <1>7 DEF LexerInit, LexerInv

\* Every step of the lexer keeps its invariant.
LEMMA LexerStep ==
  ASSUME LexerInv, [LexerNext]_lexer_vars
  PROVE  LexerInv'
<1>1. CASE UNCHANGED lexer_vars
  <2>1. /\ UNCHANGED <<source, pos, line, column, start, mode, tokens>>
    BY <1>1 DEF lexer_vars
  <2>2. /\ LexerTyped' <=> LexerTyped
        /\ PositionKnown' <=> PositionKnown
    BY <2>1 DEF LexerTyped, PositionKnown, Newlines, LineStart
  <2>3. PICK p, q : p = pos /\ q = start
    OBVIOUS
  <2>4. /\ InComment(pos)' <=> InComment(p)
        /\ InWord(pos - 1)' <=> InWord(p - 1)
        /\ Written(pos)' <=> Written(p)
        /\ Starts' = Starts
    BY <2>1, <2>3, Here
  <2>5. (InComment(start)' <=> InComment(q)) /\ (Written(start)' <=> Written(q))
    BY <2>1, <2>3, ThereStarted
  <2>6. /\ BetweenLexemes' <=> BetweenLexemes
        /\ WithinComment' <=> WithinComment
    BY <2>1, <2>3, <2>4 DEF BetweenLexemes, WithinComment
  <2>7. WithinWord' <=> WithinWord
    BY <2>1, <2>3, <2>4, <2>5 DEF WithinWord
  <2>8. TokensAreLexemes' <=> TokensAreLexemes
    <3>1. \A k : LexemeAt(k)' = LexemeAt(k)
      BY <2>1 DEF LexemeAt, Significant, InComment, InWord
    <3> QED BY <2>1, <2>4, <3>1 DEF TokensAreLexemes
  <2> QED BY <2>1, <2>2, <2>6, <2>7, <2>8 DEF LexerInv
<1>2. CASE skipWhitespaceAndComments
  BY <1>2, StepSkipSpace, StepBeginComment, StepSkipComment, StepEndComment
     DEF skipWhitespaceAndComments
<1>3. CASE BeginWord \/ ReadWord \/ EndWord \/ ReadSymbol \/ ReadEnd
  BY <1>3, StepBeginWord, StepReadWord, StepEndWord, StepReadSymbol, StepEndOfFile
<1> QED BY <1>1, <1>2, <1>3 DEF LexerNext, nextToken

\* Whatever the text, what nextToken() has returned when it returns kEOF are its
\* lexemes: the longest words and the single characters outside of blanks and
\* comments, each once and in order, with the line each is on and the column
\* behind it.
THEOREM LexerCorrect == LexerSpec => []TokensAreLexemes
<1>1. LexerInit => LexerInv
  BY LexerStart
<1>2. LexerInv /\ [LexerNext]_lexer_vars => LexerInv'
  BY LexerStep
<1>3. LexerInv => TokensAreLexemes
  BY DEF LexerInv, LexerTyped, TokensAreLexemes
<1> QED BY <1>1, <1>2, <1>3, PTL DEF LexerSpec
=============================================================================
