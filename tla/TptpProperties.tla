--------------------------- MODULE TptpProperties ----------------------------
(***************************************************************************)
(* What the front end of module Tptp has to guarantee, against a grammar   *)
(* of its input that is written without a parser. IsProblem is the grammar *)
(* of cnf entries; what becomes of fof entries is stated by FofIsParsed.    *)
(***************************************************************************)
EXTENDS TptpText, FiniteSetsExt

(* The accepted subset of TPTP: which sequences of tokens are a problem.    *)

\* Pieces for which Piece holds, separated by sep.
IsList(Piece(_), sep, s) ==
  \E cuts \in SUBSET {k \in DOMAIN s : s[k] = sep} :
    \A i, j \in cuts \cup {0, Len(s) + 1} :
      i < j /\ (\A k \in cuts : ~(i < k /\ k < j)) => Piece(SubSeq(s, i + 1, j - 1))

RECURSIVE IsTerm(_)
IsTerm(s) ==
  /\ s # <<>> /\ s[1].type = "kWord"
  /\ \/ Len(s) = 1
     \/ /\ Len(s) > 2 /\ s[1].value \notin UpperCase
        /\ s[2] = Symbol("(") /\ s[Len(s)] = Symbol(")")
        /\ Len(s) = 3 \/ IsList(IsTerm, Symbol(","), SubSeq(s, 3, Len(s) - 1))

IsLiteral(s) == IsTerm(s) \/ (s # <<>> /\ s[1] = Symbol("~") /\ IsTerm(Tail(s)))

IsFormula(s) ==
  /\ Len(s) > 7
  /\ s[1] = Word("cnf") /\ s[2] = Symbol("(") /\ s[3].type = "kWord"
  /\ s[4] = Symbol(",") /\ s[5].type = "kWord" /\ s[6] = Symbol(",")
  /\ s[Len(s)] = Symbol(")")
  /\ IsList(IsLiteral, Symbol("|"), SubSeq(s, 7, Len(s) - 1))

IsProblem(s) ==
  s = <<>> \/ (Last(s) = Symbol(".") /\ IsList(IsFormula, Symbol("."), Front(s)))

-----------------------------------------------------------------------------
(* How a problem uses its names.                                            *)

\* The words after the three of each header.
Names(s) ==
  {k \in DOMAIN s : /\ s[k].type = "kWord"
                    /\ \A h \in {0, 2, 4} :
                         k - h < 1 \/ (k - h # 1 /\ s[k - h - 1] # Symbol("."))}

\* How deep after the token at k, where a parenthesis opens, the one at j is.
Nesting(s, k, j) ==
  Cardinality({i \in k..j : s[i] = Symbol("(")}) - Cardinality({i \in k..j : s[i] = Symbol(")")})

ArgumentsAt(s, k) ==
  LET end == Min({j \in k..Len(s) : Nesting(s, k, j) = 0})
  IN  IF end = k + 1 THEN 0
      ELSE 1 + Cardinality({j \in k..end : s[j] = Symbol(",") /\ Nesting(s, k, j) = 1})

UseAt(s, k) ==
  LET applied == k < Len(s) /\ s[k + 1] = Symbol("(")
  IN  [name  |-> s[k].value,
       kind  |-> IF s[k].value \in UpperCase THEN "kVariable"
                 ELSE IF applied THEN "kFunction" ELSE "kConstant",
       arity |-> IF applied THEN ArgumentsAt(s, k + 1) % ArityMod ELSE 0]

Uses(s) == {UseAt(s, k) : k \in Names(s)}

\* No name is used in two ways, nor in another way than the table has it.
Consistent(s) ==
  \A u \in Uses(s), w \in Uses(s) \cup {infos[i] : i \in 1..known} : u.name = w.name => u = w

-----------------------------------------------------------------------------
(* Properties *)

\* Where entries begin that are declared with fof.
FofEntries(s) ==
  {k \in DOMAIN s : s[k] = Word("fof") /\ (k = 1 \/ s[k - 1] = Symbol("."))}

\* A text of cnf entries is accepted if and only if it is a problem whose names
\* are used consistently, among themselves and with what was parsed before; a
\* fof anywhere but at the head of an entry is a wrong word like any other.
AcceptsExactly ==
  FofEntries(text) = {} =>
    /\ pc \in {"parsed", "prepared"} => IsProblem(text) /\ Consistent(text)
    /\ pc = "failed" => ~(IsProblem(text) /\ Consistent(text))

\* The text with its fof entries declared with cnf.
AsCnf(s) == [k \in DOMAIN s |-> IF k \in FofEntries(s) THEN Word("cnf") ELSE s[k]]

\* No variables, and no parentheses without an argument.
IsGround(s) ==
  \A k \in DOMAIN s : /\ s[k].value \notin UpperCase
                       /\ s[k] = Symbol("(") => s[k + 1] # Symbol(")")

\* What the comments of tptp_parser.h say of fof entries ("Hand-written recursive
\* descent for TPTP CNF/FOF subset", "For `fof(...)` entries: Formula AST is
\* built"), for formulas that both languages write alike: a disjunction of
\* literals without variables is not refused because fof declares it.
FofIsParsed ==
  pc = "failed" /\ IsProblem(AsCnf(text)) /\ IsGround(text) => ~Consistent(AsCnf(text))

\* A call of parseTptpString returns or throws.
ParserReturns == pc = "formula" ~> pc \in {"parsed", "failed"}
=============================================================================
