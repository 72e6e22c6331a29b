------------------------------- MODULE MCTptp --------------------------------
(***************************************************************************)
(* Texts for the parser: problems, and what one wrong token makes of them. *)
(***************************************************************************)
EXTENDS TptpProperties

Variables == {"X", "Y"}

\* p(s, t, ...) as tokens
App(name, args) == <<Word(name), Symbol("(")>> \o Separated(args, Symbol(",")) \o <<Symbol(")")>>
Atomic(name)    == <<Word(name)>>
Not(s)          == <<Symbol("~")>> \o s
X == Atomic("X")
Y == Atomic("Y")
a == Atomic("a")
Cnf(role, lits) ==
  <<Word("cnf"), Symbol("("), Word("n"), Symbol(","), Word(role), Symbol(",")>> \o
  Separated(lits, Symbol("|")) \o <<Symbol(")"), Symbol(".")>>

\* A variable used in two literals and twice in a term, nested terms, two signs;
\* no arguments with parentheses and without; a name with two arities; a
\* variable for an atom; known and unknown roles.
Formulas ==
  { Cnf("axiom", <<App("p", <<X, App("f", <<X, Y>>)>>), Not(App("p", <<Y, X>>))>>),
    Cnf("plain", <<App("p", <<App("f", <<a, a>>), a>>)>>),
    Cnf("conjecture", <<Atomic("q"), Not(Atomic("q"))>>),
    Cnf("other", <<App("q", <<>>)>>),
    Cnf("lemma", <<App("q", <<a, a>>)>>),
    Cnf("cnf", <<Not(App("p", <<Atomic("cnf")>>))>>),
    Cnf("axiom", <<X, Not(X), Y>>) }

Wrong == {Symbol(c) : c \in {"(", ")", ",", "|", "~", ".", "@"}} \cup {Word(w) : w \in {"X", "p", "fof"}}

\* One token left out, put in or replaced.
Near(s) ==
  {RemoveAt(s, k) : k \in DOMAIN s}
    \cup {ReplaceAt(s, k, t) : k \in DOMAIN s, t \in Wrong}
    \cup {InsertAt(s, k, t) : k \in DOMAIN s, t \in Wrong}

Problems == {<<>>} \cup Formulas \cup {s \o t : s, t \in Formulas}

WrongTexts == UNION {Near(s) : s \in Formulas}

MCTexts == Problems \cup WrongTexts

\* Two problems in a row, or one text with a wrong token.
MCNext ==
  \/ parseProblem \/ prepareForProving
  \/ \E t \in Problems : (parses = 0 \/ text \in Problems) /\ parseTptpString(t)
  \/ \E t \in WrongTexts : parses = 0 /\ parseTptpString(t)

MCSpec == Init /\ [][MCNext]_vars /\ WF_vars(parseProblem)
=============================================================================
