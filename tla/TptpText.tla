------------------------------ MODULE TptpText -------------------------------
(***************************************************************************)
(* The text a problem parsed by module Tptp stands for, and what the       *)
(* parser has to keep of what it reads.                                    *)
(***************************************************************************)
EXTENDS Tptp, Texts

(* The tokens a parsed problem stands for.                                  *)

Written(id) ==
  LET W[i \in DOMAIN terms] ==
        <<Word(infos[terms[i].symbol].name)>> \o
        IF infos[terms[i].symbol].kind # "kFunction" THEN <<>>
        ELSE <<Symbol("(")>> \o
             Separated([k \in DOMAIN terms[i].args |-> W[terms[i].args[k]]], Symbol(",")) \o
             <<Symbol(")")>>
  IN  W[id]

WrittenLiteral(l) == (IF l.is_positive THEN <<>> ELSE <<Symbol("~")>>) \o Written(l.atom)

\* The clause of the nth formula, in the problem or taken out of it.
ClauseOf(n) == IF pc = "prepared" THEN prepared[n] ELSE formulas[n].clause

WrittenFormula(n, role) ==
  <<Word("cnf"), Symbol("("), Word(formulas[n].name), Symbol(","), Word(role), Symbol(",")>> \o
  Separated([k \in DOMAIN ClauseOf(n) |-> WrittenLiteral(ClauseOf(n)[k])], Symbol("|")) \o
  <<Symbol(")"), Symbol(".")>>

-----------------------------------------------------------------------------
(* Properties *)

\* What is parsed is what was written, and so is what the prover receives: printing
\* the clauses from the bank gives the text again, name by name, sign by sign,
\* but for unknown roles, which are read as plain.  So one name is one term in
\* all of a clause, and no term was mistaken for another.
ReadAsWritten ==
  pc \in {"parsed", "prepared"} =>
    \E roles \in [DOMAIN formulas -> {t.value : t \in {u \in ToSet(text) : u.type = "kWord"}}] :
      /\ \A n \in DOMAIN formulas : formulas[n].role = parseRole(roles[n])
      /\ text = FlattenSeq([n \in DOMAIN formulas |-> WrittenFormula(n, roles[n])])

\* tptp_parser.h, prepareForProving: "1. Negate conjecture formulas."  What is
\* prepared of a conjecture is not what the text has.
ConjectureIsNegated ==
  pc = "prepared" =>
    \A n \in DOMAIN formulas :
      formulas[n].role = "conjecture" =>
        ~\E i, j \in DOMAIN text : SubSeq(text, i, j) = WrittenFormula(n, "conjecture")
=============================================================================
