----------------------------- MODULE MCFrontEnd ------------------------------
(***************************************************************************)
(* Files of a few characters of every class, formulas in several layouts,  *)
(* and, in place of an empty file, the texts of MCTptp.                    *)
(***************************************************************************)
EXTENDS MCTptp, FrontEnd

MCAlpha == {"c", "n", "f", "p", "q", "a", "X"}
MCDigit == {"1"}
MCSpace == {"blank", "newline"}
MCChar  == MCAlpha \cup MCDigit \cup MCSpace \cup {"_", "%", "(", ")", ",", ".", "|", "~", "@"}

MCNameOf(w) == IF w = <<"c", "n", "f">> THEN "cnf"
               ELSE IF Len(w) = 1 /\ w[1] \in Name THEN w[1]
               ELSE "other"

\* One character of each class, and two the lexer compares with.
ShortFiles == UNION {[1..n -> {"a", "1", "_", "blank", "newline", "%", "("}] : n \in 0..5}

Spelled(token) == IF token = Word("cnf") THEN <<"c", "n", "f">> ELSE <<token.value>>

\* The tokens with a gap behind each.
Layout(s, gap) == FlattenSeq([k \in DOMAIN s |-> Spelled(s[k]) \o gap])

\* A problem, one with a clash of names, and one with a token that is none.
Spellable ==
  { Cnf("a", <<Atomic("q"), Not(App("p", <<X>>))>>),
    Cnf("a", <<Atomic("q"), App("q", <<a>>)>>),
    Cnf("a", <<<<Symbol("@")>>>>) }

MCFiles ==
  ShortFiles \cup {Layout(s, gap) : s \in Spellable,
                                    gap \in {<<>>, <<"blank">>, <<"newline", "%", "a", "newline">>}}

MCFrontEndNext ==
  \/ FrontEndNext
  \/ mode = "done" /\ source = <<>> /\ MCNext /\ UNCHANGED lexer_vars

MCFrontEndSpec ==
  FrontEndInit /\ [][MCFrontEndNext]_<<vars, lexer_vars>> /\ FrontEndFairness
=============================================================================
