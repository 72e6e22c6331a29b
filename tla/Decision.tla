------------------------------ MODULE Decision -------------------------------
(***************************************************************************)
(* What a prover promises its caller, without a search: it is given clause *)
(* sets and asked about all of them together, and its verdicts are true of *)
(* what it had been given when it answered.                                *)
(***************************************************************************)

CONSTANT Satisfiable(_)   \* whether a set of clauses has a model

VARIABLES
  inputs,    \* the clauses given so far
  running,   \* whether a question is waiting for its answer
  verdict    \* the last answer

Init == inputs = {} /\ running = FALSE /\ verdict = "none"

Give ==
  /\ ~running /\ inputs \subseteq inputs'
  /\ UNCHANGED <<running, verdict>>

Ask == ~running /\ running' = TRUE /\ UNCHANGED <<inputs, verdict>>

Answer ==
  /\ running /\ running' = FALSE /\ UNCHANGED inputs
  /\ \/ verdict' = "kTheorem" /\ ~Satisfiable(inputs)
     \/ verdict' = "kSaturation" /\ Satisfiable(inputs)
     \/ verdict' = "kTimeout"

Next == Give \/ Ask \/ Answer

Spec == Init /\ [][Next]_<<inputs, running, verdict>>
=============================================================================
