------------------------------- MODULE Proof ---------------------------------
(***************************************************************************)
(* The printed proof: extractProof (ProofTrace) over the ClauseStore, and  *)
(* then the lines that formatProof makes of its steps (ProofText), each    *)
(* the text of the clause at that step.                                    *)
(***************************************************************************)
EXTENDS ProofTrace, ProofText

proof_vars == <<clauses, trace_vars, print_vars>>

NothingPrinted ==
  lines = <<>> /\ agenda = <<>> /\ var_map = <<>> /\ result = <<>> /\ results = <<>>

ProofInit == StoreOK /\ TraceInit /\ NothingPrinted

Extract == TraceNext /\ UNCHANGED print_vars

\* formatProof is called with the steps, and begins with the first.
BeginFormat ==
  /\ phase = "done" /\ lines = <<>>
  /\ lines' = [n \in DOMAIN steps |-> clauses[steps[n]].literals]
  /\ agenda' = clauseToString(lines'[1])
  /\ UNCHANGED <<clauses, trace_vars, var_map, result, results>>

PrintLine == PrintNext /\ UNCHANGED <<clauses, trace_vars>>

ProofNext == Extract \/ BeginFormat \/ PrintLine

ProofFairness == WF_proof_vars(ExtractStep /\ UNCHANGED <<clauses, print_vars>>)
=============================================================================
