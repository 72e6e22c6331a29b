-------------------------------- MODULE Atp ----------------------------------
(***************************************************************************)
(* The program: src/main.cc reads one problem, hands its clauses to the    *)
(* prover, calls prove() once, and reports the verdict in SZS form, with   *)
(* the proof when there is one.  Composes Prover and ProofTrace over the   *)
(* one ClauseStore; what parseTptpFile returns is a member of Batches.     *)
(***************************************************************************)
EXTENDS ProverProperties

CONSTANT TakenNames   \* the n whose fresh name _R<n> the problem gives to a constant,
                      \* a function or a predicate

ASSUME TakenNamesTyped == TakenNames \subseteq 0..(CounterMod - 1)

VARIABLES
  stage,      \* "started", "loaded", "proving", "extracting" or "exited"
  szs,        \* the status line: "none", "Theorem", "Satisfiable", "Timeout"
  exit_code,  \* of the process; "none" while it runs
  root, worklist, visited, steps, phase

Trace == INSTANCE ProofTrace

trace == <<root, worklist, visited, steps, phase>>
atp_vars == <<vars, stage, szs, exit_code, root, worklist, visited, steps, phase>>

AtpInit ==
  Init /\ Trace!TraceInit /\ stage = "started" /\ szs = "none" /\ exit_code = "none"

Exit(code) == stage' = "exited" /\ exit_code' = code

\* No argument is given; or the file cannot be opened, or does not parse, which
\* main() learns by an exception.
Usage       == stage = "started" /\ Exit("EXIT_FAILURE") /\ UNCHANGED <<vars, szs, trace>>
RejectInput == stage = "started" /\ Exit("EXIT_FAILURE") /\ UNCHANGED <<vars, szs, trace>>

\* prepareForProving and addClauses, once.
LoadProblem ==
  /\ stage = "started"
  /\ \E batch \in Batches : addClauses(batch)
  /\ stage' = "loaded"
  /\ UNCHANGED <<szs, exit_code, trace>>

CallProve ==
  /\ stage = "loaded" /\ Prove /\ stage' = "proving"
  /\ UNCHANGED <<szs, exit_code, trace>>

\* The next inference renames a clause, and intern refuses one of the fresh names.
RenamingThrows ==
  /\ pc = "generate"
  /\ \E t \in todo :
       /\ IsNext(t) /\ t[1] # FactorRank
       /\ \E k \in 1..NumVariables(Atoms(Literals(RightParent(t)))) :
            (var_counter + k - 1) % CounterMod \in TakenNames

RunProver ==
  /\ stage = "proving" /\ ~RenamingThrows /\ ProverStep
  /\ UNCHANGED <<stage, szs, exit_code, trace>>

\* The exception leaves resolve() and prove(), and main() ends.
FailToRename ==
  /\ stage = "proving" /\ RenamingThrows
  /\ Exit("EXIT_FAILURE")
  /\ UNCHANGED <<vars, szs, trace>>

ReportTheorem ==
  /\ stage = "proving" /\ pc = "ready" /\ result = "kTheorem"
  /\ szs' = "Theorem"
  /\ IF empty_clause_id # NoId
     THEN Trace!extractProof(empty_clause_id) /\ stage' = "extracting" /\ UNCHANGED exit_code
     ELSE UNCHANGED trace /\ Exit("EXIT_SUCCESS")
  /\ UNCHANGED vars

\* Mutant of ReportNoProof: no case for kSaturation.
ReportTimeoutOnly ==
  /\ stage = "proving" /\ pc = "ready" /\ result = "kTimeout"
  /\ szs' = "Timeout"
  /\ Exit("EXIT_SUCCESS")
  /\ UNCHANGED <<vars, trace>>

ReportNoProof ==
  /\ stage = "proving" /\ pc = "ready" /\ result # "kTheorem"
  /\ szs' = IF result = "kSaturation" THEN "Satisfiable" ELSE "Timeout"
  /\ Exit("EXIT_SUCCESS")
  /\ UNCHANGED <<vars, trace>>

ExtractProof ==
  /\ stage = "extracting" /\ Trace!ExtractStep
  /\ UNCHANGED <<vars, stage, szs, exit_code>>

PrintProof ==
  /\ stage = "extracting" /\ phase = "done"
  /\ Exit("EXIT_SUCCESS")
  /\ UNCHANGED <<vars, szs, trace>>

AtpNext == \/ Usage \/ RejectInput \/ LoadProblem \/ CallProve \/ RunProver \/ FailToRename
           \/ ReportTheorem \/ ReportNoProof \/ ExtractProof \/ PrintProof

\* main() is one thread that runs to its end.
AtpSpec == AtpInit /\ [][AtpNext]_atp_vars /\ WF_atp_vars(AtpNext)

-----------------------------------------------------------------------------
(* Properties *)

Printed == stage = "exited" /\ szs = "Theorem"

\* "Theorem" is never printed without a proof, whatever the configuration: its
\* lines are the empty clause and its ancestors and can be referred to, and each
\* line that is not an input follows by its rule from the lines it names.
PrintedProofIsDerivation ==
  Printed =>
    /\ phase = "done" /\ steps # <<>>
    /\ Trace!ProofIsAncestry /\ Trace!ProofIsReadable
    /\ Literals(steps[Len(steps)]) = <<>>
    /\ \A n \in DOMAIN steps : InferredFrom(clauses[steps[n]], ToSet(steps))

\* And the printed proof is a refutation: the inputs among its lines have no
\* common model.
PrintedProofIsRefutation ==
  /\ PrintedProofIsDerivation
  /\ Printed =>
       ~\E I \in Interpretation :
          \A n \in DOMAIN steps :
            clauses[steps[n]].rule = "kInput" => Satisfies(I, Literals(steps[n]))

\* "Satisfiable" is printed only of a problem that has a model.
SatisfiableHasModel ==
  stage = "exited" /\ szs = "Satisfiable" => \E I \in Interpretation : SatisfiesInputs(I)

\* The program ends, and has then printed a status line exactly if it ends with
\* success: an error is told by the exit code and never by silence alone.
ProgramExits == <>(stage = "exited" /\ (exit_code = "EXIT_SUCCESS" <=> szs # "none"))

\* proof_trace.h: "Returns steps in topological order: axioms first, empty
\* clause last."
ParentsBeforeChildren == Trace!ParentsBeforeChildren
=============================================================================
