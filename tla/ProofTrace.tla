----------------------------- MODULE ProofTrace ------------------------------
(***************************************************************************)
(* Proof reconstruction, src/proof/proof_trace.cc: extractProof walks from *)
(* the empty clause back to the inputs with an explicit stack, reverses    *)
(* what it has listed, and formatProof numbers the lines and refers to the *)
(* parents by line.  The store is only read.                               *)
(***************************************************************************)
EXTENDS Integers, Sequences, SequencesExt

VARIABLES
  clauses,     \* the ClauseStore; only rule, parent1 and parent2 matter here
  root,        \* the argument empty_clause_id
  worklist,    \* the stack, its top last
  visited,
  steps,       \* the ids listed so far; after the reversal, the proof
  phase        \* "idle", "walking" or "done"

trace_vars == <<root, worklist, visited, steps, phase>>

NoId == 0   \* kInvalidId

TraceInit ==
  root = NoId /\ worklist = <<>> /\ visited = {} /\ steps = <<>> /\ phase = "idle"

extractProof(empty_clause_id) ==
  /\ phase = "idle"
  /\ root' = empty_clause_id
  /\ worklist' = <<empty_clause_id>> /\ visited' = {} /\ steps' = <<>>
  /\ phase' = "walking"

Pop == SubSeq(worklist, 1, Len(worklist) - 1)

\* Mutant of SkipId: continue before the pop.
SkipWithoutPop ==
  /\ phase = "walking" /\ worklist # <<>>
  /\ worklist[Len(worklist)] \in visited \cup {NoId}
  /\ UNCHANGED <<root, worklist, visited, steps, phase>>

SkipId ==
  /\ phase = "walking" /\ worklist # <<>>
  /\ worklist[Len(worklist)] \in visited \cup {NoId}
  /\ worklist' = Pop
  /\ UNCHANGED <<root, visited, steps, phase>>

\* Mutant of VisitId: the visited set is filled but not looked at.
VisitAgain ==
  /\ phase = "walking" /\ worklist # <<>>
  /\ LET cid == worklist[Len(worklist)]
         c   == clauses[cid]
     IN  /\ cid # NoId
         /\ visited' = visited \cup {cid}
         /\ steps' = Append(steps, cid)
         /\ worklist' = Pop \o <<c.parent1, c.parent2>>
  /\ UNCHANGED <<root, phase>>

\* Mutant of VisitId: only the second parent is pushed.
VisitOneParent ==
  /\ phase = "walking" /\ worklist # <<>>
  /\ LET cid == worklist[Len(worklist)]
     IN  /\ cid \notin visited \cup {NoId}
         /\ visited' = visited \cup {cid}
         /\ steps' = Append(steps, cid)
         /\ worklist' = Append(Pop, clauses[cid].parent2)
  /\ UNCHANGED <<root, phase>>

VisitId ==
  /\ phase = "walking" /\ worklist # <<>>
  /\ LET cid == worklist[Len(worklist)]
         c   == clauses[cid]
     IN  /\ cid \notin visited \cup {NoId}
         /\ visited' = visited \cup {cid}
         /\ steps' = Append(steps, cid)
         /\ worklist' = Pop \o <<c.parent1, c.parent2>>
  /\ UNCHANGED <<root, phase>>

\* Mutant of ReverseSteps: the list is returned as it is.
FinishWithoutReverse ==
  /\ phase = "walking" /\ worklist = <<>>
  /\ phase' = "done"
  /\ UNCHANGED <<root, worklist, visited, steps>>

ReverseSteps ==
  /\ phase = "walking" /\ worklist = <<>>
  /\ steps' = Reverse(steps)
  /\ phase' = "done"
  /\ UNCHANGED <<root, worklist, visited>>

ExtractStep == SkipId \/ VisitId \/ ReverseSteps

\* formatProof: the line a parent is referred to by; a step listed twice would
\* be known by its last line, and one not listed falls back to "?<id>".
Fallback == 0

id_to_step(cid) ==
  LET lines == {n \in DOMAIN steps : steps[n] = cid}
  IN  IF lines = {} THEN Fallback ELSE CHOOSE n \in lines : \A m \in lines : m <= n

\* The parents a line names: none without a first parent, the second only
\* if it is there too.
formatProof ==
  [n \in DOMAIN steps |->
     LET c == clauses[steps[n]]
     IN  IF c.parent1 = NoId THEN <<>>
         ELSE IF c.parent2 = NoId THEN <<id_to_step(c.parent1)>>
         ELSE <<id_to_step(c.parent1), id_to_step(c.parent2)>>]

-----------------------------------------------------------------------------
(* The component alone, on a store that addClause has filled: ids are handed *)
(* out in order, so a clause can only name earlier ones as its parents, and  *)
(* no rule records a second parent without a first.                          *)

StoreOK ==
  /\ Len(clauses) \in Nat /\ DOMAIN clauses = 1..Len(clauses)
  /\ \A id \in DOMAIN clauses :
       /\ clauses[id].parent1 \in 0..(id - 1) /\ clauses[id].parent2 \in 0..(id - 1)
       /\ clauses[id].parent1 = NoId => clauses[id].parent2 = NoId

TraceNext ==
  /\ ExtractStep \/ \E id \in DOMAIN clauses : extractProof(id)
  /\ UNCHANGED clauses

TraceSpec ==
  /\ StoreOK /\ TraceInit
  /\ [][TraceNext]_<<clauses, trace_vars>>
  /\ WF_<<clauses, trace_vars>>(ExtractStep /\ UNCHANGED clauses)

-----------------------------------------------------------------------------
(* Properties *)

Parents(id) == {clauses[id].parent1, clauses[id].parent2} \ {NoId}

ParentClosed(S) == \A id \in S : Parents(id) \subseteq S

\* The type invariant: the stack and the list hold ids of the store, and the list
\* is the visited set in order, without repetition.
TraceOK ==
  /\ phase \in {"idle", "walking", "done"}
  /\ worklist \in Seq(DOMAIN clauses \cup {NoId})
  /\ steps \in Seq(DOMAIN clauses)
  /\ visited = ToSet(steps)
  /\ \A m, n \in DOMAIN steps : m # n => steps[m] # steps[n]

\* The proof consists of exactly the empty clause and its ancestors: it is
\* closed under parents, and part of every such set.
ProofIsAncestry ==
  phase = "done" =>
    /\ root \in ToSet(steps) /\ ParentClosed(ToSet(steps))
    /\ \A S \in SUBSET DOMAIN clauses :
         root \in S /\ ParentClosed(S) => ToSet(steps) \subseteq S

\* The last line of the printed proof is the empty clause, every reference on a
\* line is to the line of that parent, and the fallback is never printed.
ProofIsReadable ==
  phase = "done" =>
    /\ steps[Len(steps)] = root
    /\ \A n \in DOMAIN steps :
         /\ \A k \in DOMAIN formatProof[n] : formatProof[n][k] \in DOMAIN steps
         /\ {steps[formatProof[n][k]] : k \in DOMAIN formatProof[n]} = Parents(steps[n])

\* extractProof returns.
ExtractionReturns == phase = "walking" ~> phase = "done"

\* proof_trace.h: "Returns steps in topological order: axioms first".
ParentsBeforeChildren ==
  phase = "done" =>
    \A n \in DOMAIN steps : \A k \in DOMAIN formatProof[n] : formatProof[n][k] < n
=============================================================================
