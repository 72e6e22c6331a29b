------------------------------- MODULE Prover --------------------------------
(***************************************************************************)
(* The given-clause loop: class Prover of src/search/prover.cc over a      *)
(* ClauseStore, with the queue of include/atp/search/clause_queue.h.       *)
(*                                                                         *)
(* A caller adds batches of clauses and calls prove(), any number of times *)
(* (a call after kTimeout resumes the search).  prove() is one thread; its *)
(* loops are taken one inference and one new clause at a time, because     *)
(* what the search guarantees has to hold between two such steps.          *)
(***************************************************************************)
EXTENDS Clauses

CONSTANTS
  Comparator,          \* ProverConfig::comparator_: "bfs" or "weight"
  OccursCheck,         \* ProverConfig::enable_occurs_check_, which is off by default
  MaxClauses,          \* ProverConfig::max_clauses_
  MaxIterations,       \* ProverConfig::max_iterations_
  DepthMod,            \* 2^16: the width of Clause::depth_
  Batches,             \* what a caller may pass to addClauses (literals only)
  MaxCalls,            \* how many calls a caller makes (bounds the model)
  ReproveAfterTheorem  \* whether a caller calls prove() again after kTheorem

ASSUME ConfigTyped ==
  /\ Comparator \in {"bfs", "weight"} /\ OccursCheck \in BOOLEAN
  /\ MaxClauses \in Nat /\ MaxIterations \in Nat /\ MaxCalls \in Nat
  /\ DepthMod \in Nat \ {0}
  /\ \A batch \in Batches : batch \in Seq(Seq(Literal))
  /\ ReproveAfterTheorem \in BOOLEAN

VARIABLES
  clauses,          \* the ClauseStore: ids are the positions, from 1
  unprocessed,      \* the ids in the priority queue
  processed,        \* the ids ever pushed to processed_, in order
  erased,           \* the positions of processed that erase_if has removed
  empty_clause_id,  \* NoId while it has no value
  var_counter,      \* the static counter of resolve()
  pc,               \* where prove() stands; "ready": no call is running
  result,           \* what the last call returned
  calls,            \* calls made so far
  iterations, given, todo, new_clauses   \* the locals of prove()

store     == <<clauses, var_counter>>
search    == <<unprocessed, processed, erased, empty_clause_id>>
caller    == <<result, calls>>
vars == <<clauses, var_counter, unprocessed, processed, erased,
          empty_clause_id, pc, result, calls, iterations, given, todo, new_clauses>>

NoId == 0   \* kInvalidId

Rule == {"kInput", "kResolution", "kFactoring"}
Clause == [literals : Seq(Literal), rule : Rule,
           parent1 : Nat, parent2 : Nat, depth : 0..(DepthMod - 1)]

InputClause(lits) ==
  [literals |-> lits, rule |-> "kInput", parent1 |-> NoId, parent2 |-> NoId, depth |-> 0]
\* Mutant of Resolvent: the first parent recorded twice.
ResolventOfOneParent(lits, id1, id2) ==
  [literals |-> lits, rule |-> "kResolution", parent1 |-> id1, parent2 |-> id1, depth |-> 0]
Resolvent(lits, id1, id2) ==
  [literals |-> lits, rule |-> "kResolution", parent1 |-> id1, parent2 |-> id2, depth |-> 0]
Factored(lits, id) ==
  [literals |-> lits, rule |-> "kFactoring", parent1 |-> id, parent2 |-> NoId, depth |-> 0]

Literals(id) == clauses[id].literals

-----------------------------------------------------------------------------
(* Scheduling and simplification against the current sets *)

\* Mutant of bfsCompare: the comparison of a max-heap turned round.
deepestFirst(a, b)  == a.depth < b.depth

bfsCompare(a, b)    == a.depth > b.depth
weightCompare(a, b) == Len(a.literals) > Len(b.literals)

\* What top() may return: a clause no other is preferred to.  Which of several
\* equal ones a binary heap returns is not specified.
Top == {id \in unprocessed : \A other \in unprocessed :
          IF Comparator = "bfs"
          THEN ~bfsCompare(clauses[id], clauses[other])
          ELSE ~weightCompare(clauses[id], clauses[other])}

\* Mutant of hitResourceLimit: the size of the store is not looked at.
hitIterationLimit == iterations >= MaxIterations

hitResourceLimit == iterations >= MaxIterations \/ Len(clauses) >= MaxClauses

\* The positions of processed_ that are still there.
Live == DOMAIN processed \ erased

isForwardSubsumedByProcessed(lits) == \E k \in Live : subsumes(Literals(processed[k]), lits)

shouldSkipGiven(lits) == isTautology(lits) \/ isForwardSubsumedByProcessed(lits)

\* Mutant of BackwardSubsumed: the arguments of subsumes swapped.
BackwardSubsumedSwapped(lits) == {k \in Live : subsumes(Literals(processed[k]), lits)}

BackwardSubsumed(lits) == {k \in Live : subsumes(lits, Literals(processed[k]))}

DepthOf(id) == IF id # NoId THEN clauses[id].depth ELSE 0

computeDepth(c) ==
  LET d1 == DepthOf(c.parent1)
      d2 == DepthOf(c.parent2)
  IN  ((IF d1 >= d2 THEN d1 ELSE d2) + 1) % DepthMod

-----------------------------------------------------------------------------
(* The inferences of one given clause.  <<k, 1, i, j>> resolves literal i   *)
(* of the given clause with literal j of the k-th processed one,            *)
(* <<k, 2, i, j>> literal i of the processed with j of the given one; the   *)
(* factors <<k, 1, i, j>> come after them all, at k = FactorRank.  The      *)
(* nested loops of generateNewClauses visit them in lexicographic order.    *)

FactorRank == Len(processed) + 1

Resolutions(id, live) ==
  UNION {{<<k, 1, ij[1], ij[2]>> : ij \in ComplementaryPairs(Literals(id), Literals(processed[k]))}
           \cup
         {<<k, 2, ij[1], ij[2]>> : ij \in ComplementaryPairs(Literals(processed[k]), Literals(id))}
         : k \in live}

Factorings(id) == {<<FactorRank, 1, ij[1], ij[2]>> : ij \in FactorPairs(Literals(id))}

Precedes(t, u) ==
  \E n \in 1..4 : t[n] < u[n] /\ \A m \in 1..(n - 1) : t[m] = u[m]

IsNext(t) == t \in todo /\ \A u \in todo \ {t} : Precedes(t, u)

LeftParent(t)  == IF t[2] = 1 THEN given ELSE processed[t[1]]
RightParent(t) == IF t[2] = 1 THEN processed[t[1]] ELSE given

-----------------------------------------------------------------------------
Init ==
  /\ clauses = <<>> /\ var_counter = 0
  /\ unprocessed = {} /\ processed = <<>> /\ erased = {} /\ empty_clause_id = NoId
  /\ pc = "ready" /\ result = "none" /\ calls = 0
  /\ iterations = 0 /\ given = NoId /\ todo = {} /\ new_clauses = <<>>

addClauses(batch) ==
  /\ pc = "ready" /\ calls < MaxCalls
  /\ clauses' = clauses \o [k \in DOMAIN batch |-> InputClause(batch[k])]
  /\ unprocessed' = unprocessed \cup {Len(clauses) + k : k \in DOMAIN batch}
  /\ calls' = calls + 1
  /\ UNCHANGED <<var_counter, processed, erased, empty_clause_id, pc, result,
                 iterations, given, todo, new_clauses>>

Prove ==
  /\ pc = "ready" /\ calls < MaxCalls
  /\ ReproveAfterTheorem \/ empty_clause_id = NoId
  /\ pc' = "select" /\ iterations' = 0 /\ given' = NoId
  /\ calls' = calls + 1
  /\ UNCHANGED <<store, search, result, todo, new_clauses>>

Return(verdict) == pc' = "ready" /\ result' = verdict /\ UNCHANGED calls

Saturate ==
  /\ pc = "select" /\ unprocessed = {}
  /\ Return("kSaturation")
  /\ UNCHANGED <<store, search, iterations, given, todo, new_clauses>>

\* Mutant of Timeout: the given clause is popped before the limits are checked.
TimeoutAfterPop ==
  /\ pc = "select" /\ hitResourceLimit
  /\ \E id \in Top : unprocessed' = unprocessed \ {id}
  /\ Return("kTimeout")
  /\ UNCHANGED <<store, processed, erased, empty_clause_id, iterations, given, todo, new_clauses>>

Timeout ==
  /\ pc = "select" /\ unprocessed # {} /\ hitResourceLimit
  /\ Return("kTimeout")
  /\ UNCHANGED <<store, search, iterations, given, todo, new_clauses>>

popGivenClause(id) ==
  /\ pc = "select" /\ ~hitResourceLimit
  /\ id \in Top
  /\ iterations' = iterations + 1
  /\ given' = id
  /\ unprocessed' = unprocessed \ {id}

RefuteByGiven(id) ==
  /\ popGivenClause(id)
  /\ Literals(id) = <<>>
  /\ empty_clause_id' = id
  /\ Return("kTheorem")
  /\ UNCHANGED <<store, processed, erased, todo, new_clauses>>

SkipGiven(id) ==
  /\ popGivenClause(id)
  /\ Literals(id) # <<>> /\ shouldSkipGiven(Literals(id))
  /\ UNCHANGED <<store, processed, erased, empty_clause_id, pc, caller, todo, new_clauses>>

\* Mutant of ExpandGiven: inferences are made with the clauses it subsumes, too.
ExpandGivenBeforeErasing(id) ==
  /\ popGivenClause(id)
  /\ Literals(id) # <<>> /\ ~shouldSkipGiven(Literals(id))
  /\ erased' = erased \cup BackwardSubsumed(Literals(id))
  /\ todo' = Resolutions(id, Live) \cup Factorings(id)
  /\ pc' = "generate"
  /\ UNCHANGED <<store, processed, empty_clause_id, caller, new_clauses>>

ExpandGiven(id) ==
  /\ popGivenClause(id)
  /\ Literals(id) # <<>> /\ ~shouldSkipGiven(Literals(id))
  /\ erased' = erased \cup BackwardSubsumed(Literals(id))
  /\ todo' = Resolutions(id, Live \ BackwardSubsumed(Literals(id))) \cup Factorings(id)
  /\ pc' = "generate"
  /\ UNCHANGED <<store, processed, empty_clause_id, caller, new_clauses>>

GenerateResolvent(t) ==
  /\ pc = "generate" /\ IsNext(t) /\ t[1] # FactorRank
  /\ LET left  == LeftParent(t)
         right == RightParent(t)
         r     == resolve(Literals(left), t[3], Literals(right), t[4], var_counter)
     IN  /\ var_counter' = NextCounter(Literals(right), var_counter)
         /\ \/ r = {} /\ UNCHANGED new_clauses
            \/ \E lits \in r : new_clauses' = Append(new_clauses, Resolvent(lits, left, right))
  /\ todo' = todo \ {t}
  /\ UNCHANGED <<clauses, search, pc, caller, iterations, given>>

GenerateFactor(t) ==
  /\ pc = "generate" /\ IsNext(t) /\ t[1] = FactorRank
  /\ LET r == factor(Literals(given), t[3], t[4])
     IN  \/ r = {} /\ UNCHANGED new_clauses
         \/ \E lits \in r : new_clauses' = Append(new_clauses, Factored(lits, given))
  /\ todo' = todo \ {t}
  /\ UNCHANGED <<store, search, pc, caller, iterations, given>>

\* Mutant of FinishGenerate: the given clause is not pushed to processed_.
FinishGenerateForgetting ==
  /\ pc = "generate" /\ todo = {}
  /\ pc' = "process"
  /\ UNCHANGED <<store, search, caller, iterations, given, todo, new_clauses>>

FinishGenerate ==
  /\ pc = "generate" /\ todo = {}
  /\ processed' = Append(processed, given)
  /\ pc' = "process"
  /\ UNCHANGED <<store, unprocessed, erased, empty_clause_id, caller,
                 iterations, given, todo, new_clauses>>

\* Mutant of DeriveEmpty: the id of the clause before.
DeriveEmptyOffByOne ==
  /\ pc = "process" /\ new_clauses # <<>>
  /\ Head(new_clauses).literals = <<>>
  /\ clauses' = Append(clauses, Head(new_clauses))
  /\ empty_clause_id' = Len(clauses)
  /\ new_clauses' = <<>>
  /\ Return("kTheorem")
  /\ UNCHANGED <<var_counter, unprocessed, processed, erased, iterations, given, todo>>

\* The rest of new_clauses is dropped, and the depth is not computed.
DeriveEmpty ==
  /\ pc = "process" /\ new_clauses # <<>>
  /\ Head(new_clauses).literals = <<>>
  /\ clauses' = Append(clauses, Head(new_clauses))
  /\ empty_clause_id' = Len(clauses')
  /\ new_clauses' = <<>>
  /\ Return("kTheorem")
  /\ UNCHANGED <<var_counter, unprocessed, processed, erased, iterations, given, todo>>

\* Mutant of DiscardTautology: the loop continues without advancing.
DiscardTautologyAgain ==
  /\ pc = "process" /\ new_clauses # <<>>
  /\ Head(new_clauses).literals # <<>> /\ isTautology(Head(new_clauses).literals)
  /\ UNCHANGED vars

DiscardTautology ==
  /\ pc = "process" /\ new_clauses # <<>>
  /\ Head(new_clauses).literals # <<>> /\ isTautology(Head(new_clauses).literals)
  /\ new_clauses' = Tail(new_clauses)
  /\ UNCHANGED <<store, search, pc, caller, iterations, given, todo>>

\* Every other clause is stored, and queued unless a processed one subsumes it.
StoreNewClause ==
  /\ pc = "process" /\ new_clauses # <<>>
  /\ Head(new_clauses).literals # <<>> /\ ~isTautology(Head(new_clauses).literals)
  /\ LET nc == [Head(new_clauses) EXCEPT !.depth = computeDepth(Head(new_clauses))]
     IN  /\ clauses' = Append(clauses, nc)
         /\ \/ /\ isForwardSubsumedByProcessed(nc.literals)
               /\ UNCHANGED unprocessed
            \/ /\ ~isForwardSubsumedByProcessed(nc.literals)
               /\ unprocessed' = unprocessed \cup {Len(clauses')}
  /\ new_clauses' = Tail(new_clauses)
  /\ UNCHANGED <<var_counter, processed, erased, empty_clause_id, pc, caller,
                 iterations, given, todo>>

FinishProcess ==
  /\ pc = "process" /\ new_clauses = <<>>
  /\ pc' = "select"
  /\ UNCHANGED <<store, search, caller, iterations, given, todo, new_clauses>>

LoopHead == \/ Saturate \/ Timeout
            \/ \E id \in unprocessed : RefuteByGiven(id) \/ SkipGiven(id) \/ ExpandGiven(id)
Generate == \/ FinishGenerate
            \/ \E t \in todo : GenerateResolvent(t) \/ GenerateFactor(t)
Process  == DeriveEmpty \/ DiscardTautology \/ StoreNewClause \/ FinishProcess

\* The body of prove(), and the calls a caller makes between two of them.
ProverStep == LoopHead \/ Generate \/ Process
CallerStep == Prove \/ \E batch \in Batches : addClauses(batch)

Next == ProverStep \/ CallerStep

Spec == Init /\ [][Next]_vars

\* A running call takes its next step; a caller need not call again.
FairSpec == Spec /\ WF_vars(ProverStep)
=============================================================================
