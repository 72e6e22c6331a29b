# TLA+ models of richard-atp-engine

The program is a saturation-based theorem prover for first-order logic: it reads
a TPTP problem in clause form, runs a given-clause loop with binary resolution
and factoring, and prints an SZS status with a proof. It is one thread. What is
hard about it is not concurrency but the interplay of steps that each look right:
simplification, scheduling, the limits, what a call leaves for the next one, what
terms share, and whether the recorded parents amount to a proof.

## Inventory

| Component | State | Operations | Used by |
| --- | --- | --- | --- |
| Prover (`src/search/prover.cc`, `include/atp/search`) | priority queue of clause copies, `processed_`, `empty_clause_id_`, limits, the locals of `prove()` | `addClauses`, `prove` (pop, skip, erase, generate, process), `getEmptyClauseId` | `main`, tests |
| ClauseStore (`src/core/clause_store.cc`) | clauses by id, only appended to | `addClause`, `getClause`, `size` | Prover, proof trace |
| Inference (`src/infer/resolution.cc`) | the static counter of fresh variables | `resolve`, `allResolvents`, `factor`, `renameVariables` | Prover |
| Unification, Substitution (`src/infer`) | a binding map per attempt | `unify`, `bind`, `resolve`, `apply`, `occursIn`, `applySubstitution` | inference |
| Simplification (`src/simplify`) | none | `subsumes`, `isTautology` | Prover |
| TermBank, SymbolTable (`src/core`) | hash-consed terms, interned names | `makeTerm`, `makeVar`, `intern` | parser, inference |
| Proof trace (`src/proof/proof_trace.cc`) | stack, visited set and list of one walk; names of variables per line | `extractProof`, `formatProof`, `clauseToString` | `main` |
| TPTP front end (`src/frontend/tptp_parser.cc`) | position in the text, current token, variables of the clause, formulas | `nextToken`, `parseTptpString`, `prepareForProving` | `main` |
| `src/main.cc` | none of its own | one run | |
| Stubs (index, normalize, rewrite, strategy) | – | declared for later versions, no code | nobody |

`main` parses, hands the clauses to the prover, calls `prove()` once and
extracts a proof; the library's interface also allows several batches and calls
(a call after `kTimeout` resumes). Clauses are shared through the store by id;
the queue holds copies, `processed_` ids. One term bank is shared by the parser,
the renaming of variables and the application of substitutions.

What makes the parts correct, and what is hard to test about it:

* the loop: sound; loses no clause or inference that it still needs, through
  subsumption in both directions, a queue whose tie order is unspecified, limits
  and resumption; ends with the right verdict; returns;
* the store and the inferences: the recorded rule and parents of each clause
  really yield it, from earlier clauses;
* the proof trace: exactly the ancestors of the empty clause, each once, with
  references that can be resolved and names that confuse no two variables;
* unification and substitution: a most general unifier when there is one, with
  the occurs check; what is left of that without it, the default; no cycle of
  variables; the instance and nothing else when it is applied; fresh variables
  that are fresh;
* the term bank: equal ids exactly for equal terms, which identity subsumption
  and the tautology test rely on;
* the front end: it accepts what it should, whatever was parsed before, and the
  clauses it hands over are those of the text.

`PROJECT.json` lists the hazards line by line.

## Modules

| Module | What it is |
| --- | --- |
| `Clauses` | literals, clauses, `isTautology`, `subsumes`, `renameVariables`, `resolve`, `factor` over abstract atoms |
| `Prover` | the given-clause loop and its callers |
| `ProverProperties` | what it has to guarantee, with a semantics of clauses |
| `Decision` | abstract: a procedure that is given clauses and gives true verdicts |
| `ProofTrace` | `extractProof` and the numbering of `formatProof`, with their properties |
| `ProofText` | `clauseToString` and `termToPretty`: the lines of a proof as they read |
| `Proof` | both composed: an extracted proof, printed step by step |
| `Atp` | `main`: Prover and ProofTrace composed over one store, with its exit codes |
| `Unification` | `unify` and `occursIn` over a `Substitution`, step by step, with their properties |
| `TermBank` | `SymbolTable` and `TermBank`, and the four ways they are called |
| `TermStore` | abstract: a growing list in which every tree has one position |
| `Substitute` | `renameVariables`, `applySubstitution` and `Substitution::apply` over a `TermBank`, step by step |
| `SubstituteProperties` | what they have to guarantee |
| `Lexer` | `TptpLexer`, character by character, with its properties |
| `Tptp` | `TptpParser` over tokens and a `TermBank`, and `prepareForProving` |
| `TptpText` | how parsed formulas are written, and that they are the text |
| `TptpProperties` | the accepted language, without a parser |
| `FrontEnd` | `Lexer` and `Tptp` composed: a file from its characters to clauses |
| `Texts` | an operator on sequences of tokens |
| `Propositional` | values for the constants of `Clauses`: 0-ary predicates |
| `Monadic` | values for the same constants with variables: predicates of one argument |
| `MCProver`, `MCFirstOrder`, `MCDiagonal`, `MCProof`, `MCAtp`, `MCUnification`, `MCSubstitute`, `MCTptp`, `MCFrontEnd` | the instances TLC checks |
| `SearchProofs` | the operators of the calculus, types and provenance; soundness, also of a part of the store, the `kTheorem` verdict, the refinement of `Decision`; the completeness invariant of the loop, order of depth, the overshoot, irredundance, refutation completeness of ground problems; the program: its printed proof and its status |
| `ProofTraceProofs` | the extracted proof |
| `ProofTextProofs` | the texts of its lines |
| `UnificationProofs` | most general unifiers, chains of variables, what success means |
| `BankProofs` | the term bank, and that it implements `TermStore` |
| `FrontEndProofs` | the parser as a client of the bank; what is read is what was written |
| `LexerProofs` | the tokens are the lexemes of the text |
| `SubstituteProofs` | fresh variables, hash consing and instances |

How state and actions correspond to the code:

* An id is a position in `clauses`, `terms` or `infos`, from 1; the code counts
  from 0. `NoId` is `kInvalidId`. The queue is a set of ids, because a queued copy
  never differs from the stored clause; `Top` is every clause that
  `std::priority_queue` may return, all ties included.
* `processed` holds every id ever pushed, in order, and `erased` the positions
  that `std::erase_if` has removed; `Live` are the others. Positions then do not
  shift under the inferences that are still to be made.
* One call of `prove()` is `Prove` and then steps at `pc`: at `"select"` the loop
  head with the limit, the pop, the two tests of the given clause and backward
  subsumption (no other code can run between them); at `"generate"` one pair of
  literals at a time, in the order of the nested loops; at `"process"` one new
  clause at a time. `Saturate`, `Timeout`, `RefuteByGiven` and `DeriveEmpty` are
  its four returns.
* `computeDepth` is taken modulo `DepthMod`, 2^16 in the code, the counter of
  fresh variables modulo `CounterMod`, 2^32, and an arity modulo `ArityMod`, 2^16.
* In `Clauses` an atom is abstract. Terms are hash-consed (`HashConsed`), so the
  code tells atoms apart by id only, and all the rules need is `Unify`,
  `ApplySubstitution`, the number of variables and a renaming. These are constants
  with the assumption `InferenceTyped`; the theorems hold for every such calculus.
  `OccursCheck` is `enable_occurs_check_` of `ProverConfig`, which is false unless a
  caller sets it and `main` does not: what is assumed of a unifier, `UnifierSound` and
  `SubstitutionLemma`, is assumed only if it is true.
* Recursion is unfolded into a stack that the code keeps on the machine's: that of
  `unify` is a list of pairs, `agenda`, that of `occursIn` a list of terms,
  `inspect`; `stack` in `Tptp` and `Substitute` holds the calls that wait for an
  argument, and `agenda` in `ProofText` what is still to be printed. `resolve`
  goes one link per step. Nothing then terminates by the shape of the model.
  `MaxDepth` in `Substitute` is the size of the machine's stack: `apply` of a
  cyclic binding runs into it.
* A `Grounding` in `Unification` reads every term as a finite tree, with the
  variables replaced; it is what solutions are counted by, and no part of the
  code. The bank's hash consing makes `t1 == t2` equality of terms.
  `OccursCheck`, the third argument of a call, is `enable_occurs_check_`.
* The term bank is used by `intern` and `makeTerm` together in three ways, for a
  variable, a constant and an application, and by `makeTerm` alone when
  `applySubstitution` builds a term again. `Tptp` and `Substitute` extend
  `TermBank` and take these four. `intern` throws on a `Mismatch`: `Tptp` has
  `Throw` then, which keeps the symbols and terms made so far, and `Substitute`
  `FreshenThrows`. `TakenNames` in `Atp` are the fresh names that a problem uses
  itself; `FailToRename` is what becomes of the program when one is handed out.
* A token is a type and a value; `Lexer` makes them out of characters, by class,
  and `Tptp` reads a sequence of them. In the code the parser asks the lexer for each
  token; the lexer never throws and sees nothing but the text, so `FrontEnd` lets it
  read all of it first. `Token(k)` is a token ahead: a header, and
  the two tokens that close a formula, are one step, because nothing happens to
  the state between their tokens but that one may throw.
* `Unifiers` in `Substitute` is what `unify` may have left, cyclic terms included:
  every binding of variables without a circle of them, out of the pairs in
  `Bindable`, with which an instance bounds it. Every order in which the hash map of
  variables may be walked is a behaviour, and the clauses that are made can be the
  arguments of later calls. The tables begin as a problem left them, `Symbols` and
  `Terms`.
* A line of `ProofText` is a sequence of marks; `prettyVarName` gives a letter
  and a number. `BaseCount` is 6 in the code.
* `Batches` is what a caller may add: literals only. A caller could also pass
  clauses with a rule and parents set; the program does not.

Operators marked as mutants in a comment are wrong versions of the definition
that follows them; `PROJECT.json` says which property each one breaks.

## Runs

| Run | Instance | Properties |
| --- | --- | --- |
| `prover_bfs` | propositional: all lists of one or two clauses of up to two literals over two atoms and some longer ones, every tie order; one batch and one call | types, provenance, soundness, verdicts, completeness, irredundance, order, termination |
| `prover_resume` | first-order, shortest clause first: four pieces of one problem added in any order between calls that stop after 2 iterations or 8 clauses; 5 calls | completeness across calls, overshoot, refinement of `Decision` |
| `proof` | all derivation graphs of five clauses, every root; and all pairs of clauses of up to two literals over `p(s, t)` and a constant, with three variables and two letters | extraction; the lines of a proof read the same exactly for variants |
| `unify` | all pairs of `p(s, t)` with `s`, `t` of depth up to one over `X`, `Y`, `a`, `f`, of `r(s, t, u)` over `X`, `Y`, `f(X)`, `f(Y)` with `u` a variable, and of `q`; with and without the occurs check | types, solutions, chains, success, termination |
| `substitute` | four clauses and what up to two calls make of them: renamings, with a counter that wraps after four names and a constant `_R3` in the problem, and applications by both functions of every substitution without a circle of variables out of eight pairs | hash consing, fresh variables, instances, termination |
| `front_end` | all files of up to five characters of seven kinds and three problems in three layouts, from characters to clauses; all texts with one token too many, missing or wrong in one of seven formulas, and all pairs of problems of up to two of the formulas, parsed into one bank; arities in one bit | lexemes with positions, types, sorts, acceptance, what is read, termination of both, refinement of `TermStore` |
| `atp` | nine problems without variables and four with, through `main` with the occurs check off, as it is by default, 4 iterations and one fresh name taken | the printed proof, the printed status, the exit |
| `prover_default` | two problems over `p(x, x)` and `p(x, f(x))`, occurs check off | finding, violated |
| `prover_reprove` | a caller that calls again after `kTheorem`; unit clauses in up to two batches | finding, violated |
| `atp_order` | as `atp` | finding, violated |
| `tptp_conjecture` | problems of up to two formulas | finding, violated |
| `tptp_fof` | the formulas of `front_end` with one token wrong | finding, violated |

Bounds. Two atoms and two literals are enough for every case of the code:
tautologies, repeated literals, factors, subsumption in both directions and of
equal sets, both orders of resolution, a derived and an input empty clause,
refutations of several steps, and ties. `MaxCalls` bounds the calls a caller
makes, and nothing else is cut off in the propositional runs: their search space is
finite because subsumption is by identity on finitely many atoms. `MaxClauses` and
`MaxIterations` are the program's own limits; 1000 is never reached, 8, 4 and 2 are
reached nearly always. `MaxStore` = 5 gives shared parents on paths of different
lengths, the case that tells a preorder from a topological order.

`MCFirstOrder` has one clause set whose search alone has no end: `p(X) | p(Y)` and
`~p(X) | p(Y)` yield a new variant of `p(_R)` for every fresh name, which identity
subsumption keeps, and with the other pieces it can be refuted with or without the
proposition. All that stops a call there are the limits, so a resumed call meets a
queue, processed clauses and a counter from the calls before it; four fresh names
(`NumFresh`, `CounterMod`) make the counter wrap. Interpretations with two elements
decide satisfiability in this signature: of an element only what `p` says of it
matters. `UnifierSound`, `SubstitutionLemma` and `InferenceTyped`, on which the
theorems rest, are evaluated on this instance too, with `OccursCheck` true.

`Problems` of `MCAtp` ends in every status and in the error of a taken name, with and
without having renamed before; no unification of its atoms needs the check, which
`prover_default` is about. There `p(X, X)` and `~p(Y, f(Y))` are satisfied by the
identity and a function without a fixed point, so two elements are enough.

The three-place atoms of the unification runs close a cycle with two arguments and
use it in the third. Their solvable problems have solutions of height two or less,
so the nine groundings of height up to two decide solvability, which
`SuccessIsUnifiable` relies on.

`ArityMod` = 2 lets two arities be one in the table. The formulas of `MCTptp` have a variable in two literals and twice in a term,
nested terms, a name with two arities and kinds, with parentheses and no argument,
known and unknown roles and an atom that is a variable; one wrong token reaches
every error of the parser, and pairs of problems every clash of names. Five
characters hold a comment between two lines, a comment or a word at the end, and a
word of three characters. `MaxCalls` = 2 lets `substitute` rename what was renamed,
rename what was applied and apply to what was renamed, and lets the counter reach
`CounterMod` = 4; `RenamedApart` claims nothing of what is made after that.
`MaxDepth` exceeds the height of every finite instance there. The pairs in
`Bindable` bind both variables of the problem, to each other, to the constant and to
terms over either, and a fresh variable: chains, terms that share a variable and
cycles of one and of two variables.

Deadlock is not checked: a caller need not call again, the program exits and
`unify`, the lexer and the printing of lines return.

Fairness. `FairSpec` says that a running call takes its next step (`WF` of
`ProverStep`), which one thread that is scheduled does; it says nothing of the
caller. `AtpSpec`, `ProofFairness` and `FrontEndFairness` say the same of `main`, of
`extractProof` and of lexer and parser, and the `Spec` of `Unification` and `Substitute`
(`Running`) of the functions they model.

## What the checks found

* `prove()` after `kTheorem` answers `kSaturation` (`prover_reprove`). The loop
  returns with the empty clause out of the queue and the rest of the new clauses
  dropped; nothing tells a second call that the set is refuted. `prover.h:42`
  explains `kSaturation` as "Search space saturated — cannot prove". In the run the
  clauses `p` and `~p` are refuted and then said to be saturated. The other runs do not
  make this call.
* `kTheorem` may be wrong in the default configuration (`prover_default`): the
  occurs check is off, `p(X, X)` and `p(Y, f(Y))` unify, and the satisfiable clauses
  `p(X, X)` and `~p(Y, f(Y))` are refuted. `prover.h:41` explains `kTheorem` as
  "conjecture is a theorem", and `docs/architecture.md:342` says that the check is
  "enabled for general mathematical reasoning (soundness ...)"; nothing enables it.
  `unification.h:31` does warn: "Set true for sound but slower unification".
* The printed proof need not be in topological order (`atp_order`), against
  `proof_trace.h:42`: `extractProof` reverses a depth-first preorder. For the
  inputs `p` and `~p | ~p` the line of `~p` refers to the later line of `p`. Every
  reference can still be resolved (`ProofIsReadable`).
* `prepareForProving` never looks at the role of a formula (`tptp_conjecture`),
  although `tptp_parser.h:91` says that it negates conjectures: the clause of a
  `cnf` conjecture is searched as an axiom.
* An entry declared with `fof` is refused (`tptp_fof`), although `tptp_parser.h:29`
  calls the language the "TPTP CNF/FOF subset" and `:82` says that the formula is
  built. `AcceptsExactly` is about texts of `cnf` entries.
* Without the occurs check `unify` need not even return: in
  `r(X, Y, X)` and `r(f(Y), f(X), Y)` two arguments close a cycle and the third
  runs round it. `apply` has the same fate on `X` bound to `f(X)`. No
  document promises that they return; `UnifyReturns` and `ApplyReturns` say what is
  left, and that the check restores it.
* Not a divergence from a text, but worth knowing: a variable is accepted where an
  atom is expected, as in `cnf(n, axiom, X)`; `p()` and `p` are different
  kinds of name and clash; a parse that fails keeps its names, so that a later one
  into the same bank can be refused for them; and `prepareForProving` moves the
  clauses out of the problem, so that a second call on it would return empty
  clauses.

## Proofs

Each theorem is about `Spec` (`TraceSpec` in `ProofTrace`, `PrintSpec` in `ProofText`,
`LexerSpec` in `Lexer`, `BankSpec` in `TermBank`, `AtpSpec` in `Atp`) for every value of the constants.

* `TypeCorrect`: the type invariant is inductive. Its strength is in what relates
  variables: scheduled inferences name live premises and existing literals, new
  clauses have stored parents, locals are empty where the code's are out of scope.
* `ProvenanceCorrect`: strengthened by the same statement about `new_clauses`.
  `resolve` is a function of the premises' literals, which never change once
  stored, so a clause found inferable stays so.
* `Soundness`, `TheoremVerdictCorrect`: by induction over the ids from
  `Provenance`, if the occurs check is on or the problem has no variables
  (`OccursCheck \/ GroundProblem`). In the first case from the assumptions
  `UnifierSound` (two unified atoms become one) and `SubstitutionLemma`, which
  `MostGeneral` and `SuccessCorrect` of `UnificationProofs` and `ApplyCorrect` of
  `SubstituteProofs` support at the level of terms; in the second, where the clauses
  that are derived have no variables either (`StoredSure`), from `GroundAtoms`: such
  atoms unify only if they are equal. Neither case can be dropped, see
  `prover_default`. The second covers the program as it is.
* `VerdictHasEmptyClause`: what the verdict rests on whatever the configuration is
  that the recorded clause is empty, and stays so.
* `DerivationsCorrect`: soundness for every set of clauses that contains the premises
  of its own, with the inputs in that set only, by the same induction: what was
  stored before names nothing that is stored later.
* `RefinesDecision`: every step of `Prover` is one of `Decision` or a stutter, under
  the hypothesis of `Soundness` and if `SaturationIsSatisfiable` holds throughout. That the clauses given only grow, that
  derived ones are none of them, and that `kTheorem` is true of all of them is
  proved; that a saturated set has a model is the hypothesis here.
* `SearchCorrect`: `SearchLosesNothing` is inductive itself. A clause is redundant
  if it is a tautology or subsumed by a clause that takes part in the search;
  every way a clause leaves the search, being skipped or erased, leaves another
  that subsumes it, and subsumption is transitive, so redundancy persists. The
  inferences of the given clause are covered one by one while `todo` empties, and
  what waits in `new_clauses` becomes stored, a tautology or subsumed.
* `BreadthFirstCorrect`: strengthened by "a depth is less than the id", which
  excludes the wrap below `DepthMod` clauses, and "what waits in `new_clauses` has
  the given clause as a parent".
* `OvershootCorrect`: strengthened by "while a given clause is being expanded, it is
  itself the common parent"; it was taken with fewer than `MaxClauses` clauses in the
  store, so nothing was beyond the limit then.
* `IrredundantCorrect`: strengthened by "no processed or given clause is queued".
* `GroundCompleteness` discharges that hypothesis for problems without variables
  (`GroundProblem`) in which nobody calls again after `kTheorem`, which the finding
  `prover_reprove` is about. From `SearchLosesNothing`, `ProcessedIrredundant` and `Provenance`
  the stored clauses are a finite set closed under resolution and factoring up to
  subsumption and tautologies, without the empty clause. The atoms that occur in it
  are decided one at a time, true unless that falsifies a clause all of whose atoms
  are decided; an atom that could be neither would have two clauses whose resolvent,
  after factoring, is falsified already. The induction is over the number of decided
  atoms, as the choice of a least one of a set of natural numbers. `GroundAtoms` says
  what the step uses of the calculus: an atom without variables unifies with itself
  and no other, is left alone by substitutions, and any set of such atoms can be the true
  ones. `RefinesDecisionGround` and `SatisfiableCorrect` follow, the latter because
  `main` makes one call.
* `TraceTypeCorrect`, `AncestryCorrect`, `ReadableCorrect`: while the walk runs,
  visited and stacked ids contain the root and all parents of visited ids, lie in
  every parent-closed set with the root, and the root was listed first.
* `TextCorrect`: the invariant (`PrintInv`) is that every finished line, and the current
  one as far as it goes, has a history (`Printing`): what was left to print before each
  element of its text, and for each variable a number, given out in the order they
  come (`Numbered`). Two texts with the same names are then read through a renaming,
  from equal number to equal number, and a renaming keeps the numbers, by the first
  place where it would not (`TextsBack`, `TextsForth`). The histories are compared item by
  item, from the end, where nothing is left (`PrintsBack`), and from the beginning
  (`PrintsForth`). A step back has to find where the arguments of a term end:
  what follows a term never begins with a parenthesis (`Spaced`), and a list of
  arguments ends at its first closing one (`ShorterArguments`). `SameUnder` is a
  recursive function over terms, whose solution exists because arguments are older.
* `PrintedDerivationCorrect`, `PrintedProofCorrect`: `AtpIsProver` makes the theorems about `Prover` hold in
  `Atp`, and each step of `main` is a step of the walk or leaves it alone, except that
  the store still grows before the walk begins; `StoreIsTraceable` gives the walk the
  store it assumes, from `Provenance`. The listed clauses then are closed under
  parents, so a derivation of the empty clause, which holds in every configuration. That
  the inputs it lists have no common model is `DerivationsCorrect`, under the hypothesis
  of `Soundness`.
* `UnificationTypeCorrect`, `ResolveEnds`, `MostGeneral`: a new binding leads to an
  unbound term, so it closes no circle of variables. The problem stays equivalent
  to bindings and agenda: decomposing and clashing because trees are free
  (`TreesAreFree`), failing in the occurs check because, as strengthening, every
  term inspected is lower than the term to be bound in each solution of the
  bindings, so the variable found there cannot equal it.
* `SuccessCorrect`: with the occurs check the graph from a term to its arguments, and
  from a variable to its binding, stays acyclic (`OccursInv`): what `occursIn` has
  looked into is closed under that graph and free of the variable when the check ends,
  so a cycle through the new binding would lie in it, and be an old one. A reading that
  satisfies acyclic bindings is put together from the leaves; one of most terms reads
  them all. The theorem's hypotheses are about the instance: the bank is finite, the
  arguments of a term are interned before it (`ArgumentsFirst`, which `BankTypeCorrect`
  proves of the bank), and `Grounding` has every reading of the terms as trees
  (`AllReadings`); the instance TLC checks has those up to `MaxHeight` only.
* `BankTypeCorrect`, `HashConsCorrect`, `SortsCorrect`: the conjunction of the
  three is inductive and none of them alone is: an id that a map returns is in
  bounds because the maps invert the vectors, a rebuilt term keeps its sort because
  its symbol is in bounds, and the name of a symbol decides its sort because it has
  one id.
* `BankRefines`: the refinement mapping reads each id as the tree it unfolds to.
  `Trees` is a recursive function; that it has a solution, and that it does not change
  for a term when the bank grows, is shown by the least id at which it would fail,
  since arguments are older than their term. Two ids with one tree would have the same
  name and, by the least such pair, the same arguments, so the same key.
* `ParserIsBankClient`, `ParsedBankCorrect`, `ParserTypeCorrect`: a step of the
  parser calls the bank in one of its ways, with arguments that are ids of terms,
  which is the parser's type invariant, or leaves it alone. So what holds of the
  bank for every caller holds after any number of parses, failed ones included
  (`ParsedBankRefines` too).
* `ReadCorrect`: the invariant (`ReadingOK`) is that what has been read and what is
  left of the text, `ahead`, are the text. What has been read is written again from the
  parser's state alone: the formulas, the header, the literals of `clause`, the sign, and
  the calls on `stack` from the outermost, each with the arguments it has (`ReadIn`).
  A role is forgotten by `parseRole`, so it is some word of the text that the formula's
  role is the reading of. `Written` is a recursive function over the terms, as
  `Trees` is: that it has a solution (`SpellExists`) and that a growing bank does not
  change the text of a term (`TextedGrows`) is by the least id again, so that all
  that was written stays when a step adds a term. `variable_cache` needs an invariant of its
  own: each variable found there is written as the name it was found under. That a
  constant or an application has the name that was read is `InternNames`, from hash
  consing. The lemmas on `FlattenSeq` and `Separated` (what appending a piece does) are
  proved from its definition, a recursive function too.
* `LexerCorrect`: between lexemes, the tokens made are those of the positions before
  `pos` at which a lexeme begins, in order (`Written`), `pos` is in no comment the lexer
  has not seen and goes on with no word it has not begun; within a word, every character
  since `start` belongs to it. `line` and `column` are counted from the newlines before
  `pos` (`PositionKnown`). The classes of characters are constants, of which
  `ClassesApart` says what the C locale says of them.
* `RenamingCorrect`: as long as the counter has not wrapped, the variables named by it
  have the numbers that were handed out, so the next name is no symbol's yet, the term
  of it is new and its id greater than every id there was. That the name is no
  constant's is what `FreshenThrows` is for.
* `ApplyCorrect`: the innermost call computes an instance of what the call below waits
  for, or of an atom of the clause (`Doing`, `Wanted`), every argument that has been
  given is an instance of the one it stands for (`Done`), and this is kept while the
  bank grows under it. `Acyclic` is the occurs check's guarantee: without a cycle the
  recursion `Instances` has a solution, built by adding a term that depends only on
  solved ones until there is none left (`NoneLeft`, by the least id again).
* `SubstituteHashCons`: both functions call the bank in two of its ways.

The assumptions are `InferenceTyped` and `ConfigTyped` (types of the constants),
`ValuationExists`, `UnifierSound`, `SubstitutionLemma` and `GroundAtoms` (the
semantics of clauses), `TakenNamesTyped` (of `Atp`), `BankTyped` and `TreesAreFree` (of `Unification`),
`ArityModTyped`, `TextsTyped`, `CharTyped` and `ClassesApart` (of `Lexer`),
`LinesPrintable` (of `ProofText`: terms of a bank, whose names are words, so none is a
parenthesis, a comma or one of the three signs),
`ProblemParsed` and `NamesFresh` (of `Substitute`: the tables are those of a bank, and
no variable of a problem begins with an underscore). TLC evaluates all of them in the
runs.

Only model-checked:

* liveness, which is out of the prover's reach (`ProveReturns`, `ExtractionReturns`,
  `ProgramExits`, `UnifyReturns`, `ApplyReturns`, `ParserReturns`, `LexerEnds`);
* `SaturationIsSatisfiable` and `SatisfiableHasModel` of problems with variables, which
  need the lifting of ground inferences to clauses: the resolvent of two instances is
  an instance of the resolvent of the clauses, and factoring lifts in the same way,
  while identity subsumption does not;
* `AcceptsExactly`, which compares with recursive operators over texts. Half of it
  follows from what is proved: an accepted text is the writing of clauses that are well
  sorted (`ReadCorrect`, `ParsedBankCorrect`). That no problem is refused needs every
  way to read it excluded but one.

## Not modelled

* The stubs hold no code: of `fof` entries there is nothing but the exception that the
  parser throws.
* Failed allocations, and what is left of a search to a caller other than `main` that
  catches the exception of a taken fresh name and calls `prove()` again.
* A search in which `unify` or the application of its result does not return, which
  the prover's constants `Unify` and `ApplySubstitution` cannot express; `Unification`
  and `Substitute` show when that happens.
* `getMutableClause`, `forEach`, `lookup`, `clear` and `termToString` have no caller
  in `src/`.
* The columns of a printed proof, the names of rules and logging.
* Two hazards of a search without end can only be shown as far as the limits
  reach: under `weightCompare` a long clause may wait for ever while short ones are
  derived, and identity subsumption keeps every variant. `prover_resume` shows that
  what waits is kept and that the limits end such a search with `kTimeout`.

## Plan

Done: `Clauses`, `Prover`, `ProofTrace`, `Atp`, `Unification`, `TermBank`, `Lexer`,
`Tptp`, `FrontEnd`, `Substitute`, `ProofText`, `Proof`, `Decision`, `TermStore`, with runs, the first-order
instance, and the theorems above.

Left: the proof of `AcceptsExactly`, with recursive functions in place of the operators;
`Tptp` composed with `Atp` in place of `Batches`.
