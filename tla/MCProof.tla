------------------------------ MODULE MCProof --------------------------------
(***************************************************************************)
(* Every store of MaxStore clauses that derivations can leave: an input has *)
(* no parents, a factored clause one earlier clause, a resolvent two       *)
(* different earlier ones.  And for what the lines read like, stores of    *)
(* two clauses: every pair of up to two literals over p(s, t) and a        *)
(* constant, with three variables, so that the letters do not last.        *)
(***************************************************************************)
EXTENDS Proof

CONSTANT MaxStore

Info(name, kind, arity) == [name |-> name, kind |-> kind, arity |-> arity]

MCSymbols == << Info("X", "kVariable", 0), Info("_R0", "kVariable", 0), Info("_R1", "kVariable", 0),
                Info("a", "kConstant", 0), Info("f", "kFunction", 1), Info("p", "kFunction", 2) >>

Term(symbol, args) == [symbol |-> symbol, args |-> args]

MCTerms == << Term(1, <<>>), Term(2, <<>>), Term(3, <<>>), Term(4, <<>>), Term(5, <<1>>),
              Term(6, <<1, 2>>), Term(6, <<2, 1>>), Term(6, <<3, 3>>), Term(6, <<5, 4>>), Term(6, <<3, 2>>) >>

Literals(atoms) == [atom : atoms, is_positive : BOOLEAN]

MCClauses ==
  {<<>>} \cup {<<l>> : l \in Literals({4, 6, 7, 8, 9, 10})}
    \cup {<<l, m>> : l \in Literals({4, 6, 10}), m \in Literals({6, 7, 8})}

MCLines == {<<c, d>> : c, d \in MCClauses}

-----------------------------------------------------------------------------
(* Stores                                                                   *)

Entry(id, literals) ==
  {[rule |-> "kInput", parent1 |-> NoId, parent2 |-> NoId, literals |-> literals]}
    \cup {[rule |-> "kFactoring", parent1 |-> p, parent2 |-> NoId, literals |-> literals] :
            p \in 1..(id - 1)}
    \cup {[rule |-> "kResolution", parent1 |-> pq[1], parent2 |-> pq[2], literals |-> literals] :
            pq \in {r \in (1..(id - 1)) \X (1..(id - 1)) : r[1] # r[2]}}

Graphs == {store \in [1..MaxStore -> UNION {Entry(id, <<>>) : id \in 1..MaxStore}] :
             \A id \in 1..MaxStore : store[id] \in Entry(id, <<>>)}

Pairs == {<<e, f>> : e \in UNION {Entry(1, c) : c \in MCClauses},
                     f \in UNION {Entry(2, d) : d \in MCClauses}}

MCInit == clauses \in Graphs \cup Pairs /\ ProofInit

MCSpec == MCInit /\ [][ProofNext]_proof_vars /\ ProofFairness
=============================================================================
