------------------------------ MODULE TermBank -------------------------------
(***************************************************************************)
(* SymbolTable and TermBank (src/core): names interned with a kind and an  *)
(* arity, and terms hash-consed over them.  The parser, renameVariables()  *)
(* and applySubstitution() share one bank; the four ways in which they     *)
(* call it are the steps of this module, and modules Tptp and Substitute   *)
(* take them in the order the code does.  An id is a position, from 1.     *)
(***************************************************************************)
EXTENDS Integers, Sequences

CONSTANTS
  Name,        \* the names a symbol can have
  ArityMod     \* 2^16: the width of SymbolInfo::arity_

ASSUME ArityModTyped == ArityMod \in Nat \ {0}

VARIABLES
  infos, name_to_id,   \* SymbolTable
  terms, term_to_id    \* TermBank

bank == <<infos, name_to_id, terms, term_to_id>>

SymbolKind == {"kVariable", "kConstant", "kFunction"}
SymbolInfo == [name : Name, kind : SymbolKind, arity : 0..(ArityMod - 1)]

\* Also the key under which term_to_id_ holds the term.
Term(symbol, args) == [symbol |-> symbol, args |-> args]

isVariable(id) == infos[terms[id].symbol].kind = "kVariable"

Extend(map, key, id) ==
  [k \in DOMAIN map \cup {key} |-> IF k \in DOMAIN map THEN map[k] ELSE id]

BankInit == infos = <<>> /\ name_to_id = <<>> /\ terms = <<>> /\ term_to_id = <<>>

-----------------------------------------------------------------------------
(* intern() and makeTerm(): whether the call throws, what it returns, and   *)
(* what it does.                                                            *)

\* Mutant of Mismatch: the arity is not compared.
KindMismatch(name, kind, arity) ==
  name \in DOMAIN name_to_id /\ infos[name_to_id[name]].kind # kind

Mismatch(name, kind, arity) ==
  /\ name \in DOMAIN name_to_id
  /\ \/ infos[name_to_id[name]].kind # kind
     \/ infos[name_to_id[name]].arity # arity % ArityMod

\* Mutant of SymbolOf: the id of the symbol before.
SymbolBefore(name) ==
  IF name \in DOMAIN name_to_id THEN name_to_id[name] ELSE Len(infos)

SymbolOf(name) ==
  IF name \in DOMAIN name_to_id THEN name_to_id[name] ELSE Len(infos) + 1

intern(name, kind, arity) ==
  /\ ~Mismatch(name, kind, arity)
  /\ \/ name \in DOMAIN name_to_id /\ UNCHANGED <<infos, name_to_id>>
     \/ /\ name \notin DOMAIN name_to_id
        /\ infos' = Append(infos, [name |-> name, kind |-> kind, arity |-> arity % ArityMod])
        /\ name_to_id' = Extend(name_to_id, name, SymbolOf(name))

\* Mutant of IdOf: a term is looked up by its symbol and number of arguments.
IdOfSimilar(term) ==
  IF \E i \in DOMAIN terms : terms[i].symbol = term.symbol /\ Len(terms[i].args) = Len(term.args)
  THEN CHOOSE i \in DOMAIN terms :
         terms[i].symbol = term.symbol /\ Len(terms[i].args) = Len(term.args)
  ELSE Len(terms) + 1

IdOf(term) == IF term \in DOMAIN term_to_id THEN term_to_id[term] ELSE Len(terms) + 1

\* Mutant of makeTerm: the new term is not entered in the map.
makeTermUnmapped(term) ==
  \/ term \in DOMAIN term_to_id /\ UNCHANGED <<terms, term_to_id>>
  \/ /\ term \notin DOMAIN term_to_id
     /\ terms' = Append(terms, term)
     /\ UNCHANGED term_to_id

makeTerm(term) ==
  \/ term \in DOMAIN term_to_id /\ UNCHANGED <<terms, term_to_id>>
  \/ /\ term \notin DOMAIN term_to_id
     /\ terms' = Append(terms, term)
     /\ term_to_id' = Extend(term_to_id, term, IdOf(term))

-----------------------------------------------------------------------------
(* How the bank is called.                                                  *)

Variable(name) == intern(name, "kVariable", 0) /\ makeTerm(Term(SymbolOf(name), <<>>))
Constant(name) == intern(name, "kConstant", 0) /\ makeTerm(Term(SymbolOf(name), <<>>))

Application(name, args) ==
  intern(name, "kFunction", Len(args)) /\ makeTerm(Term(SymbolOf(name), args))

\* A term is built again with as many other arguments.
Rebuild(id, args) ==
  makeTerm(Term(terms[id].symbol, args)) /\ UNCHANGED <<infos, name_to_id>>

BankNext ==
  \/ \E name \in Name : \/ Variable(name) \/ Constant(name)
                        \/ \E args \in Seq(DOMAIN terms) : Application(name, args)
  \/ \E id \in DOMAIN terms, args \in Seq(DOMAIN terms) :
       Len(args) = Len(terms[id].args) /\ Rebuild(id, args)

BankSpec == BankInit /\ [][BankNext]_bank

-----------------------------------------------------------------------------
(* Properties *)

\* The type invariant of SymbolTable and TermBank: every id in the tables is in
\* bounds, and the arguments of a term are older than the term, so the recursion
\* of unify(), occursIn() and applySubstitution() over stored terms ends.
BankTyped ==
  /\ infos \in Seq(SymbolInfo)
  /\ name_to_id \in [DOMAIN name_to_id -> DOMAIN infos]
  /\ terms \in Seq([symbol : DOMAIN infos, args : Seq(DOMAIN terms)])
  /\ term_to_id \in [DOMAIN term_to_id -> DOMAIN terms]
  /\ \A i \in DOMAIN terms : \A k \in DOMAIN terms[i].args : terms[i].args[k] < i

\* The maps are the inverses of the vectors: no name and no term is stored under
\* two ids, and none is stored that a lookup would miss.
HashConsed ==
  /\ DOMAIN name_to_id = {infos[s].name : s \in DOMAIN infos}
  /\ \A s \in DOMAIN infos : name_to_id[infos[s].name] = s
  /\ DOMAIN term_to_id = {terms[i] : i \in DOMAIN terms}
  /\ \A i \in DOMAIN terms : term_to_id[terms[i]] = i

\* symbol_table.cc: a name keeps its kind and arity.  Variables and constants have
\* no arguments in any term, and a function symbol has as many in every one as
\* its arity says, in 16 bits.
WellSorted ==
  \A i \in DOMAIN terms :
    LET info == infos[terms[i].symbol]
    IN  /\ info.arity = Len(terms[i].args) % ArityMod
        /\ info.kind # "kFunction" => terms[i].args = <<>>

Trees ==
  LET Tree[i \in DOMAIN terms] ==
        [head |-> infos[terms[i].symbol],
         parts |-> [k \in DOMAIN terms[i].args |-> Tree[terms[i].args[k]]]]
  IN  [i \in DOMAIN terms |-> Tree[i]]

PartsOf(tree) == {tree.parts[k] : k \in DOMAIN tree.parts}

Store == INSTANCE TermStore WITH trees <- Trees, Subtrees <- PartsOf

\* term_bank.h: every structurally identical term maps to the same TermId.  As
\* trees of names, not only as keys, the terms of the bank are a store in which
\* every tree has one id for ever.
BankImplementsStore == Store!Spec
=============================================================================
