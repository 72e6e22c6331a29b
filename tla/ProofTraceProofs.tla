-------------------------- MODULE ProofTraceProofs ---------------------------
(***************************************************************************)
(* The extracted proof is exactly the empty clause and its ancestors, and  *)
(* can be printed: proved of every store and every root.                   *)
(***************************************************************************)
EXTENDS ProofTrace, TLAPS

(***************************************************************************)
(* While the walk runs, what is visited or on the stack holds the root and *)
(* the parents of everything visited, and nothing that a parent-closed set *)
(* with the root could do without.  The root is listed first.              *)
(***************************************************************************)

Open == visited \cup ToSet(worklist)

WalkInv ==
  /\ root \in Open
  /\ \A id \in visited : Parents(id) \subseteq Open
  /\ \A S \in SUBSET DOMAIN clauses :
       root \in S /\ ParentClosed(S) => Open \subseteq S \cup {NoId}
  /\ IF steps = <<>> THEN worklist = <<root>> ELSE steps[1] = root

DoneInv == ProofIsAncestry /\ (phase = "done" => steps # <<>> /\ steps[Len(steps)] = root)

TraceInv ==
  /\ StoreOK /\ TraceOK /\ DoneInv
  /\ phase = "walking" => root \in DOMAIN clauses /\ WalkInv

-----------------------------------------------------------------------------
(* Sequences *)

\* Popping a stack.
LEMMA PopProperties ==
  ASSUME NEW T, NEW s \in Seq(T), s # <<>>, NEW p, p = SubSeq(s, 1, Len(s) - 1)
  PROVE  p \in Seq(T) /\ s[Len(s)] \in T /\ ToSet(s) = ToSet(p) \cup {s[Len(s)]}
<1>1. PICK n \in Nat : n + 1 = Len(s) /\ DOMAIN s = 1..(n + 1)
  <2>1. Len(s) \in Nat /\ Len(s) # 0 /\ DOMAIN s = 1..Len(s)
    OBVIOUS
  <2>2. Len(s) - 1 \in Nat /\ (Len(s) - 1) + 1 = Len(s)
    BY <2>1
  <2> QED BY <2>1, <2>2
<1>2. p \in Seq(T) /\ Len(p) = n /\ DOMAIN p = 1..n /\ \A k \in 1..n : p[k] = s[k]
  BY <1>1
<1>3. s[Len(s)] \in T /\ s[Len(s)] = s[n + 1]
  BY <1>1
<1>4. \A k \in 1..(n + 1) : k \in 1..n \/ k = n + 1
  OBVIOUS
<1>5. 1..n \subseteq 1..(n + 1) /\ n + 1 \in 1..(n + 1)
  OBVIOUS
<1>6. ToSet(s) = ToSet(p) \cup {s[n + 1]}
  BY <1>1, <1>2, <1>4, <1>5, ZenonT(40) DEF ToSet
<1> QED BY <1>2, <1>3, <1>6

\* Pushing two entries.
LEMMA PushProperties ==
  ASSUME NEW T, NEW p \in Seq(T), NEW a \in T, NEW b \in T
  PROVE  p \o <<a, b>> \in Seq(T) /\ ToSet(p \o <<a, b>>) = ToSet(p) \cup {a, b}
<1>1. PICK n \in Nat : Len(p) = n /\ DOMAIN p = 1..n
  OBVIOUS
<1>2. <<a, b>> \in Seq(T) /\ Len(<<a, b>>) = 2 /\ <<a, b>>[1] = a /\ <<a, b>>[2] = b
  OBVIOUS
<1>3. PICK r \in Seq(T) : r = <<a, b>> /\ Len(r) = 2 /\ r[1] = a /\ r[2] = b
  BY <1>2, Zenon
<1>4. PICK q : q = p \o r /\ q = p \o <<a, b>>
  BY <1>3
<1>5. q \in Seq(T) /\ Len(q) = n + 2
  BY <1>1, <1>3, <1>4
<1>6. DOMAIN q = 1..(n + 2)
  BY <1>5
<1>7. \A k \in 1..n : q[k] = p[k]
  BY <1>1, <1>3, <1>4
<1>8. q[n + 1] = a /\ q[n + 2] = b
  <2>1. \A k \in 1..(n + 2) : k > n => q[k] = r[k - n]
    BY <1>1, <1>3, <1>4
  <2>2. (n + 1) - n = 1 /\ (n + 2) - n = 2
    OBVIOUS
  <2> QED BY <1>3, <2>1, <2>2
<1>9. \A k \in 1..(n + 2) : k \in 1..n \/ k = n + 1 \/ k = n + 2
  OBVIOUS
<1>10. 1..n \subseteq 1..(n + 2) /\ n + 1 \in 1..(n + 2) /\ n + 2 \in 1..(n + 2)
  OBVIOUS
<1>11. \A k \in 1..(n + 2) : q[k] \in {p[m] : m \in 1..n} \cup {a, b}
  BY <1>7, <1>8, <1>9
<1>12. {a, b} \cup {p[m] : m \in 1..n} \subseteq {q[m] : m \in 1..(n + 2)}
  BY <1>7, <1>8, <1>10
<1>13. ToSet(p) = {p[m] : m \in 1..n} /\ ToSet(q) = {q[m] : m \in 1..(n + 2)}
  BY <1>1, <1>6 DEF ToSet
<1> QED BY <1>4, <1>5, <1>11, <1>12, <1>13, ZenonT(40)

\* Adding an element to a list without repetition that it is not in.
LEMMA AppendNew ==
  ASSUME NEW T, NEW s \in Seq(T), NEW a \in T, a \notin ToSet(s),
         \A m, n \in DOMAIN s : m # n => s[m] # s[n]
  PROVE  /\ Append(s, a) \in Seq(T) /\ Append(s, a) # <<>>
         /\ ToSet(Append(s, a)) = ToSet(s) \cup {a}
         /\ \A m, n \in DOMAIN Append(s, a) : m # n => Append(s, a)[m] # Append(s, a)[n]
         /\ Append(s, a)[1] = IF s = <<>> THEN a ELSE s[1]
<1>1. PICK l \in Nat : l = Len(s) /\ DOMAIN s = 1..l
  OBVIOUS
<1> DEFINE t == Append(s, a)
<1>2. /\ t \in Seq(T) /\ DOMAIN t = 1..(l + 1) /\ t[l + 1] = a /\ t # <<>>
      /\ \A k \in 1..l : t[k] = s[k]
  BY <1>1
<1>3. \A k \in 1..(l + 1) : k = l + 1 \/ (k \in 1..l /\ t[k] \in ToSet(s))
  BY <1>1, <1>2 DEF ToSet
<1>4. s = <<>> <=> l = 0
  BY <1>1
<1> HIDE DEF t
<1>5. ToSet(t) = ToSet(s) \cup {a}
  BY <1>1, <1>2, <1>3 DEF ToSet
<1>6. \A m, n \in DOMAIN t : m # n => t[m] # t[n]
  BY <1>1, <1>2, <1>3
<1>7. t[1] = IF s = <<>> THEN a ELSE s[1]
  BY <1>1, <1>2, <1>4
<1> QED BY <1>2, <1>5, <1>6, <1>7 DEF t

\* std::reverse.
LEMMA ReverseProperties ==
  ASSUME NEW T, NEW s \in Seq(T)
  PROVE  /\ Reverse(s) \in Seq(T) /\ ToSet(Reverse(s)) = ToSet(s)
         /\ s # <<>> => Reverse(s) # <<>> /\ Reverse(s)[Len(Reverse(s))] = s[1]
         /\ (\A m, n \in DOMAIN s : m # n => s[m] # s[n]) =>
              \A m, n \in DOMAIN Reverse(s) : m # n => Reverse(s)[m] # Reverse(s)[n]
<1>1. PICK l \in Nat : l = Len(s) /\ DOMAIN s = 1..l
  OBVIOUS
<1>2. Reverse(s) = [k \in 1..l |-> s[(l - k) + 1]]
  BY <1>1 DEF Reverse
<1>3. \A k \in 1..l : (l - k) + 1 \in 1..l /\ s[(l - k) + 1] \in T
  BY <1>1
<1>4. PICK r : r = Reverse(s)
  OBVIOUS
<1>5. /\ r \in Seq(T) /\ Len(r) = l /\ DOMAIN r = 1..l
      /\ \A k \in 1..l : r[k] = s[(l - k) + 1]
  BY <1>2, <1>3, <1>4
<1>6. ToSet(r) = ToSet(s)
  <2>1. \A k \in 1..l : s[k] = r[(l - k) + 1]
    <3>1. \A k \in 1..l : (l - ((l - k) + 1)) + 1 = k
      OBVIOUS
    <3> QED BY <1>3, <1>5, <3>1
  <2>2. \A k \in 1..l : r[k] \in {s[m] : m \in 1..l} /\ s[k] \in {r[m] : m \in 1..l}
    BY <1>3, <1>5, <2>1
  <2>3. ToSet(r) = {r[m] : m \in 1..l} /\ ToSet(s) = {s[m] : m \in 1..l}
    BY <1>1, <1>5 DEF ToSet
  <2> QED BY <2>2, <2>3
<1>7. s # <<>> => r # <<>> /\ r[Len(r)] = s[1]
  <2> SUFFICES ASSUME s # <<>> PROVE r # <<>> /\ r[Len(r)] = s[1]
    OBVIOUS
  <2>1. l # 0 /\ (l - l) + 1 = 1 /\ l \in 1..l
    BY <1>1
  <2> QED BY <1>5, <2>1
<1>8. (\A m, n \in DOMAIN s : m # n => s[m] # s[n]) => \A m, n \in DOMAIN r : m # n => r[m] # r[n]
  <2>1. \A m, n \in 1..l : m # n => (l - m) + 1 # (l - n) + 1
    OBVIOUS
  <2> QED BY <1>1, <1>3, <1>5, <2>1
<1> QED BY <1>4, <1>5, <1>6, <1>7, <1>8


-----------------------------------------------------------------------------
(* The walk *)

\* The first step of formatProof's input: the walk has begun at an id of the store.
LEMMA WalkStart ==
  ASSUME TraceInv, UNCHANGED clauses, NEW id \in DOMAIN clauses, extractProof(id)
  PROVE  TraceInv'
<1>1. /\ root' = id /\ worklist' = <<id>> /\ visited' = {} /\ steps' = <<>>
      /\ phase' = "walking"
  BY DEF extractProof
<1>2. StoreOK'
  BY DEF TraceInv, StoreOK
<1>3. ToSet(steps') = {} /\ ToSet(worklist') = {id} /\ DOMAIN steps' = {}
  BY <1>1 DEF ToSet
<1>4. TraceOK'
  BY <1>1, <1>3 DEF TraceOK
<1>5. Open' = {id}
  BY <1>1, <1>3 DEF Open
<1>6. WalkInv'
  BY <1>1, <1>5 DEF WalkInv
<1> QED BY <1>1, <1>2, <1>4, <1>6 DEF TraceInv, DoneInv, ProofIsAncestry

\* Skipping what has been visited, or the absent parent, forgets nothing.
LEMMA WalkSkip ==
  ASSUME TraceInv, UNCHANGED clauses, SkipId
  PROVE  TraceInv'
<1>1. /\ phase = "walking" /\ worklist # <<>> /\ worklist' = Pop
      /\ worklist[Len(worklist)] \in visited \cup {NoId}
      /\ UNCHANGED <<root, visited, steps, phase>>
  BY DEF SkipId
<1>2. TraceOK /\ StoreOK /\ root \in DOMAIN clauses /\ WalkInv /\ NoId \notin DOMAIN clauses
  BY <1>1 DEF TraceInv, StoreOK, NoId
<1>3. PICK top \in DOMAIN clauses \cup {NoId} :
           /\ top = worklist[Len(worklist)]
           /\ Pop \in Seq(DOMAIN clauses \cup {NoId})
           /\ ToSet(worklist) = ToSet(Pop) \cup {top}
  <2>1. PICK p : p = Pop /\ p = SubSeq(worklist, 1, Len(worklist) - 1)
    BY DEF Pop
  <2> DEFINE T == DOMAIN clauses \cup {NoId}
  <2>2. worklist \in Seq(T) /\ NoId \in T
    BY <1>2 DEF TraceOK
  <2> HIDE DEF T
  <2>3. /\ p \in Seq(T) /\ worklist[Len(worklist)] \in T
        /\ ToSet(worklist) = ToSet(p) \cup {worklist[Len(worklist)]}
    BY <1>1, <2>1, <2>2, PopProperties
  <2> QED BY <2>1, <2>3 DEF T
<1>4. Open \subseteq Open' \cup {NoId} /\ Open' \subseteq Open
  BY <1>1, <1>3 DEF Open
<1>5. \A id \in DOMAIN clauses : NoId \notin Parents(id)
  BY DEF Parents
<1>6. visited \subseteq DOMAIN clauses
  BY <1>2 DEF TraceOK, ToSet
<1>7. StoreOK' /\ TraceOK'
  BY <1>1, <1>2, <1>3 DEF StoreOK, TraceOK
<1>8. WalkInv'
  <2>1. root \in Open'
    BY <1>2, <1>4 DEF WalkInv
  <2>2. \A id \in visited : Parents(id)' = Parents(id) /\ Parents(id) \subseteq Open'
    BY <1>2, <1>4, <1>5, <1>6 DEF WalkInv, Parents
  <2>3. \A S \in SUBSET DOMAIN clauses :
          root \in S /\ ParentClosed(S)' => Open' \subseteq S \cup {NoId}
    BY <1>2, <1>4 DEF WalkInv, ParentClosed, Parents
  <2>4. steps # <<>>
    <3> SUFFICES ASSUME steps = <<>> PROVE FALSE
      OBVIOUS
    <3>1. visited = {} /\ worklist = <<root>>
      BY <1>2 DEF TraceOK, ToSet, WalkInv
    <3>2. worklist[Len(worklist)] = root
      BY <3>1
    <3> QED BY <1>1, <1>2, <3>1, <3>2
  <2> QED BY <1>1, <1>2, <2>1, <2>2, <2>3, <2>4 DEF WalkInv
<1> QED BY <1>1, <1>2, <1>7, <1>8 DEF TraceInv, DoneInv, ProofIsAncestry

\* Visiting an id lists it and leaves its parents to do.
LEMMA WalkVisit ==
  ASSUME TraceInv, UNCHANGED clauses, VisitId
  PROVE  TraceInv'
<1>1. phase = "walking" /\ worklist # <<>> /\ UNCHANGED <<root, phase>>
  BY DEF VisitId
<1>2. TraceOK /\ StoreOK /\ root \in DOMAIN clauses /\ WalkInv /\ NoId \notin DOMAIN clauses
  BY <1>1 DEF TraceInv, StoreOK, NoId
<1>3. PICK cid : cid = worklist[Len(worklist)]
  OBVIOUS
<1>4. /\ cid \notin visited \cup {NoId} /\ visited' = visited \cup {cid}
      /\ steps' = Append(steps, cid)
      /\ worklist' = Pop \o <<clauses[cid].parent1, clauses[cid].parent2>>
  BY <1>3 DEF VisitId
<1>5. cid \in DOMAIN clauses \cup {NoId}
  BY <1>1, <1>2, <1>3, PopProperties DEF TraceOK
<1>6. cid \in DOMAIN clauses
  BY <1>4, <1>5
<1>7. PICK p1 \in DOMAIN clauses \cup {NoId}, p2 \in DOMAIN clauses \cup {NoId} :
           p1 = clauses[cid].parent1 /\ p2 = clauses[cid].parent2
  <2>1. PICK n \in Nat : DOMAIN clauses = 1..n
    BY <1>2 DEF StoreOK
  <2>2. clauses[cid].parent1 \in 0..(cid - 1) /\ clauses[cid].parent2 \in 0..(cid - 1)
    BY <1>2, <1>6 DEF StoreOK
  <2>3. 0..(cid - 1) \subseteq (1..n) \cup {0}
    BY <1>6, <2>1
  <2> QED BY <2>1, <2>2, <2>3 DEF NoId
<1>8. /\ worklist' \in Seq(DOMAIN clauses \cup {NoId})
      /\ ToSet(worklist) = ToSet(Pop) \cup {cid}
      /\ ToSet(worklist') = ToSet(Pop) \cup {p1, p2}
  <2>1. PICK p : p = Pop /\ p = SubSeq(worklist, 1, Len(worklist) - 1)
    BY DEF Pop
  <2> DEFINE T == DOMAIN clauses \cup {NoId}
  <2>2. worklist \in Seq(T) /\ p1 \in T /\ p2 \in T
    BY <1>2 DEF TraceOK
  <2> HIDE DEF T
  <2>3. p \in Seq(T) /\ ToSet(worklist) = ToSet(p) \cup {worklist[Len(worklist)]}
    BY <1>1, <2>1, <2>2, PopProperties
  <2>5. p \o <<p1, p2>> \in Seq(T) /\ ToSet(p \o <<p1, p2>>) = ToSet(p) \cup {p1, p2}
    BY <2>2, <2>3, PushProperties
  <2>4. worklist' = p \o <<p1, p2>>
    BY <1>4, <1>7, <2>1
  <2> QED BY <1>3, <2>1, <2>3, <2>4, <2>5 DEF T
<1>9. Parents(cid) = {p1, p2} \ {NoId}
  BY <1>7 DEF Parents
<1>10. Open' = Open \cup {p1, p2}
  BY <1>4, <1>8 DEF Open
<1>11. /\ steps' \in Seq(DOMAIN clauses) /\ steps' # <<>>
       /\ ToSet(steps') = ToSet(steps) \cup {cid}
       /\ \A m, n \in DOMAIN steps' : m # n => steps'[m] # steps'[n]
       /\ steps'[1] = IF steps = <<>> THEN cid ELSE steps[1]
  BY <1>2, <1>4, <1>6, AppendNew, SMTT(40) DEF TraceOK
<1>12. StoreOK' /\ TraceOK'
  BY <1>1, <1>2, <1>4, <1>8, <1>11 DEF StoreOK, TraceOK
<1>13. WalkInv'
  <2>1. root \in Open'
    BY <1>2, <1>10 DEF WalkInv
  <2>2. \A id \in visited' : Parents(id)' \subseteq Open'
    BY <1>2, <1>4, <1>9, <1>10 DEF WalkInv, Parents
  <2>3. ASSUME NEW S \in SUBSET DOMAIN clauses, root \in S, ParentClosed(S)
        PROVE  Open' \subseteq S \cup {NoId}
    <3>1. Open \subseteq S \cup {NoId}
      BY <1>2, <2>3 DEF WalkInv
    <3>2. cid \in S
      BY <1>4, <1>8, <3>1 DEF Open
    <3>3. Parents(cid) \subseteq S
      BY <2>3, <3>2 DEF ParentClosed
    <3> QED BY <1>9, <1>10, <3>1, <3>3
  <2>4. steps'[1] = root
    <3>1. CASE steps = <<>>
      <4>1. worklist = <<root>>
        BY <1>2, <3>1 DEF WalkInv
      <4>2. cid = root
        BY <1>3, <4>1
      <4> QED BY <1>11, <3>1, <4>2
    <3>2. CASE steps # <<>>
      BY <1>2, <1>11, <3>2 DEF WalkInv
    <3> QED BY <3>1, <3>2
  <2>5. \A S \in SUBSET DOMAIN clauses : ParentClosed(S)' <=> ParentClosed(S)
    BY DEF ParentClosed, Parents
  <2> QED BY <1>1, <1>11, <2>1, <2>2, <2>3, <2>4, <2>5 DEF WalkInv
<1> QED BY <1>1, <1>2, <1>12, <1>13 DEF TraceInv, DoneInv, ProofIsAncestry

\* With the stack empty, what is open is what is visited, and the root, which was
\* listed first, ends up last.
LEMMA WalkEnd ==
  ASSUME TraceInv, UNCHANGED clauses, ReverseSteps
  PROVE  TraceInv'
<1>1. /\ phase = "walking" /\ phase' = "done" /\ worklist = <<>> /\ steps' = Reverse(steps)
      /\ UNCHANGED <<root, worklist, visited>>
  BY DEF ReverseSteps
<1>2. TraceOK /\ StoreOK /\ root \in DOMAIN clauses /\ WalkInv /\ NoId \notin DOMAIN clauses
  BY <1>1 DEF TraceInv, StoreOK, NoId
<1>3. Open = visited /\ visited = ToSet(steps) /\ visited \subseteq DOMAIN clauses
  <2>1. ToSet(worklist) = {}
    BY <1>1 DEF ToSet
  <2> QED BY <1>2, <2>1 DEF Open, TraceOK, ToSet
<1>4. steps # <<>>
  <2>1. worklist # <<root>>
    BY <1>1
  <2> QED BY <1>2, <2>1 DEF WalkInv
<1>5. /\ steps' \in Seq(DOMAIN clauses) /\ ToSet(steps') = visited
      /\ steps' # <<>> /\ steps'[Len(steps')] = root
      /\ \A m, n \in DOMAIN steps' : m # n => steps'[m] # steps'[n]
  <2>1. steps \in Seq(DOMAIN clauses) /\ steps[1] = root
        /\ \A m, n \in DOMAIN steps : m # n => steps[m] # steps[n]
    BY <1>2, <1>4 DEF TraceOK, WalkInv
  <2> QED BY <1>1, <1>3, <1>4, <2>1, ReverseProperties
<1>6. StoreOK' /\ TraceOK'
  BY <1>1, <1>2, <1>5 DEF StoreOK, TraceOK
<1>7. ProofIsAncestry'
  <2>1. root \in visited /\ ParentClosed(visited)
    BY <1>2, <1>3 DEF WalkInv, ParentClosed
  <2>2. \A S \in SUBSET DOMAIN clauses : root \in S /\ ParentClosed(S) => visited \subseteq S
    BY <1>2, <1>3 DEF WalkInv
  <2>3. \A S \in SUBSET DOMAIN clauses : ParentClosed(S)' <=> ParentClosed(S)
    BY DEF ParentClosed, Parents
  <2>4. ParentClosed(ToSet(steps))'
    BY <1>5, <2>1 DEF ParentClosed, Parents
  <2> QED BY <1>1, <1>5, <2>1, <2>2, <2>3, <2>4 DEF ProofIsAncestry
<1> QED BY <1>1, <1>5, <1>6, <1>7 DEF TraceInv, DoneInv

\* Every step of the walk keeps the store, its types and what is listed.
LEMMA WalkNext ==
  ASSUME TraceInv, [TraceNext]_<<clauses, trace_vars>>
  PROVE  TraceInv'
<1>1. CASE TraceNext
  BY <1>1, WalkStart, WalkSkip, WalkVisit, WalkEnd DEF TraceNext, ExtractStep
<1>2. CASE UNCHANGED <<clauses, trace_vars>>
  BY <1>2 DEF trace_vars, TraceInv, StoreOK, TraceOK, DoneInv, WalkInv, ProofIsAncestry,
              ParentClosed, Parents, Open
<1> QED BY <1>1, <1>2

\* The walk begins with the root to be listed.
LEMMA TraceInvInit == StoreOK /\ TraceInit => TraceInv
<1> SUFFICES ASSUME StoreOK, TraceInit PROVE TraceInv
  OBVIOUS
<1>1. /\ worklist = <<>> /\ visited = {} /\ steps = <<>> /\ phase = "idle"
      /\ DOMAIN steps = {} /\ ToSet(steps) = {}
  BY DEF TraceInit, ToSet
<1>2. TraceOK
  BY <1>1 DEF TraceOK
<1> QED BY <1>1, <1>2 DEF TraceInv, DoneInv, ProofIsAncestry

\* What the walk relies on holds at every moment.
THEOREM TraceInvariant == TraceSpec => []TraceInv
<1>1. TraceInv /\ [TraceNext]_<<clauses, trace_vars>> => TraceInv'
  BY WalkNext
<1> QED BY <1>1, TraceInvInit, PTL DEF TraceSpec

\* The stack, the visited set and the list are what their types say, and nothing
\* is listed twice.
THEOREM TraceTypeCorrect == TraceSpec => []TraceOK
<1>1. TraceInv => TraceOK
  BY DEF TraceInv
<1> QED BY <1>1, TraceInvariant, PTL

\* Of every store and every root, extractProof returns exactly the root and its
\* ancestors.
THEOREM AncestryCorrect == TraceSpec => []ProofIsAncestry
<1>1. TraceInv => ProofIsAncestry
  BY DEF TraceInv, DoneInv
<1> QED BY <1>1, TraceInvariant, PTL

-----------------------------------------------------------------------------
(* The printed lines *)

\* id_to_step finds the one line of a listed id.
LEMMA LineOfStep ==
  ASSUME TraceOK, NEW cid \in ToSet(steps)
  PROVE  id_to_step(cid) \in DOMAIN steps /\ steps[id_to_step(cid)] = cid
<1>1. PICK l \in DOMAIN steps : steps[l] = cid
  BY DEF ToSet
<1>2. {n \in DOMAIN steps : steps[n] = cid} = {l} /\ l <= l
  BY <1>1 DEF TraceOK
<1>3. id_to_step(cid) = CHOOSE n \in {l} : \A m \in {l} : m <= n
  BY <1>2 DEF id_to_step
<1> QED BY <1>1, <1>2, <1>3

\* A line refers to the lines of its parents.
LEMMA ReadableAtEnd ==
  ASSUME TraceInv, phase = "done"
  PROVE  ProofIsReadable
<1>1. /\ StoreOK /\ TraceOK /\ steps[Len(steps)] = root
      /\ ParentClosed(ToSet(steps))
  BY DEF TraceInv, DoneInv, ProofIsAncestry
<1>2. ASSUME NEW n \in DOMAIN steps
      PROVE  /\ \A k \in DOMAIN formatProof[n] : formatProof[n][k] \in DOMAIN steps
             /\ {steps[formatProof[n][k]] : k \in DOMAIN formatProof[n]} = Parents(steps[n])
  <2>1. steps[n] \in ToSet(steps) /\ steps[n] \in DOMAIN clauses
    BY <1>1 DEF ToSet, TraceOK
  <2>2. PICK p1, p2 : p1 = clauses[steps[n]].parent1 /\ p2 = clauses[steps[n]].parent2
    OBVIOUS
  <2>3. Parents(steps[n]) = {p1, p2} \ {NoId} /\ (p1 = NoId => p2 = NoId)
    BY <1>1, <2>1, <2>2 DEF Parents, StoreOK
  <2>4. \A p \in {p1, p2} : p # NoId => id_to_step(p) \in DOMAIN steps /\ steps[id_to_step(p)] = p
    BY <1>1, <2>1, <2>3, LineOfStep DEF ParentClosed
  <2>5. formatProof[n] = IF p1 = NoId THEN <<>>
                         ELSE IF p2 = NoId THEN <<id_to_step(p1)>>
                         ELSE <<id_to_step(p1), id_to_step(p2)>>
    BY <2>2 DEF formatProof
  <2>6. CASE p1 = NoId
    <3>1. formatProof[n] = <<>> /\ DOMAIN formatProof[n] = {}
      BY <2>5, <2>6
    <3> QED BY <2>3, <2>6, <3>1
  <2>7. CASE p1 # NoId /\ p2 = NoId
    <3>1. /\ formatProof[n] = <<id_to_step(p1)>> /\ DOMAIN <<id_to_step(p1)>> = {1}
          /\ <<id_to_step(p1)>>[1] = id_to_step(p1)
      BY <2>5, <2>7
    <3> QED BY <2>3, <2>4, <2>7, <3>1
  <2>8. CASE p1 # NoId /\ p2 # NoId
    <3>1. PICK a, b : a = id_to_step(p1) /\ b = id_to_step(p2)
      OBVIOUS
    <3>2. /\ formatProof[n] = <<a, b>> /\ DOMAIN <<a, b>> = {1, 2}
          /\ <<a, b>>[1] = a /\ <<a, b>>[2] = b
      BY <2>5, <2>8, <3>1
    <3>3. a \in DOMAIN steps /\ b \in DOMAIN steps /\ steps[a] = p1 /\ steps[b] = p2
      BY <2>4, <2>8, <3>1
    <3> QED BY <2>3, <2>8, <3>2, <3>3
  <2> QED BY <2>6, <2>7, <2>8
<1> QED BY <1>1, <1>2 DEF ProofIsReadable

\* The last line is the root, and a line refers to the lines of its parents.
THEOREM ReadableCorrect == TraceSpec => []ProofIsReadable
<1>1. TraceInv => ProofIsReadable
  BY ReadableAtEnd DEF ProofIsReadable
<1> QED BY <1>1, TraceInvariant, PTL
=============================================================================
