--------------------------- MODULE ProofTextProofs ----------------------------
(***************************************************************************)
(* The texts of clauses: what is printed tells two clauses apart if and    *)
(* only if they differ by more than the names of variables, for clauses    *)
(* over every bank.  Texts are put together with Separated, as source      *)
(* texts are; the lemmas about it are those of FrontEndProofs.             *)
(***************************************************************************)
EXTENDS ProofText, FrontEndProofs, FiniteSetTheorems

(* Terms that read the same                                                 *)

\* What one level of SameUnder asks of x and y, when f decides about the arguments.
SameNode(f, rho, x, y) ==
  IF IsVariable(x) THEN x \in DOMAIN rho /\ rho[x] = y
  ELSE /\ ~IsVariable(y) /\ Terms[x].symbol = Terms[y].symbol
       /\ Len(Terms[x].args) = Len(Terms[y].args)
       /\ \A k \in DOMAIN Terms[x].args : f[Terms[x].args[k]][Terms[y].args[k]]

\* f decides it for the terms up to n.
Decides(f, rho, n) == f = [x \in 1..n |-> [y \in DOMAIN Terms |-> SameNode(f, rho, x, y)]]

\* The recursion of SameUnder ends, because arguments are older.
LEMMA SameExists ==
  ASSUME NEW n \in Nat, DOMAIN Terms = 1..n, NEW rho
  PROVE  \E f : Decides(f, rho, n)
<1> DEFINE Bad == {m \in 0..n : ~\E f : Decides(f, rho, m)}
<1> SUFFICES ASSUME Bad # {} PROVE FALSE
  OBVIOUS
<1>1. PICK m \in Bad : \A l \in Bad : m <= l
  <2>1. Bad \in SUBSET Nat
    OBVIOUS
  <2> QED BY <2>1, LeastNatural
<1>2. m \in 0..n /\ ~\E f : Decides(f, rho, m)
  OBVIOUS
<1>3. m # 0
  <2>1. 1..0 = {}
    OBVIOUS
  <2>2. Decides([x \in {} |-> 0], rho, 0)
    BY <2>1 DEF Decides
  <2> QED BY <1>2, <2>2
<1>4. m \in Nat /\ m - 1 \in 0..n /\ ~(m <= m - 1) /\ m - 1 \in Nat
  BY <1>2, <1>3
<1>5. PICK f : Decides(f, rho, m - 1)
  BY <1>1, <1>4
<1> HIDE DEF Bad
<1> DEFINE g == [x \in 1..m |-> [y \in DOMAIN Terms |-> SameNode(f, rho, x, y)]]
<1>6. \A x \in 1..(m - 1) : g[x] = f[x]
  <2>1. \A x \in 1..(m - 1) : x \in 1..m
    BY <1>4
  <2>2. \A x \in 1..(m - 1) : f[x] = [y \in DOMAIN Terms |-> SameNode(f, rho, x, y)]
    BY <1>5 DEF Decides
  <2> QED BY <2>1, <2>2
<1>7. \A x \in 1..m : \A y : SameNode(f, rho, x, y) = SameNode(g, rho, x, y)
  <2> TAKE x \in 1..m
  <2> TAKE y
  <2>1. \A k \in DOMAIN Terms[x].args : Terms[x].args[k] \in 1..(m - 1)
    <3>1. x \in DOMAIN Terms
      BY <1>2
    <3>2. \A k \in DOMAIN Terms[x].args : Terms[x].args[k] \in 1..(x - 1)
      BY <3>1, LinesPrintable
    <3> QED BY <1>4, <3>2
  <2> HIDE DEF g
  <2>2. \A k \in DOMAIN Terms[x].args : g[Terms[x].args[k]] = f[Terms[x].args[k]]
    BY <1>6, <2>1
  <2> QED BY <2>2 DEF SameNode
<1>8. Decides(g, rho, m)
  <2>1. \A x \in 1..m : [y \in DOMAIN Terms |-> SameNode(f, rho, x, y)]
                          = [y \in DOMAIN Terms |-> SameNode(g, rho, x, y)]
    <3> HIDE DEF g
    <3> QED BY <1>7
  <2>2. g = [x \in 1..m |-> [y \in DOMAIN Terms |-> SameNode(f, rho, x, y)]]
    OBVIOUS
  <2> HIDE DEF g
  <2> QED BY <2>1, <2>2 DEF Decides
<1> QED BY <1>2, <1>8

\* One level of SameUnder.
LEMMA SameUnderIs ==
  ASSUME NEW rho, NEW s \in DOMAIN Terms, NEW t \in DOMAIN Terms
  PROVE  SameUnder(rho, s, t) <=>
           IF IsVariable(s) THEN s \in DOMAIN rho /\ rho[s] = t
           ELSE /\ ~IsVariable(t) /\ Terms[s].symbol = Terms[t].symbol
                /\ Len(Terms[s].args) = Len(Terms[t].args)
                /\ \A k \in DOMAIN Terms[s].args :
                     SameUnder(rho, Terms[s].args[k], Terms[t].args[k])
<1>1. PICK n \in Nat : DOMAIN Terms = 1..n
  BY LinesPrintable, LenProperties
<1> DEFINE Is(f)   == f = [x \in DOMAIN Terms |-> [y \in DOMAIN Terms |->
                        IF IsVariable(x) THEN x \in DOMAIN rho /\ rho[x] = y
                        ELSE /\ ~IsVariable(y) /\ Terms[x].symbol = Terms[y].symbol
                             /\ Len(Terms[x].args) = Len(Terms[y].args)
                             /\ \A k \in DOMAIN Terms[x].args : f[Terms[x].args[k]][Terms[y].args[k]]]]
           Same    == CHOOSE f : Is(f)
<1>2. \E f : Is(f)
  <2>1. PICK f : Decides(f, rho, n)
    BY <1>1, SameExists
  <2>2. Is(f)
    BY <1>1, <2>1 DEF Decides, SameNode
  <2> QED BY <2>2
<1>3. Is(Same)
  <2> HIDE DEF Is
  <2> QED BY <1>2
<1>4. \A x, y : SameUnder(rho, x, y) = Same[x][y]
  BY DEF SameUnder
<1>5. Same = [x \in DOMAIN Terms |-> [y \in DOMAIN Terms |-> SameNode(Same, rho, x, y)]]
  <2> HIDE DEF Same
  <2> QED BY <1>3 DEF SameNode
<1> HIDE DEF Same, Is
<1>6. Same[s][t] = SameNode(Same, rho, s, t)
  <2>1. Same[s] = [y \in DOMAIN Terms |-> SameNode(Same, rho, s, y)]
    BY <1>5, Zenon
  <2> QED BY <2>1, Zenon
<1>7. SameNode(Same, rho, s, t) <=>
        IF IsVariable(s) THEN s \in DOMAIN rho /\ rho[s] = t
        ELSE /\ ~IsVariable(t) /\ Terms[s].symbol = Terms[t].symbol
             /\ Len(Terms[s].args) = Len(Terms[t].args)
             /\ \A k \in DOMAIN Terms[s].args : Same[Terms[s].args[k]][Terms[t].args[k]]
  BY DEF SameNode
<1> QED BY <1>4, <1>6, <1>7

-----------------------------------------------------------------------------
(* Sequences that are related place by place                                *)

Pairwise(R, a, b) == Len(a) = Len(b) /\ \A k \in 1..Len(a) : <<a[k], b[k]>> \in R

\* Put together they are if both parts are.
LEMMA PairwiseConcat ==
  ASSUME NEW T, NEW R, NEW a \in Seq(T), NEW b \in Seq(T), NEW x \in Seq(T), NEW y \in Seq(T),
         Len(a) = Len(b) \/ Len(x) = Len(y)
  PROVE  Pairwise(R, a \o x, b \o y) <=> Pairwise(R, a, b) /\ Pairwise(R, x, y)
<1>1. PICK n, m, i, j \in Nat : n = Len(a) /\ m = Len(x) /\ i = Len(b) /\ j = Len(y)
  BY LenProperties
<1>2. PICK c, d : c = a \o x /\ d = b \o y
  OBVIOUS
<1>3. /\ Len(c) = n + m /\ \A k \in 1..(n + m) : c[k] = IF k <= n THEN a[k] ELSE x[k - n]
      /\ Len(d) = i + j /\ \A k \in 1..(i + j) : d[k] = IF k <= i THEN b[k] ELSE y[k - i]
  BY <1>1, <1>2, ConcatProperties
<1>4. CASE n = i /\ m = j
  <2>1. ASSUME Pairwise(R, c, d) PROVE Pairwise(R, a, b) /\ Pairwise(R, x, y)
    <3>1. \A k \in 1..(n + m) : <<c[k], d[k]>> \in R
      BY <1>3, <2>1 DEF Pairwise
    <3>2. ASSUME NEW k \in 1..n PROVE <<a[k], b[k]>> \in R
      <4>1. k \in 1..(n + m) /\ k <= n
        BY <1>1
      <4>2. c[k] = a[k] /\ d[k] = b[k]
        BY <1>3, <1>4, <4>1
      <4> QED BY <3>1, <4>1, <4>2
    <3>3. ASSUME NEW k \in 1..m PROVE <<x[k], y[k]>> \in R
      <4>1. k + n \in 1..(n + m) /\ ~(k + n <= n) /\ (k + n) - n = k
        BY <1>1
      <4>2. c[k + n] = x[k] /\ d[k + n] = y[k]
        BY <1>3, <1>4, <4>1
      <4> QED BY <3>1, <4>1, <4>2
    <3> QED BY <1>1, <1>4, <3>2, <3>3 DEF Pairwise
  <2>2. ASSUME Pairwise(R, a, b), Pairwise(R, x, y) PROVE Pairwise(R, c, d)
    <3>1. ASSUME NEW k \in 1..(n + m) PROVE <<c[k], d[k]>> \in R
      <4>1. CASE k <= n
        <5>1. k \in 1..n
          BY <1>1, <4>1
        <5>2. c[k] = a[k] /\ d[k] = b[k]
          BY <1>3, <1>4, <4>1
        <5> QED BY <1>1, <2>2, <5>1, <5>2 DEF Pairwise
      <4>2. CASE ~(k <= n)
        <5>1. k - n \in 1..m
          BY <1>1, <4>2
        <5>2. c[k] = x[k - n] /\ d[k] = y[k - n]
          BY <1>3, <1>4, <4>2
        <5> QED BY <1>1, <2>2, <5>1, <5>2 DEF Pairwise
      <4> QED BY <4>1, <4>2
    <3> QED BY <1>3, <1>4, <3>1 DEF Pairwise
  <2> QED BY <1>2, <2>1, <2>2
<1>5. CASE ~(n = i /\ m = j)
  <2>1. n + m # i + j
    BY <1>1, <1>5
  <2>2. ~Pairwise(R, c, d)
    BY <1>3, <2>1 DEF Pairwise
  <2>3. ~(Pairwise(R, a, b) /\ Pairwise(R, x, y))
    BY <1>1, <1>5 DEF Pairwise
  <2> QED BY <1>2, <2>2, <2>3
<1> QED BY <1>4, <1>5

\* Sequences of one.
LEMMA PairwiseOne ==
  ASSUME NEW R, NEW x, NEW y
  PROVE  Pairwise(R, <<x>>, <<y>>) <=> <<x, y>> \in R
<1>1. /\ Len(<<x>>) = 1 /\ Len(<<y>>) = 1 /\ <<x>>[1] = x /\ <<y>>[1] = y
      /\ \A k \in 1..1 : k = 1
      /\ 1 \in 1..1
  OBVIOUS
<1>2. PICK a, b : a = <<x>> /\ b = <<y>>
  OBVIOUS
<1>3. Pairwise(R, a, b) <=> <<a[1], b[1]>> \in R
  BY <1>1, <1>2 DEF Pairwise
<1> QED BY <1>1, <1>2, <1>3

\* s is f and then x, its element at n + 1.
Splits(s, f, x, n) ==
  s = Append(f, x) /\ Len(f) = n /\ Len(s) = n + 1 /\ s[n + 1] = x /\ \A k \in 1..n : f[k] = s[k]

\* A sequence that is not empty has a last element, and what is before it.
LEMMA HasLast ==
  ASSUME NEW T, NEW s \in Seq(T), s # <<>>
  PROVE  \E f \in Seq(T), x \in T, n \in Nat : Splits(s, f, x, n)
<1>1. PICK n \in Nat : Len(s) = n + 1 /\ \A k \in 1..(n + 1) : s[k] \in T
  <2>1. Len(s) \in Nat \ {0}
    BY EmptySeq
  <2>2. Len(s) - 1 \in Nat /\ Len(s) = (Len(s) - 1) + 1
    BY <2>1
  <2>3. \A k \in 1..Len(s) : s[k] \in T
    BY ElementOfSeq
  <2> QED BY <2>2, <2>3
<1>2. PICK f : f = [k \in 1..n |-> s[k]]
  OBVIOUS
<1>3. f \in Seq(T) /\ Len(f) = n /\ \A k \in 1..n : f[k] = s[k]
  <2>1. \A k \in 1..n : k \in 1..(n + 1)
    OBVIOUS
  <2>2. f \in [1..n -> T]
    BY <1>1, <1>2, <2>1
  <2> QED BY <1>2, <2>2
<1>4. n + 1 \in 1..(n + 1)
  OBVIOUS
<1>5. s[n + 1] \in T
  BY <1>1, <1>4
<1>6. s = Append(f, s[n + 1])
  <2>1. PICK x \in T : x = s[n + 1]
    BY <1>5
  <2>2. \A k \in 1..n : s[k] = f[k]
    BY <1>3
  <2>3. s = Append(f, x)
    BY <1>1, <1>3, <2>1, <2>2, IsAppend
  <2> QED BY <2>1, <2>3
<1>7. Splits(s, f, s[n + 1], n)
  BY <1>1, <1>3, <1>6 DEF Splits
<1> QED BY <1>3, <1>5, <1>7

\* A piece is an element of X, which may have neg before it.
Piece(X, neg) == {<<x>> : x \in X} \cup {<<neg, x>> : x \in X}

\* The mark m is related to itself only.
Apart(R, m) == <<m, m>> \in R /\ \A x, y : <<x, y>> \in R => (x = m <=> y = m)

\* Pieces are sequences of one element or two.
LEMMA PieceTyped ==
  ASSUME NEW T, NEW X \in SUBSET T, NEW neg \in T, NEW p \in Piece(X, neg)
  PROVE  /\ p \in Seq(T)
         /\ Len(p) = 1 \/ (Len(p) = 2 /\ p[1] = neg)
<1>1. CASE \E x \in X : p = <<x>>
  <2>1. PICK x \in X : p = <<x>>
    BY <1>1
  <2>2. x \in T
    OBVIOUS
  <2> QED BY <2>1, <2>2
<1>2. CASE \E x \in X : p = <<neg, x>>
  <2>1. PICK x \in X : p = <<neg, x>>
    BY <1>2
  <2>2. x \in T
    OBVIOUS
  <2> QED BY <2>1, <2>2
<1> QED BY <1>1, <1>2 DEF Piece

\* Sequences of pieces are sequences of sequences.
LEMMA PiecesTyped ==
  ASSUME NEW T, NEW X \in SUBSET T, NEW neg \in T, NEW p \in Seq(Piece(X, neg))
  PROVE  p \in Seq(Seq(T))
<1>1. Piece(X, neg) \subseteq Seq(T)
  BY PieceTyped
<1> QED BY <1>1

\* What f is when it is Followed(p, sep).
Ends(T, p, sep, f) ==
  /\ f \in Seq(T) /\ Separated(p, sep) \in Seq(T) /\ Separated(<<>>, sep) = <<>>
  /\ p = <<>> => f = <<>>
  /\ p # <<>> => f = Separated(p, sep) \o <<sep>> /\ Len(f) \in Nat \ {0} /\ f[Len(f)] = sep

\* What comes before the last piece ends with the separator, or there is nothing.
LEMMA FollowedEnds ==
  ASSUME NEW T, NEW X \in SUBSET T, NEW neg \in T, NEW sep \in T, NEW p \in Seq(Piece(X, neg))
  PROVE  Ends(T, p, sep, Followed(p, sep))
<1>1. Followed(p, sep) \in Seq(T) /\ Separated(p, sep) \in Seq(T) /\ Separated(<<>>, sep) = <<>>
  <2>1. p \in Seq(Seq(T)) /\ <<>> \in Seq(T)
    BY PiecesTyped
  <2> QED BY <2>1, SeparatedAppend
<1>2. p = <<>> => Followed(p, sep) = <<>>
  BY DEF Followed
<1>3. ASSUME p # <<>>
      PROVE  /\ Followed(p, sep) = Separated(p, sep) \o <<sep>>
             /\ Len(Followed(p, sep)) \in Nat \ {0}
             /\ Followed(p, sep)[Len(Followed(p, sep))] = sep
  <2>1. PICK s, f : s = Separated(p, sep) /\ f = Followed(p, sep)
    OBVIOUS
  <2>2. s \in Seq(T) /\ f = s \o <<sep>>
    BY <1>1, <1>3, <2>1 DEF Followed
  <2>3. PICK n \in Nat : n = Len(s)
    BY <2>2, LenProperties
  <2>4. <<sep>> \in Seq(T) /\ Len(<<sep>>) = 1 /\ <<sep>>[1] = sep
    OBVIOUS
  <2>5. Len(f) = n + 1 /\ \A k \in 1..(n + 1) : f[k] = IF k <= n THEN s[k] ELSE <<sep>>[k - n]
    BY <2>2, <2>3, <2>4, ConcatProperties
  <2>6. n + 1 \in 1..(n + 1) /\ ~(n + 1 <= n) /\ (n + 1) - n = 1 /\ n + 1 \in Nat \ {0}
    OBVIOUS
  <2>7. f[n + 1] = sep
    BY <2>4, <2>5, <2>6
  <2> QED BY <2>1, <2>2, <2>5, <2>6, <2>7
<1> QED BY <1>1, <1>2, <1>3 DEF Ends

\* Last pieces of different lengths show, whatever is before them.
LEMMA UnequalPieces ==
  ASSUME NEW T, NEW X \in SUBSET T, NEW neg \in T, NEW sep \in T, NEW R, neg # sep,
         Apart(R, sep), NEW p \in Seq(Piece(X, neg)), NEW q \in Seq(T),
         NEW x \in Piece(X, neg), NEW y \in Piece(X, neg), Len(x) = 1, Len(y) = 2
  PROVE  /\ ~Pairwise(R, Followed(p, sep) \o x, q \o y)
         /\ ~Pairwise(R, q \o y, Followed(p, sep) \o x)
<1>1. PICK f : f = Followed(p, sep)
  OBVIOUS
<1>e. Ends(T, p, sep, f)
  BY <1>1, FollowedEnds
<1>2. f \in Seq(T) /\ x \in Seq(T) /\ y \in Seq(T) /\ y[1] = neg
  <2>1. \A z \in Piece(X, neg) : z \in Seq(T) /\ (Len(z) = 1 \/ (Len(z) = 2 /\ z[1] = neg))
    BY PieceTyped
  <2>2. Len(y) # 1
    OBVIOUS
  <2> QED BY <1>e, <2>1, <2>2 DEF Ends
<1>3. PICK n, m \in Nat : n = Len(f) /\ m = Len(q)
  BY <1>2, LenProperties
<1>4. PICK c, d : c = f \o x /\ d = q \o y
  OBVIOUS
<1>5. /\ Len(c) = n + 1 /\ \A k \in 1..(n + 1) : c[k] = IF k <= n THEN f[k] ELSE x[k - n]
      /\ Len(d) = m + 2 /\ \A k \in 1..(m + 2) : d[k] = IF k <= m THEN q[k] ELSE y[k - m]
  <2>1. /\ Len(c) = Len(f) + Len(x)
        /\ \A k \in 1..(Len(f) + Len(x)) : c[k] = IF k <= Len(f) THEN f[k] ELSE x[k - Len(f)]
    BY <1>2, <1>4, ConcatProperties
  <2>2. /\ Len(d) = Len(q) + Len(y)
        /\ \A k \in 1..(Len(q) + Len(y)) : d[k] = IF k <= Len(q) THEN q[k] ELSE y[k - Len(q)]
    BY <1>2, <1>4, ConcatProperties
  <2> QED BY <1>3, <2>1, <2>2
<1>6. ASSUME n + 1 = m + 2, <<c[n], d[n]>> \in R \/ <<d[n], c[n]>> \in R PROVE FALSE
  <2>1. n = m + 1 /\ n # 0
    BY <1>3, <1>6
  <2>2. f[n] = sep
    <3>1. p # <<>>
      <4>1. Len(<<>>) = 0
        OBVIOUS
      <4> QED BY <1>e, <1>3, <2>1, <4>1 DEF Ends
    <3> QED BY <1>e, <1>3, <3>1 DEF Ends
  <2>3. n \in 1..(n + 1) /\ n <= n /\ n \in 1..(m + 2) /\ ~(n <= m) /\ n - m = 1
    BY <1>3, <2>1
  <2>4. c[n] = sep /\ d[n] = neg
    BY <1>2, <1>5, <2>2, <2>3
  <2> QED BY <1>6, <2>4 DEF Apart
<1>7. n + 1 = m + 2 => n \in 1..Len(c) /\ n \in 1..Len(d)
  BY <1>3, <1>5
<1> QED BY <1>1, <1>4, <1>5, <1>6, <1>7 DEF Pairwise

\* Followed() is related if Separated() is.
LEMMA FollowedPairs ==
  ASSUME NEW T, NEW X \in SUBSET T, NEW neg \in T, NEW sep \in T, NEW R, Apart(R, sep),
         NEW p \in Seq(Piece(X, neg)), NEW q \in Seq(Piece(X, neg)),
         Pairwise(R, Separated(p, sep), Separated(q, sep)) => Len(p) = Len(q)
  PROVE  Pairwise(R, Followed(p, sep), Followed(q, sep))
           <=> Pairwise(R, Separated(p, sep), Separated(q, sep))
<1>0. Len(<<>>) = 0 /\ \A k \in 1..0 : FALSE
  OBVIOUS
<1>1. PICK a, b, f, g : /\ a = Separated(p, sep) /\ b = Separated(q, sep)
                        /\ f = Followed(p, sep) /\ g = Followed(q, sep)
  OBVIOUS
<1>e. Ends(T, p, sep, f) /\ Ends(T, q, sep, g)
  BY <1>1, FollowedEnds
<1>2. CASE p = <<>> /\ q = <<>>
  <2>1. f = <<>> /\ g = <<>> /\ a = <<>> /\ b = <<>>
    BY <1>e, <1>1, <1>2 DEF Ends
  <2> QED BY <1>1, <2>1
<1>3. CASE p # <<>> /\ q # <<>>
  <2>1. f = a \o <<sep>> /\ g = b \o <<sep>> /\ a \in Seq(T) /\ b \in Seq(T)
    BY <1>e, <1>1, <1>3 DEF Ends
  <2>2. PICK m : m = <<sep>>
    OBVIOUS
  <2>3. m \in Seq(T) /\ Pairwise(R, m, m)
    BY <2>2, PairwiseOne DEF Apart
  <2>4. Pairwise(R, a \o m, b \o m) <=> Pairwise(R, a, b) /\ Pairwise(R, m, m)
    BY <2>1, <2>3, PairwiseConcat
  <2> QED BY <1>1, <2>1, <2>2, <2>3, <2>4
<1>4. CASE ~(p = <<>> <=> q = <<>>)
  <2>1. Len(p) # Len(q)
    BY <1>4, EmptySeq
  <2>2. Len(f) # Len(g)
    <3>1. p = <<>> => Len(f) = 0
      BY <1>0, <1>e DEF Ends
    <3>2. q = <<>> => Len(g) = 0
      BY <1>0, <1>e DEF Ends
    <3>3. p # <<>> => Len(f) # 0
      BY <1>e DEF Ends
    <3>4. q # <<>> => Len(g) # 0
      BY <1>e DEF Ends
    <3> QED BY <1>4, <3>1, <3>2, <3>3, <3>4
  <2>3. ~Pairwise(R, f, g)
    BY <2>2 DEF Pairwise
  <2> QED BY <1>1, <2>1, <2>3
<1> QED BY <1>2, <1>3, <1>4

\* Lists are related if their pieces are.
ListsPair(R, sep, p, q) ==
  Pairwise(R, Separated(p, sep), Separated(q, sep))
    <=> Len(p) = Len(q) /\ \A k \in 1..Len(p) : Pairwise(R, p[k], q[k])

\* With one more piece each.
LEMMA ListsPairNext ==
  ASSUME NEW T, NEW X \in SUBSET T, NEW neg \in T, NEW sep \in T, NEW R, neg # sep, Apart(R, sep),
         NEW p \in Seq(Piece(X, neg)), NEW q \in Seq(Piece(X, neg)),
         NEW x \in Piece(X, neg), NEW y \in Piece(X, neg), ListsPair(R, sep, p, q)
  PROVE  Pairwise(R, Separated(Append(p, x), sep), Separated(Append(q, y), sep))
           <=> (Len(p) = Len(q) /\ \A k \in 1..Len(p) : Pairwise(R, p[k], q[k])) /\ Pairwise(R, x, y)
<1>1. PICK f, g : f = Followed(p, sep) /\ g = Followed(q, sep)
  OBVIOUS
<1>2. \A z \in Piece(X, neg) : z \in Seq(T) /\ (Len(z) = 1 \/ Len(z) = 2)
  BY PieceTyped
<1>3. f \in Seq(T) /\ g \in Seq(T)
  <2>1. Ends(T, p, sep, f) /\ Ends(T, q, sep, g)
    BY <1>1, FollowedEnds
  <2> QED BY <2>1 DEF Ends
<1>4. Separated(Append(p, x), sep) = f \o x /\ Separated(Append(q, y), sep) = g \o y
  <2>1. p \in Seq(Seq(T)) /\ q \in Seq(Seq(T))
    BY PiecesTyped
  <2>2. \A r \in Seq(Seq(T)), z \in Seq(T) : Separated(Append(r, z), sep) = Followed(r, sep) \o z
    BY SeparatedAppend
  <2> QED BY <1>1, <1>2, <2>1, <2>2
<1>5. CASE Len(x) = Len(y)
  <2>1. Pairwise(R, f \o x, g \o y) <=> Pairwise(R, f, g) /\ Pairwise(R, x, y)
    BY <1>2, <1>3, <1>5, PairwiseConcat
  <2>2. Pairwise(R, f, g) <=> Pairwise(R, Separated(p, sep), Separated(q, sep))
    <3>1. Pairwise(R, Separated(p, sep), Separated(q, sep)) => Len(p) = Len(q)
      BY DEF ListsPair
    <3> QED BY <1>1, <3>1, FollowedPairs
  <2> QED BY <1>4, <2>1, <2>2 DEF ListsPair
<1>6. CASE Len(x) # Len(y)
  <2>1. ~Pairwise(R, x, y)
    BY <1>6 DEF Pairwise
  <2>2. ~Pairwise(R, f \o x, g \o y)
    <3>1. CASE Len(x) = 1
      <4>1. Len(y) = 2
        BY <1>2, <1>6, <3>1
      <4> QED BY <1>1, <1>3, <3>1, <4>1, UnequalPieces
    <3>2. CASE Len(x) # 1
      <4>1. Len(x) = 2 /\ Len(y) = 1
        BY <1>2, <1>6, <3>2
      <4> QED BY <1>1, <1>3, <4>1, UnequalPieces
    <3> QED BY <3>1, <3>2
  <2> QED BY <1>4, <2>1, <2>2
<1> QED BY <1>5, <1>6

\* A list that is not empty is not like one that is.
LEMMA ListsPairEmpty ==
  ASSUME NEW T, NEW X \in SUBSET T, NEW neg \in T, NEW sep \in T, NEW R,
         NEW p \in Seq(Piece(X, neg)), NEW q \in Seq(Piece(X, neg)), p = <<>> \/ q = <<>>
  PROVE  ListsPair(R, sep, p, q)
<1>0. Len(<<>>) = 0 /\ 1..0 = {}
  OBVIOUS
<1>1. Separated(<<>>, sep) = <<>>
  <2>1. Ends(T, p, sep, Followed(p, sep))
    BY FollowedEnds
  <2> QED BY <2>1 DEF Ends
<1>2. ASSUME NEW r \in Seq(Piece(X, neg)), r # <<>>
      PROVE  Len(Separated(r, sep)) # 0 /\ Len(r) # 0
  <2>1. PICK s \in Seq(Piece(X, neg)), x \in Piece(X, neg) : r = Append(s, x)
    <3>1. \E s \in Seq(Piece(X, neg)), x \in Piece(X, neg), n \in Nat : Splits(r, s, x, n)
      BY <1>2, HasLast
    <3> QED BY <3>1 DEF Splits
  <2>2. PICK f : f = Followed(s, sep) /\ f \in Seq(T)
    <3>1. Ends(T, s, sep, Followed(s, sep))
      BY FollowedEnds
    <3> QED BY <3>1 DEF Ends
  <2>3. x \in Seq(T) /\ (Len(x) = 1 \/ Len(x) = 2)
    BY PieceTyped
  <2>4. Separated(r, sep) = f \o x
    <3>1. s \in Seq(Seq(T))
      BY PiecesTyped
    <3>2. \A u \in Seq(Seq(T)), z \in Seq(T) : Separated(Append(u, z), sep) = Followed(u, sep) \o z
      BY SeparatedAppend
    <3> QED BY <2>1, <2>2, <2>3, <3>1, <3>2
  <2>5. Len(f \o x) = Len(f) + Len(x) /\ Len(f) \in Nat
    BY <2>2, <2>3, ConcatProperties, LenProperties
  <2>6. Len(r) # 0
    BY <1>2, EmptySeq
  <2>7. Len(f \o x) # 0
    <3>1. PICK i, m \in Nat : i = Len(f) /\ m = Len(x) /\ m # 0 /\ Len(f \o x) = i + m
      <4>1. Len(x) \in Nat /\ Len(x) # 0
        <5>1. CASE Len(x) = 1
          BY <5>1
        <5>2. CASE Len(x) = 2
          BY <5>2
        <5> QED BY <2>3, <5>1, <5>2
      <4> QED BY <2>5, <4>1
    <3>2. i + m # 0
      BY <3>1
    <3> QED BY <3>1, <3>2
  <2> QED BY <2>4, <2>6, <2>7
<1>3. CASE p = <<>> /\ q = <<>>
  BY <1>0, <1>1, <1>3 DEF ListsPair, Pairwise
<1>4. CASE p = <<>> /\ q # <<>>
  BY <1>0, <1>1, <1>2, <1>4 DEF ListsPair, Pairwise
<1>5. CASE p # <<>> /\ q = <<>>
  BY <1>0, <1>1, <1>2, <1>5 DEF ListsPair, Pairwise
<1> QED BY <1>3, <1>4, <1>5

\* Read from the right, a list falls into its pieces in one way only.
LEMMA SeparatedPairs ==
  ASSUME NEW T, NEW X \in SUBSET T, NEW neg \in T, NEW sep \in T, NEW R, neg # sep, Apart(R, sep)
  PROVE  \A p, q \in Seq(Piece(X, neg)) : ListsPair(R, sep, p, q)
<1> DEFINE P   == Piece(X, neg)
           Bad == {n \in Nat : \E p, q \in Seq(P) : Len(p) = n /\ ~ListsPair(R, sep, p, q)}
<1>1. ASSUME Bad # {} PROVE FALSE
  <2>1. PICK n \in Bad : \A m \in Bad : n <= m
    <3>1. Bad \in SUBSET Nat
      OBVIOUS
    <3> QED BY <1>1, <3>1, LeastNatural
  <2>2. PICK p \in Seq(P), q \in Seq(P) : n \in Nat /\ Len(p) = n /\ ~ListsPair(R, sep, p, q)
    BY <2>1
  <2>3. p # <<>> /\ q # <<>>
    BY <2>2, ListsPairEmpty
  <2>4. PICK f \in Seq(P), x \in P, i \in Nat :
          /\ p = Append(f, x) /\ Len(f) = i /\ Len(p) = i + 1 /\ p[i + 1] = x
          /\ \A k \in 1..i : f[k] = p[k]
    <3> HIDE DEF P
    <3>1. \E f \in Seq(P), x \in P, i \in Nat : Splits(p, f, x, i)
      BY <2>3, HasLast
    <3> QED BY <3>1 DEF Splits
  <2>5. PICK g \in Seq(P), y \in P, j \in Nat :
          /\ q = Append(g, y) /\ Len(g) = j /\ Len(q) = j + 1 /\ q[j + 1] = y
          /\ \A k \in 1..j : g[k] = q[k]
    <3> HIDE DEF P
    <3>1. \E g \in Seq(P), y \in P, j \in Nat : Splits(q, g, y, j)
      BY <2>3, HasLast
    <3> QED BY <3>1 DEF Splits
  <2>6. ListsPair(R, sep, f, g)
    <3>1. i \in Nat /\ ~(n <= i)
      BY <2>2, <2>4
    <3>2. i \notin Bad
      BY <2>1, <3>1
    <3> QED BY <2>4, <2>5, <3>1, <3>2
  <2>7. Pairwise(R, Separated(p, sep), Separated(q, sep))
          <=> (Len(f) = Len(g) /\ \A k \in 1..Len(f) : Pairwise(R, f[k], g[k])) /\ Pairwise(R, x, y)
    BY <2>4, <2>5, <2>6, ListsPairNext
  <2>8. (Len(f) = Len(g) /\ \A k \in 1..Len(f) : Pairwise(R, f[k], g[k])) /\ Pairwise(R, x, y)
          <=> Len(p) = Len(q) /\ \A k \in 1..Len(p) : Pairwise(R, p[k], q[k])
    <3>1. CASE i # j
      <4>1. Len(f) # Len(g) /\ Len(p) # Len(q)
        BY <2>4, <2>5, <3>1
      <4> QED BY <4>1
    <3>2. CASE i = j
      <4>1. i + 1 \in 1..(i + 1) /\ \A k \in 1..i : k \in 1..(i + 1)
        OBVIOUS
      <4>2. \A k \in 1..(i + 1) : k \in 1..i \/ k = i + 1
        OBVIOUS
      <4>3. Len(f) = Len(g) /\ Len(p) = Len(q) /\ Len(f) = i /\ Len(p) = i + 1
        BY <2>4, <2>5, <3>2
      <4>4. \A k \in 1..i : f[k] = p[k] /\ g[k] = q[k]
        BY <2>4, <2>5, <3>2
      <4>5. p[i + 1] = x /\ q[i + 1] = y
        BY <2>4, <2>5, <3>2
      <4>6. (\A k \in 1..i : Pairwise(R, f[k], g[k])) /\ Pairwise(R, x, y)
              <=> \A k \in 1..(i + 1) : Pairwise(R, p[k], q[k])
        BY <4>1, <4>2, <4>4, <4>5
      <4> QED BY <4>3, <4>6
    <3> QED BY <3>1, <3>2
  <2> QED BY <2>2, <2>7, <2>8 DEF ListsPair
<1> QED BY <1>1

-----------------------------------------------------------------------------
(* Items that are still to be printed                                       *)

PunctItem == {Mark(m) : m \in Punctuation}
TermItem  == {Printed(t) : t \in DOMAIN Terms}
Item      == PunctItem \cup TermItem

\* Marks are different from terms, and tell what they are.
LEMMA ItemsApart ==
  /\ \A m, n : Mark(m) = Mark(n) <=> m = n
  /\ \A s, t : Printed(s) = Printed(t) <=> s = t
  /\ \A m, t : Mark(m) # Printed(t)
  /\ \A m, t : Printed(t).term = t /\ "term" \in DOMAIN Printed(t) /\ "mark" \notin DOMAIN Printed(t)
               /\ "mark" \in DOMAIN Mark(m) /\ "term" \notin DOMAIN Mark(m)
<1>1. \A m, n : Mark(m) = Mark(n) <=> m = n
  <2>1. \A m : Mark(m).mark = m
    BY DEF Mark
  <2> QED BY <2>1
<1>2. \A m, t : "term" \in DOMAIN Printed(t) /\ "mark" \notin DOMAIN Printed(t)
               /\ "mark" \in DOMAIN Mark(m) /\ "term" \notin DOMAIN Mark(m)
  BY DEF Printed, Mark
<1>3. \A t : Printed(t).term = t
  BY DEF Printed
<1> QED BY <1>1, <1>2, <1>3

\* Items that read the same when variables are renamed.
Like(rho) ==
  {xy \in Item \X Item :
     \/ xy[1] \in PunctItem /\ xy[2] = xy[1]
     \/ \E s, t \in DOMAIN Terms : xy = <<Printed(s), Printed(t)>> /\ SameUnder(rho, s, t)}

\* A mark is like itself only, and terms are like terms.
LEMMA LikeIs ==
  ASSUME NEW rho
  PROVE  /\ \A m \in Punctuation : Mark(m) \in Item /\ Apart(Like(rho), Mark(m))
         /\ \A s, t \in DOMAIN Terms : <<Printed(s), Printed(t)>> \in Like(rho) <=> SameUnder(rho, s, t)
         /\ \A x, y : <<x, y>> \in Like(rho) =>
              \/ x \in PunctItem /\ y = x
              \/ \E s, t \in DOMAIN Terms : x = Printed(s) /\ y = Printed(t) /\ SameUnder(rho, s, t)
<1>1. \A x, y : <<x, y>> \in Like(rho) <=>
        x \in Item /\ y \in Item /\
          (\/ x \in PunctItem /\ y = x
           \/ \E s, t \in DOMAIN Terms : x = Printed(s) /\ y = Printed(t) /\ SameUnder(rho, s, t))
  <2>1. \A x, y, s, t : <<x, y>> = <<Printed(s), Printed(t)>> <=> x = Printed(s) /\ y = Printed(t)
    OBVIOUS
  <2>2. \A x, y : <<x, y>>[1] = x /\ <<x, y>>[2] = y
    OBVIOUS
  <2> QED BY <2>1, <2>2, Zenon DEF Like
<1>2. \A m \in Punctuation : Mark(m) \in PunctItem
  BY DEF PunctItem
<1>3. \A t \in DOMAIN Terms : Printed(t) \in TermItem
  BY DEF TermItem
<1>4. \A t : Printed(t) \notin PunctItem
  BY ItemsApart DEF PunctItem
<1>5. ASSUME NEW m \in Punctuation PROVE Mark(m) \in Item /\ Apart(Like(rho), Mark(m))
  <2>1. Mark(m) \in Item
    BY <1>2 DEF Item
  <2>2. <<Mark(m), Mark(m)>> \in Like(rho)
    BY <1>1, <1>2, <2>1
  <2>3. \A x, y : <<x, y>> \in Like(rho) => (x = Mark(m) <=> y = Mark(m))
    BY <1>1, ItemsApart
  <2> QED BY <2>1, <2>2, <2>3 DEF Apart
<1>6. ASSUME NEW s \in DOMAIN Terms, NEW t \in DOMAIN Terms
      PROVE  <<Printed(s), Printed(t)>> \in Like(rho) <=> SameUnder(rho, s, t)
  <2>1. Printed(s) \in Item /\ Printed(t) \in Item
    BY <1>3 DEF Item
  <2>2. \A i, j : Printed(i) = Printed(j) <=> i = j
    BY ItemsApart
  <2> QED BY <1>1, <1>4, <2>1, <2>2
<1> QED BY <1>1, <1>5, <1>6

\* The pieces of a list of arguments, and of a clause.
ArgItems(p) == [k \in DOMAIN p |-> <<Printed(p[k])>>]

\* They are pieces: no sign comes before an argument.
LEMMA ArgItemsAre ==
  ASSUME NEW p \in Seq(DOMAIN Terms)
  PROVE  /\ ArgItems(p) \in Seq(Piece(TermItem, Mark("not"))) /\ Len(ArgItems(p)) = Len(p)
         /\ ArgItems(p) \in Seq(Seq(TermItem))
         /\ \A k \in 1..Len(p) : ArgItems(p)[k] = <<Printed(p[k])>>
<1>1. PICK n \in Nat : n = Len(p) /\ DOMAIN p = 1..n
  BY LenProperties
<1>2. ASSUME NEW k \in 1..n
      PROVE  <<Printed(p[k])>> \in Piece(TermItem, Mark("not")) /\ <<Printed(p[k])>> \in Seq(TermItem)
  <2>1. p[k] \in DOMAIN Terms
    BY <1>1, ElementOfSeq
  <2>2. PICK x \in TermItem : x = Printed(p[k])
    BY <2>1 DEF TermItem
  <2>3. <<x>> \in Piece(TermItem, Mark("not")) /\ <<x>> \in Seq(TermItem)
    BY DEF Piece
  <2> QED BY <2>2, <2>3
<1>3. ArgItems(p) = [k \in 1..n |-> <<Printed(p[k])>>]
  BY <1>1 DEF ArgItems
<1>4. ArgItems(p) \in Seq(Piece(TermItem, Mark("not")))
  BY <1>2, <1>3, IsASeq
<1>5. ArgItems(p) \in Seq(Seq(TermItem))
  BY <1>2, <1>3, IsASeq
<1>6. DOMAIN ArgItems(p) = 1..n /\ \A k \in 1..n : ArgItems(p)[k] = <<Printed(p[k])>>
  BY <1>3
<1>7. Len(ArgItems(p)) = n
  BY <1>4, <1>6, LenProperties
<1> QED BY <1>1, <1>4, <1>5, <1>6, <1>7

\* A sequence between two marks.
Wrapped(l, s, r) == (<<l>> \o s) \o <<r>>

\* What is where in it.
LEMMA WrappedIs ==
  ASSUME NEW T, NEW l \in T, NEW r \in T, NEW s \in Seq(T), NEW n \in Nat, n = Len(s)
  PROVE  /\ Wrapped(l, s, r) \in Seq(T) /\ Len(Wrapped(l, s, r)) = n + 2
         /\ Wrapped(l, s, r)[1] = l /\ Wrapped(l, s, r)[n + 2] = r
         /\ \A k \in 1..n : Wrapped(l, s, r)[k + 1] = s[k]
<1>1. PICK a, b : a = <<l>> /\ b = <<r>>
  OBVIOUS
<1>2. a \in Seq(T) /\ b \in Seq(T) /\ Len(a) = 1 /\ Len(b) = 1 /\ a[1] = l /\ b[1] = r
  BY <1>1
<1>3. PICK c : c = a \o s
  OBVIOUS
<1>4. /\ c \in Seq(T) /\ Len(c) = 1 + n
      /\ \A k \in 1..(1 + n) : c[k] = IF k <= 1 THEN a[k] ELSE s[k - 1]
  <2>1. /\ c \in Seq(T) /\ Len(c) = Len(a) + Len(s)
        /\ \A k \in 1..(Len(a) + Len(s)) : c[k] = IF k <= Len(a) THEN a[k] ELSE s[k - Len(a)]
    BY <1>2, <1>3, ConcatProperties
  <2> QED BY <1>2, <2>1
<1>5. PICK w : w = c \o b
  OBVIOUS
<1>6. /\ w \in Seq(T) /\ Len(w) = (1 + n) + 1
      /\ \A k \in 1..((1 + n) + 1) : w[k] = IF k <= 1 + n THEN c[k] ELSE b[k - (1 + n)]
  <2>1. /\ w \in Seq(T) /\ Len(w) = Len(c) + Len(b)
        /\ \A k \in 1..(Len(c) + Len(b)) : w[k] = IF k <= Len(c) THEN c[k] ELSE b[k - Len(c)]
    BY <1>2, <1>4, <1>5, ConcatProperties
  <2>2. Len(c) = 1 + n /\ Len(b) = 1
    BY <1>2, <1>4
  <2> QED BY <2>1, <2>2
<1>7. (1 + n) + 1 = n + 2 /\ 1 \in 1..(1 + n) /\ 1 \in 1..((1 + n) + 1) /\ n + 2 \in 1..((1 + n) + 1)
      /\ ~(n + 2 <= 1 + n) /\ (n + 2) - (1 + n) = 1 /\ 1 <= 1 + n
  OBVIOUS
<1>8. w[1] = l /\ w[n + 2] = r
  <2>1. w[1] = c[1] /\ w[n + 2] = b[1]
    BY <1>6, <1>7
  <2>2. c[1] = l /\ b[1] = r
    BY <1>2, <1>4, <1>7
  <2> QED BY <2>1, <2>2
<1>9. ASSUME NEW k \in 1..n PROVE w[k + 1] = s[k]
  <2>1. /\ k + 1 \in 1..(1 + n) /\ k + 1 \in 1..((1 + n) + 1) /\ k + 1 <= 1 + n
        /\ ~(k + 1 <= 1) /\ (k + 1) - 1 = k
    OBVIOUS
  <2> QED BY <1>4, <1>6, <2>1
<1> QED BY <1>1, <1>3, <1>5, <1>6, <1>7, <1>8, <1>9 DEF Wrapped

\* w is s, which has n elements, between l and r.
Wraps(w, l, s, r, n) ==
  /\ w \in Seq(Item) /\ Len(w) = n + 2 /\ w[1] = l /\ w[n + 2] = r
  /\ \A k \in 1..n : w[k + 1] = s[k]

\* The same of items.
LEMMA WrappedItems ==
  ASSUME NEW l \in Item, NEW r \in Item, NEW s \in Seq(Item), NEW n \in Nat, n = Len(s)
  PROVE  Wraps(Wrapped(l, s, r), l, s, r, n)
BY WrappedIs DEF Wraps

\* Between the same marks, sequences are related if they are.
LEMMA WrappedPairs ==
  ASSUME NEW T, NEW R, NEW l \in T, NEW r \in T, NEW s \in Seq(T), NEW t \in Seq(T),
         <<l, l>> \in R, <<r, r>> \in R
  PROVE  Pairwise(R, Wrapped(l, s, r), Wrapped(l, t, r)) <=> Pairwise(R, s, t)
<1>1. PICK a, b : a = <<l>> /\ b = <<r>>
  OBVIOUS
<1>2. a \in Seq(T) /\ b \in Seq(T)
  BY <1>1
<1>3. Pairwise(R, a, a) /\ Pairwise(R, b, b)
  BY <1>1, PairwiseOne
<1>4. a \o s \in Seq(T) /\ a \o t \in Seq(T)
  BY <1>2, ConcatProperties
<1>5. Pairwise(R, (a \o s) \o b, (a \o t) \o b) <=> Pairwise(R, a \o s, a \o t) /\ Pairwise(R, b, b)
  BY <1>2, <1>4, PairwiseConcat
<1>6. Pairwise(R, a \o s, a \o t) <=> Pairwise(R, a, a) /\ Pairwise(R, s, t)
  BY <1>2, PairwiseConcat
<1> QED BY <1>1, <1>3, <1>5, <1>6 DEF Wrapped

ArgList(p) == Separated(ArgItems(p), Mark(","))

\* The parentheses of arguments hold none.
LEMMA ArgumentsAre ==
  ASSUME NEW p \in Seq(DOMAIN Terms)
  PROVE  /\ Arguments(<<>>) = <<>> /\ Arguments(p) \in Seq(Item)
         /\ ArgList(p) \in Seq(TermItem \cup {Mark(",")})
         /\ p # <<>> => Arguments(p) = Wrapped(Mark("("), ArgList(p), Mark(")"))
<1>1. Arguments(<<>>) = <<>>
  BY DEF Arguments
<1>2. p # <<>> => Arguments(p) = Wrapped(Mark("("), ArgList(p), Mark(")"))
  BY DEF Arguments, Wrapped, ArgList, ArgItems
<1>3. ArgList(p) \in Seq(TermItem \cup {Mark(",")})
  <2>1. PICK T, m, a : T = TermItem \cup {Mark(",")} /\ m = Mark(",") /\ a = ArgItems(p)
    OBVIOUS
  <2>2. TermItem \subseteq T /\ m \in T
    BY <2>1
  <2>3. a \in Seq(Seq(TermItem))
    BY <2>1, ArgItemsAre
  <2>4. a \in Seq(Seq(T)) /\ <<>> \in Seq(T)
    <3>1. Seq(TermItem) \subseteq Seq(T)
      BY <2>2
    <3> QED BY <2>3, <3>1
  <2>5. Separated(a, m) \in Seq(T)
    BY <2>2, <2>4, SeparatedAppend
  <2> QED BY <2>1, <2>5 DEF ArgList
<1>4. Arguments(p) \in Seq(Item)
  <2>1. CASE p = <<>>
    BY <1>1, <2>1, EmptySeq
  <2>2. CASE p # <<>>
    <3>1. Mark("(") \in Item /\ Mark(")") \in Item /\ Mark(",") \in Item
      BY DEF Item, PunctItem, Punctuation
    <3>2. TermItem \cup {Mark(",")} \subseteq Item
      BY <3>1 DEF Item
    <3>3. ArgList(p) \in Seq(Item)
      <4>1. PICK S : S = TermItem \cup {Mark(",")}
        OBVIOUS
      <4>2. S \subseteq Item /\ ArgList(p) \in Seq(S)
        BY <1>3, <3>2, <4>1
      <4>3. Seq(S) \subseteq Seq(Item)
        BY <4>2
      <4> QED BY <4>2, <4>3
    <3>4. PICK n \in Nat : n = Len(ArgList(p))
      BY <3>3, LenProperties
    <3>5. Wrapped(Mark("("), ArgList(p), Mark(")")) \in Seq(Item)
      BY <3>1, <3>3, <3>4, WrappedIs
    <3> QED BY <1>2, <2>2, <3>5
  <2> QED BY <2>1, <2>2
<1> QED BY <1>1, <1>2, <1>3, <1>4

\* Arguments read the same if there are as many and each reads like its own.
LEMMA ArgumentsPair ==
  ASSUME NEW rho, NEW p \in Seq(DOMAIN Terms), NEW q \in Seq(DOMAIN Terms), p # <<>>, q # <<>>
  PROVE  Pairwise(Like(rho), Arguments(p), Arguments(q))
           <=> Len(p) = Len(q) /\ \A k \in 1..Len(p) : SameUnder(rho, p[k], q[k])
<1>1. PICK R, a, b, l, r, m, neg :
        /\ R = Like(rho) /\ a = ArgItems(p) /\ b = ArgItems(q)
        /\ l = Mark("(") /\ r = Mark(")") /\ m = Mark(",") /\ neg = Mark("not")
  OBVIOUS
<1>2. /\ l \in Item /\ r \in Item /\ m \in Item /\ neg \in Item /\ neg # m
      /\ Apart(R, m) /\ <<l, l>> \in R /\ <<r, r>> \in R /\ TermItem \in SUBSET Item
  <2>1. {"(", ")", ",", "not"} \subseteq Punctuation
    BY DEF Punctuation
  <2>2. \A x \in Punctuation : Mark(x) \in Item /\ Apart(R, Mark(x))
    BY <1>1, LikeIs
  <2>3. Mark(",") # Mark("not")
    <3>1. "," # "not"
      OBVIOUS
    <3> QED BY <3>1, ItemsApart
  <2> QED BY <1>1, <2>1, <2>2, <2>3 DEF Apart, Item
<1>3. /\ a \in Seq(Piece(TermItem, neg)) /\ b \in Seq(Piece(TermItem, neg))
      /\ Len(a) = Len(p) /\ Len(b) = Len(q)
      /\ \A k \in 1..Len(p) : a[k] = <<Printed(p[k])>>
      /\ \A k \in 1..Len(q) : b[k] = <<Printed(q[k])>>
  BY <1>1, ArgItemsAre
<1>4. ListsPair(R, m, a, b)
  <2>1. \A i, j \in Seq(Piece(TermItem, neg)) : ListsPair(R, m, i, j)
    BY <1>2, SeparatedPairs
  <2> QED BY <1>3, <2>1
<1>5. Pairwise(R, Arguments(p), Arguments(q)) <=> Pairwise(R, Separated(a, m), Separated(b, m))
  <2>1. PICK s, t : s = Separated(a, m) /\ t = Separated(b, m)
    OBVIOUS
  <2>2. TermItem \cup {m} \subseteq Item
    BY <1>2
  <2>3. s \in Seq(Item) /\ t \in Seq(Item)
    <3>1. s \in Seq(TermItem \cup {m}) /\ t \in Seq(TermItem \cup {m})
      BY <1>1, <2>1, ArgumentsAre DEF ArgList
    <3> QED BY <2>2, <3>1
  <2>4. Arguments(p) = Wrapped(l, s, r) /\ Arguments(q) = Wrapped(l, t, r)
    BY <1>1, <2>1, ArgumentsAre DEF ArgList
  <2>5. Pairwise(R, Wrapped(l, s, r), Wrapped(l, t, r)) <=> Pairwise(R, s, t)
    BY <1>2, <2>3, WrappedPairs
  <2> QED BY <2>1, <2>4, <2>5
<1>6. ASSUME Len(p) = Len(q), NEW k \in 1..Len(p)
      PROVE  Pairwise(R, a[k], b[k]) <=> SameUnder(rho, p[k], q[k])
  <2>1. a[k] = <<Printed(p[k])>> /\ b[k] = <<Printed(q[k])>>
    BY <1>3, <1>6
  <2>2. p[k] \in DOMAIN Terms /\ q[k] \in DOMAIN Terms
    BY <1>6, ElementOfSeq
  <2>3. Pairwise(R, <<Printed(p[k])>>, <<Printed(q[k])>>) <=> <<Printed(p[k]), Printed(q[k])>> \in R
    BY PairwiseOne
  <2>4. <<Printed(p[k]), Printed(q[k])>> \in R <=> SameUnder(rho, p[k], q[k])
    BY <1>1, <2>2, LikeIs
  <2> QED BY <2>1, <2>3, <2>4
<1> QED BY <1>1, <1>3, <1>4, <1>5, <1>6 DEF ListsPair

-----------------------------------------------------------------------------
(* How far arguments reach, and what comes after them                       *)

\* The first closing parenthesis is the end of the arguments, whatever comes after.
LEMMA ShorterArguments ==
  ASSUME NEW rho, NEW p \in Seq(DOMAIN Terms), NEW q \in Seq(DOMAIN Terms), p # <<>>, q # <<>>,
         NEW a \in Seq(Item), NEW b \in Seq(Item), Len(Arguments(p)) < Len(Arguments(q))
  PROVE  /\ ~Pairwise(Like(rho), Arguments(p) \o a, Arguments(q) \o b)
         /\ ~Pairwise(Like(rho), Arguments(q) \o b, Arguments(p) \o a)
<1>1. PICK R, r, s, t, v, w :
        /\ R = Like(rho) /\ r = Mark(")") /\ s = ArgList(p) /\ t = ArgList(q)
        /\ v = Arguments(p) /\ w = Arguments(q)
  OBVIOUS
<1>2. Apart(R, r) /\ r \in Item /\ Mark("(") \in Item
  <2>1. {"(", ")"} \subseteq Punctuation
    BY DEF Punctuation
  <2> QED BY <1>1, <2>1, LikeIs
<1>3. /\ v \in Seq(Item) /\ w \in Seq(Item) /\ s \in Seq(Item) /\ t \in Seq(Item)
      /\ t \in Seq(TermItem \cup {Mark(",")})
      /\ v = Wrapped(Mark("("), s, r) /\ w = Wrapped(Mark("("), t, r)
  <2>1. Arguments(p) \in Seq(Item) /\ Arguments(q) \in Seq(Item)
    BY ArgumentsAre
  <2>2. s \in Seq(TermItem \cup {Mark(",")}) /\ t \in Seq(TermItem \cup {Mark(",")})
    BY <1>1, ArgumentsAre
  <2>3. PICK S : S = TermItem \cup {Mark(",")}
    OBVIOUS
  <2>4. S \subseteq Item
    BY <2>3 DEF Item, PunctItem, Punctuation
  <2>5. Seq(S) \subseteq Seq(Item)
    BY <2>4
  <2>6. v = Wrapped(Mark("("), s, r) /\ w = Wrapped(Mark("("), t, r)
    BY <1>1, ArgumentsAre
  <2> QED BY <1>1, <2>1, <2>2, <2>3, <2>5, <2>6
<1>4. PICK n, m, i, j \in Nat : n = Len(s) /\ m = Len(t) /\ i = Len(a) /\ j = Len(b)
  BY <1>3, LenProperties
<1>5. Len(v) = n + 2 /\ v[n + 2] = r /\ Len(w) = m + 2 /\ \A k \in 1..m : w[k + 1] = t[k]
  <2>1. Wraps(v, Mark("("), s, r, n) /\ Wraps(w, Mark("("), t, r, m)
    BY <1>2, <1>3, <1>4, WrappedItems
  <2> QED BY <2>1 DEF Wraps
<1>6. n < m
  BY <1>1, <1>4, <1>5
<1>7. w[n + 2] # r
  <2>1. n + 1 \in 1..m /\ (n + 1) + 1 = n + 2
    BY <1>4, <1>6
  <2>2. w[n + 2] = t[n + 1]
    BY <1>5, <2>1
  <2>3. t[n + 1] \in TermItem \cup {Mark(",")}
    BY <1>3, <1>4, <2>1, ElementOfSeq
  <2>4. r # Mark(",") /\ r \notin TermItem
    <3>1. ")" # ","
      OBVIOUS
    <3>2. r # Mark(",")
      BY <1>1, <3>1, ItemsApart
    <3>3. r \notin TermItem
      BY <1>1, ItemsApart DEF TermItem
    <3> QED BY <3>2, <3>3
  <2> QED BY <2>2, <2>3, <2>4
<1>8. PICK c, d : c = v \o a /\ d = w \o b
  OBVIOUS
<1>9. Len(c) = (n + 2) + i /\ c[n + 2] = r
  <2>1. /\ Len(c) = Len(v) + Len(a)
        /\ \A k \in 1..(Len(v) + Len(a)) : c[k] = IF k <= Len(v) THEN v[k] ELSE a[k - Len(v)]
    BY <1>3, <1>8, ConcatProperties
  <2>2. n + 2 \in 1..((n + 2) + i) /\ n + 2 <= n + 2
    BY <1>4
  <2>3. /\ Len(c) = (n + 2) + i
        /\ \A k \in 1..((n + 2) + i) : c[k] = IF k <= n + 2 THEN v[k] ELSE a[k - (n + 2)]
    BY <1>4, <1>5, <2>1
  <2> QED BY <1>5, <2>2, <2>3
<1>10. Len(d) = (m + 2) + j /\ d[n + 2] # r
  <2>1. /\ Len(d) = Len(w) + Len(b)
        /\ \A k \in 1..(Len(w) + Len(b)) : d[k] = IF k <= Len(w) THEN w[k] ELSE b[k - Len(w)]
    BY <1>3, <1>8, ConcatProperties
  <2>2. n + 2 \in 1..((m + 2) + j) /\ n + 2 <= m + 2
    BY <1>4, <1>6
  <2>3. /\ Len(d) = (m + 2) + j
        /\ \A k \in 1..((m + 2) + j) : d[k] = IF k <= m + 2 THEN w[k] ELSE b[k - (m + 2)]
    BY <1>4, <1>5, <2>1
  <2> QED BY <1>7, <2>2, <2>3
<1>11. n + 2 \in 1..Len(c) /\ n + 2 \in 1..Len(d)
  BY <1>4, <1>6, <1>9, <1>10
<1>12. <<c[n + 2], d[n + 2]>> \notin R /\ <<d[n + 2], c[n + 2]>> \notin R
  BY <1>2, <1>9, <1>10 DEF Apart
<1> QED BY <1>1, <1>8, <1>11, <1>12 DEF Pairwise

\* So arguments that read the same end together.
LEMMA ArgumentsLength ==
  ASSUME NEW rho, NEW p \in Seq(DOMAIN Terms), NEW q \in Seq(DOMAIN Terms), p # <<>>, q # <<>>,
         NEW a \in Seq(Item), NEW b \in Seq(Item),
         Pairwise(Like(rho), Arguments(p) \o a, Arguments(q) \o b)
  PROVE  Len(Arguments(p)) = Len(Arguments(q))
<1>1. ~(Len(Arguments(p)) < Len(Arguments(q)))
  BY ShorterArguments
<1>2. ~(Len(Arguments(q)) < Len(Arguments(p)))
  BY ShorterArguments
<1>3. Len(Arguments(p)) \in Nat /\ Len(Arguments(q)) \in Nat
  BY ArgumentsAre, LenProperties
<1> QED BY <1>1, <1>2, <1>3

-----------------------------------------------------------------------------
(* One mark, variable or name at a time                                     *)

\* No term is followed by an opening parenthesis.
Spaced(a) ==
  a \in Seq(Item) /\ \A k \in 1..Len(a) : k + 1 <= Len(a) /\ a[k] \in TermItem => a[k + 1] # Mark("(")

\* What is printed of x, and what comes in its place: o and e.
Emitted(x, o, e) ==
  \/ x \in PunctItem /\ o = x /\ e = <<>>
  \/ \E t \in DOMAIN Terms :
       /\ x = Printed(t)
       /\ IF IsVariable(t) THEN o = x /\ e = <<>>
          ELSE o = Mark(getName(t)) /\ e = Arguments(Terms[t].args)

\* With o, printing goes from the items a to the items b.
Emits(a, o, b) ==
  \E x \in Item, e, c \in Seq(Item) : a = <<x>> \o c /\ b = e \o c /\ Emitted(x, o, e)

\* The arguments of a term are terms.
LEMMA ArgsAreTerms ==
  ASSUME NEW t \in DOMAIN Terms
  PROVE  /\ Terms[t].args \in Seq(DOMAIN Terms) /\ Terms[t].symbol \in DOMAIN Symbols
         /\ IsVariable(t) => Terms[t].args = <<>>
<1>1. PICK n \in Nat : n = Len(Terms) /\ DOMAIN Terms = 1..n
  BY LinesPrintable, LenProperties
<1>2. t \in 1..n /\ Terms[t] \in [symbol : DOMAIN Symbols, args : Seq(Nat)]
  <2>1. Terms \in Seq([symbol : DOMAIN Symbols, args : Seq(Nat)])
    BY LinesPrintable
  <2> QED BY <1>1, <2>1, ElementOfSeq
<1>3. Terms[t].args \in Seq(Nat) /\ Terms[t].symbol \in DOMAIN Symbols
  BY <1>2
<1>4. \A k \in DOMAIN Terms[t].args : Terms[t].args[k] \in 1..(t - 1)
  BY LinesPrintable
<1>5. \A k \in DOMAIN Terms[t].args : Terms[t].args[k] \in 1..n
  BY <1>1, <1>2, <1>4
<1>6. PICK s, m : s = Terms[t].args /\ m \in Nat /\ m = Len(s) /\ DOMAIN s = 1..m /\ s \in [1..m -> Nat]
  BY <1>3, LenProperties
<1>7. s \in [1..m -> 1..n]
  BY <1>5, <1>6
<1>8. s \in Seq(1..n)
  BY <1>6, <1>7
<1> QED BY <1>1, <1>3, <1>6, <1>8, LinesPrintable

\* An element in front of a sequence.
LEMMA ConsIs ==
  ASSUME NEW T, NEW x \in T, NEW c \in Seq(T), NEW m \in Nat, m = Len(c)
  PROVE  /\ <<x>> \o c \in Seq(T) /\ <<x>> \in Seq(T) /\ Len(<<x>> \o c) = m + 1 /\ (<<x>> \o c)[1] = x
         /\ \A k \in 1..m : (<<x>> \o c)[k + 1] = c[k]
<1>1. PICK a : a = <<x>>
  OBVIOUS
<1>2. a \in Seq(T) /\ Len(a) = 1 /\ a[1] = x
  BY <1>1
<1>3. PICK d : d = a \o c
  OBVIOUS
<1>4. /\ d \in Seq(T) /\ Len(d) = 1 + m
      /\ \A k \in 1..(1 + m) : d[k] = IF k <= 1 THEN a[k] ELSE c[k - 1]
  <2>1. /\ d \in Seq(T) /\ Len(d) = Len(a) + Len(c)
        /\ \A k \in 1..(Len(a) + Len(c)) : d[k] = IF k <= Len(a) THEN a[k] ELSE c[k - Len(a)]
    BY <1>2, <1>3, ConcatProperties
  <2> QED BY <1>2, <2>1
<1>5. d[1] = x
  <2>1. 1 \in 1..(1 + m)
    OBVIOUS
  <2> QED BY <1>2, <1>4, <2>1
<1>6. ASSUME NEW k \in 1..m PROVE d[k + 1] = c[k]
  <2>1. k + 1 \in 1..(1 + m) /\ ~(k + 1 <= 1) /\ (k + 1) - 1 = k
    OBVIOUS
  <2> QED BY <1>4, <2>1
<1>7. Len(d) = m + 1
  BY <1>4
<1> QED BY <1>1, <1>2, <1>3, <1>4, <1>5, <1>6, <1>7

\* What is emitted is sequences of items.
LEMMA EmittedTyped ==
  ASSUME NEW x, NEW o, NEW e, Emitted(x, o, e)
  PROVE  x \in Item /\ e \in Seq(Item)
<1>1. CASE x \in PunctItem /\ e = <<>>
  BY <1>1, EmptySeq DEF Item
<1>2. CASE \E t \in DOMAIN Terms : x = Printed(t) /\ (e = <<>> \/ e = Arguments(Terms[t].args))
  <2>1. PICK t \in DOMAIN Terms : x = Printed(t) /\ (e = <<>> \/ e = Arguments(Terms[t].args))
    BY <1>2
  <2>2. Arguments(Terms[t].args) \in Seq(Item)
    BY ArgsAreTerms, ArgumentsAre
  <2> QED BY <2>1, <2>2, EmptySeq DEF Item, TermItem
<1> QED BY <1>1, <1>2 DEF Emitted

\* In front of spaced items, arguments are spaced.
LEMMA ArgumentsSpaced ==
  ASSUME NEW p \in Seq(DOMAIN Terms), p # <<>>, NEW c, Spaced(c)
  PROVE  Spaced(Arguments(p) \o c)
<1>1. PICK s, l, r, w : s = ArgList(p) /\ l = Mark("(") /\ r = Mark(")") /\ w = Arguments(p)
  OBVIOUS
<1>2. c \in Seq(Item) /\ w \in Seq(Item) /\ s \in Seq(TermItem \cup {Mark(",")}) /\ w = Wrapped(l, s, r)
  BY <1>1, ArgumentsAre DEF Spaced
<1>3. /\ l \in Item /\ r \in Item /\ Mark(",") \in Item /\ r \notin TermItem
      /\ r # l /\ Mark(",") # l /\ l \notin TermItem
  <2>1. ")" # "(" /\ "," # "("
    OBVIOUS
  <2>2. {"(", ")", ","} \subseteq Punctuation
    BY DEF Punctuation
  <2>3. l \in PunctItem /\ r \in PunctItem /\ Mark(",") \in PunctItem
    BY <1>1, <2>2 DEF PunctItem
  <2>4. r \notin TermItem /\ l \notin TermItem
    BY <1>1, ItemsApart DEF TermItem
  <2>5. r # l /\ Mark(",") # l
    BY <1>1, <2>1, ItemsApart
  <2> QED BY <2>3, <2>4, <2>5 DEF Item
<1>4. s \in Seq(Item)
  <2>1. PICK S : S = TermItem \cup {Mark(",")}
    OBVIOUS
  <2>2. S \subseteq Item
    BY <1>3, <2>1 DEF Item
  <2>3. Seq(S) \subseteq Seq(Item)
    BY <2>2
  <2> QED BY <1>2, <2>1, <2>3
<1>5. PICK n, m \in Nat : n = Len(s) /\ m = Len(c)
  BY <1>2, LenProperties
<1>6. Len(w) = n + 2 /\ w[n + 2] = r /\ \A k \in 1..n : w[k + 1] = s[k]
  <2>1. Wraps(w, l, s, r, n)
    BY <1>2, <1>3, <1>4, <1>5, WrappedItems
  <2> QED BY <2>1 DEF Wraps
<1>7. PICK b : b = w \o c
  OBVIOUS
<1>8. /\ b \in Seq(Item) /\ Len(b) = (n + 2) + m
      /\ \A k \in 1..((n + 2) + m) : b[k] = IF k <= n + 2 THEN w[k] ELSE c[k - (n + 2)]
  <2>1. /\ b \in Seq(Item) /\ Len(b) = Len(w) + Len(c)
        /\ \A k \in 1..(Len(w) + Len(c)) : b[k] = IF k <= Len(w) THEN w[k] ELSE c[k - Len(w)]
    BY <1>2, <1>7, ConcatProperties
  <2> QED BY <1>5, <1>6, <2>1
<1>9. ASSUME NEW k \in 1..((n + 2) + m), k + 1 <= (n + 2) + m, b[k] \in TermItem
      PROVE  b[k + 1] # l
  <2>0. k + 1 \in 1..((n + 2) + m)
    BY <1>5, <1>9
  <2>1. CASE k <= n
    <3>1. k \in 1..n /\ k + 1 <= n + 2
      BY <1>5, <2>1
    <3>2. b[k + 1] = s[k]
      BY <1>6, <1>8, <2>0, <3>1
    <3>3. s[k] \in TermItem \cup {Mark(",")}
      BY <1>2, <1>5, <3>1, ElementOfSeq
    <3> QED BY <1>3, <3>2, <3>3
  <2>2. CASE k = n + 1
    <3>1. k + 1 = n + 2 /\ k + 1 <= n + 2
      BY <2>2, <1>5
    <3> QED BY <1>3, <1>6, <1>8, <2>0, <3>1
  <2>3. CASE k = n + 2
    <3>1. k <= n + 2
      BY <1>5, <2>3
    <3> QED BY <1>3, <1>6, <1>8, <1>9, <2>3, <3>1
  <2>4. CASE k > n + 2
    <3>1. PICK j \in Nat : /\ k = j + (n + 2) /\ j \in 1..m /\ j + 1 <= m
                           /\ ~(k <= n + 2) /\ ~(k + 1 <= n + 2)
      <4>1. k - (n + 2) \in Nat /\ k - (n + 2) \in 1..m /\ k = (k - (n + 2)) + (n + 2)
            /\ (k - (n + 2)) + 1 <= m /\ ~(k <= n + 2) /\ ~(k + 1 <= n + 2)
        BY <1>5, <1>9, <2>4
      <4> QED BY <4>1
    <3>2. k - (n + 2) = j /\ (k + 1) - (n + 2) = j + 1
      BY <1>5, <3>1
    <3>3. b[k] = c[j] /\ b[k + 1] = c[j + 1]
      BY <1>8, <2>0, <3>1, <3>2
    <3>4. c[j] \in TermItem => c[j + 1] # l
      BY <1>1, <1>5, <3>1 DEF Spaced
    <3> QED BY <1>9, <3>3, <3>4
  <2>5. k <= n \/ k = n + 1 \/ k = n + 2 \/ k > n + 2
    BY <1>5
  <2> QED BY <2>1, <2>2, <2>3, <2>4, <2>5
<1> QED BY <1>1, <1>7, <1>8, <1>9 DEF Spaced

\* Items stay spaced as they are printed.
LEMMA EmitsSpaced ==
  ASSUME NEW a, NEW o, NEW b, Spaced(a), Emits(a, o, b)
  PROVE  Spaced(b)
<1>1. PICK x \in Item, e \in Seq(Item), c \in Seq(Item) : a = <<x>> \o c /\ b = e \o c /\ Emitted(x, o, e)
  BY DEF Emits
<1>2. PICK m \in Nat : m = Len(c)
  BY LenProperties
<1>3. Spaced(c)
  <2>1. Len(a) = m + 1 /\ \A k \in 1..m : a[k + 1] = c[k]
    BY <1>1, <1>2, ConsIs
  <2>2. ASSUME NEW k \in 1..m, k + 1 <= m, c[k] \in TermItem PROVE c[k + 1] # Mark("(")
    <3>1. k + 1 \in 1..m /\ k + 1 \in 1..(m + 1) /\ (k + 1) + 1 <= m + 1
      BY <1>2, <2>2
    <3>2. a[k + 1] = c[k] /\ a[(k + 1) + 1] = c[k + 1]
      BY <2>1, <3>1
    <3> QED BY <2>1, <2>2, <3>1, <3>2 DEF Spaced
  <2> QED BY <1>2, <2>2 DEF Spaced
<1>4. CASE e = <<>>
  BY <1>1, <1>3, <1>4, ConcatEmptySeq
<1>5. CASE e # <<>>
  <2>1. PICK t \in DOMAIN Terms : e = Arguments(Terms[t].args)
    BY <1>1, <1>5 DEF Emitted
  <2>2. Terms[t].args \in Seq(DOMAIN Terms) /\ Terms[t].args # <<>>
    BY <1>5, <2>1, ArgsAreTerms, ArgumentsAre
  <2> QED BY <1>1, <1>3, <2>1, <2>2, ArgumentsSpaced
<1> QED BY <1>4, <1>5

-----------------------------------------------------------------------------
(* One step of printing: from what is printed to what was read              *)

\* Two that are printed alike: the same mark, or a variable and what it is renamed to.
Alike(rho, o, u) ==
  \/ \E m : o = Mark(m) /\ u = Mark(m)
  \/ \E v \in DOMAIN rho : o = Printed(v) /\ u = Printed(rho[v])

\* Arguments begin with a parenthesis that no term has after it otherwise.
LEMMA NoOpening ==
  ASSUME NEW rho, NEW t \in DOMAIN Terms, NEW a \in Seq(Item), Spaced(<<Printed(t)>> \o a),
         NEW p \in Seq(DOMAIN Terms), p # <<>>, NEW b \in Seq(Item)
  PROVE  /\ ~Pairwise(Like(rho), a, Arguments(p) \o b)
         /\ ~Pairwise(Like(rho), Arguments(p) \o b, a)
<1>1. PICK l, r, s, w, x : /\ l = Mark("(") /\ r = Mark(")") /\ s = ArgList(p) /\ w = Arguments(p)
                           /\ x = Printed(t)
  OBVIOUS
<1>2. PICK n, m, j \in Nat : /\ n = Len(s) /\ m = Len(a) /\ j = Len(b)
                             /\ w \in Seq(Item) /\ Len(w) = n + 2 /\ w[1] = l
  <2>1. w \in Seq(Item) /\ w = Wrapped(l, s, r) /\ s \in Seq(TermItem \cup {Mark(",")})
    BY <1>1, ArgumentsAre
  <2>2. l \in Item /\ r \in Item /\ TermItem \cup {Mark(",")} \subseteq Item
    BY <1>1 DEF Item, PunctItem, Punctuation
  <2>3. PICK S : S = TermItem \cup {Mark(",")}
    OBVIOUS
  <2>4. Seq(S) \subseteq Seq(Item)
    <3>1. S \subseteq Item
      BY <2>2, <2>3
    <3> QED BY <3>1
  <2>5. s \in Seq(Item)
    BY <2>1, <2>3, <2>4
  <2>6. PICK n, m, j \in Nat : n = Len(s) /\ m = Len(a) /\ j = Len(b)
    BY <2>5, LenProperties
  <2>7. Wraps(w, l, s, r, n)
    BY <2>1, <2>2, <2>5, <2>6, WrappedItems
  <2> QED BY <2>6, <2>7 DEF Wraps
<1>3. PICK c : c = w \o b
  OBVIOUS
<1>4. Len(c) = (n + 2) + j /\ c[1] = l
  <2>1. /\ Len(c) = Len(w) + Len(b)
        /\ \A k \in 1..(Len(w) + Len(b)) : c[k] = IF k <= Len(w) THEN w[k] ELSE b[k - Len(w)]
    BY <1>2, <1>3, ConcatProperties
  <2>2. 1 \in 1..((n + 2) + j) /\ 1 <= n + 2
    BY <1>2
  <2> QED BY <1>2, <2>1, <2>2
<1>5. m # 0 => a[1] # l
  <2>1. PICK d : d = <<x>> \o a
    OBVIOUS
  <2>2. x \in Item /\ x \in TermItem
    BY <1>1 DEF Item, TermItem
  <2>3. Len(d) = m + 1 /\ d[1] = x /\ \A k \in 1..m : d[k + 1] = a[k]
    BY <1>2, <2>1, <2>2, ConsIs
  <2>4. m # 0 => 1 \in 1..m /\ 1 \in 1..(m + 1) /\ 1 + 1 <= m + 1
    BY <1>2
  <2>5. Spaced(d)
    BY <1>1, <2>1
  <2>6. m # 0 => d[1 + 1] # l
    BY <1>1, <2>2, <2>3, <2>4, <2>5 DEF Spaced
  <2> QED BY <2>3, <2>4, <2>6
<1>6. Apart(Like(rho), l)
  <2>1. "(" \in Punctuation
    BY DEF Punctuation
  <2> QED BY <1>1, <2>1, LikeIs
<1>7. ASSUME m = (n + 2) + j, <<a[1], c[1]>> \in Like(rho) \/ <<c[1], a[1]>> \in Like(rho) PROVE FALSE
  <2>1. m # 0
    BY <1>2, <1>7
  <2> QED BY <1>4, <1>5, <1>6, <1>7, <2>1 DEF Apart
<1>8. m = (n + 2) + j => 1 \in 1..m
  BY <1>2
<1> QED BY <1>1, <1>2, <1>3, <1>4, <1>7, <1>8 DEF Pairwise

\* If what comes after the names of two applications reads the same, they have like arguments.
LEMMA ApplicationBack ==
  ASSUME NEW rho, NEW s \in DOMAIN Terms, NEW t \in DOMAIN Terms, NEW a \in Seq(Item), NEW b \in Seq(Item),
         Spaced(<<Printed(s)>> \o a), Spaced(<<Printed(t)>> \o b),
         NEW p \in Seq(DOMAIN Terms), NEW q \in Seq(DOMAIN Terms),
         Pairwise(Like(rho), Arguments(p) \o a, Arguments(q) \o b)
  PROVE  /\ Len(p) = Len(q) /\ \A k \in 1..Len(p) : SameUnder(rho, p[k], q[k])
         /\ Pairwise(Like(rho), a, b)
<1>1. \A c \in Seq(Item) : Arguments(<<>>) \o c = c
  BY ArgumentsAre, ConcatEmptySeq
<1>2. CASE p = <<>> /\ q = <<>>
  <2>1. Pairwise(Like(rho), a, b)
    BY <1>1, <1>2
  <2>2. Len(p) = Len(q) /\ Len(p) = 0
    BY <1>2
  <2> QED BY <2>1, <2>2
<1>3. CASE p = <<>> /\ q # <<>>
  <2>1. Pairwise(Like(rho), a, Arguments(q) \o b)
    BY <1>1, <1>3
  <2> QED BY <1>3, <2>1, NoOpening
<1>4. CASE p # <<>> /\ q = <<>>
  <2>1. Pairwise(Like(rho), Arguments(p) \o a, b)
    BY <1>1, <1>4
  <2> QED BY <1>4, <2>1, NoOpening
<1>5. CASE p # <<>> /\ q # <<>>
  <2>1. Len(Arguments(p)) = Len(Arguments(q))
    BY <1>5, ArgumentsLength
  <2>2. Arguments(p) \in Seq(Item) /\ Arguments(q) \in Seq(Item)
    BY ArgumentsAre
  <2>3. Pairwise(Like(rho), Arguments(p), Arguments(q)) /\ Pairwise(Like(rho), a, b)
    BY <2>1, <2>2, PairwiseConcat
  <2> QED BY <1>5, <2>3, ArgumentsPair
<1> QED BY <1>2, <1>3, <1>4, <1>5

\* A renaming is of variables, into variables, and no two become one.
LEMMA RenamingIs ==
  ASSUME NEW rho \in Renamings
  PROVE  /\ \A v \in DOMAIN rho : /\ v \in DOMAIN Terms /\ IsVariable(v)
                                  /\ rho[v] \in DOMAIN Terms /\ IsVariable(rho[v])
         /\ \A v, w \in DOMAIN rho : rho[v] = rho[w] => v = w
<1>1. PICK S \in SUBSET Variables : rho \in [S -> Variables]
  BY DEF Renamings
<1> QED BY <1>1 DEF Renamings, Variables

\* What one step prints, case by case.
LEMMA EmittedCases ==
  ASSUME NEW x, NEW o, NEW e, Emitted(x, o, e)
  PROVE  \/ \E m \in Punctuation : x = Mark(m) /\ o = Mark(m) /\ e = <<>>
         \/ \E t \in DOMAIN Terms : IsVariable(t) /\ x = Printed(t) /\ o = Printed(t) /\ e = <<>>
         \/ \E t \in DOMAIN Terms : ~IsVariable(t) /\ x = Printed(t) /\ o = Mark(getName(t))
                                    /\ e = Arguments(Terms[t].args)
BY DEF Emitted, PunctItem

\* A name tells the symbol, and is no punctuation.
LEMMA NamesTell ==
  ASSUME NEW s \in DOMAIN Terms
  PROVE  /\ getName(s) \notin Punctuation
         /\ \A t \in DOMAIN Terms : getName(s) = getName(t) <=> Terms[s].symbol = Terms[t].symbol
<1>1. \A t \in DOMAIN Terms : Terms[t].symbol \in DOMAIN Symbols
  BY ArgsAreTerms
<1>2. \A i, j \in DOMAIN Symbols : Symbols[i].name = Symbols[j].name => i = j
  BY LinesPrintable
<1>3. \A i \in DOMAIN Symbols : Symbols[i].name \notin Punctuation
  BY LinesPrintable
<1> QED BY <1>1, <1>2, <1>3 DEF getName

\* From what is printed alike and a like rest, like items are read.
LEMMA HeadsBack ==
  ASSUME NEW rho \in Renamings, NEW x, NEW o, NEW e, NEW y, NEW u, NEW f,
         Emitted(x, o, e), Emitted(y, u, f), Alike(rho, o, u),
         NEW a \in Seq(Item), NEW b \in Seq(Item), Spaced(<<x>> \o a), Spaced(<<y>> \o b),
         Pairwise(Like(rho), e \o a, f \o b)
  PROVE  <<x, y>> \in Like(rho) /\ Pairwise(Like(rho), a, b)
<1>0. \A c \in Seq(Item) : <<>> \o c = c
  BY ConcatEmptySeq
<1>1. CASE \E m \in Punctuation : x = Mark(m) /\ o = Mark(m) /\ e = <<>>
  <2>1. PICK m \in Punctuation : x = Mark(m) /\ o = Mark(m) /\ e = <<>>
    BY <1>1
  <2>2. u = Mark(m)
    BY <2>1, ItemsApart DEF Alike
  <2>3. y = Mark(m) /\ f = <<>>
    <3>1. \A t \in DOMAIN Terms : u # Printed(t) /\ u # Mark(getName(t))
      BY <2>2, ItemsApart, NamesTell
    <3>2. PICK n \in Punctuation : y = Mark(n) /\ u = Mark(n) /\ f = <<>>
      BY <3>1, EmittedCases
    <3> QED BY <2>2, <3>2
  <2>4. <<x, y>> \in Like(rho)
    BY <2>1, <2>3, LikeIs DEF Apart
  <2> QED BY <1>0, <2>1, <2>3, <2>4
<1>2. CASE \E s \in DOMAIN Terms : IsVariable(s) /\ x = Printed(s) /\ o = Printed(s) /\ e = <<>>
  <2>1. PICK s \in DOMAIN Terms : IsVariable(s) /\ x = Printed(s) /\ o = Printed(s) /\ e = <<>>
    BY <1>2
  <2>2. s \in DOMAIN rho /\ u = Printed(rho[s])
    BY <2>1, ItemsApart DEF Alike
  <2>3. y = Printed(rho[s]) /\ f = <<>> /\ rho[s] \in DOMAIN Terms
    <3>1. \A m : u # Mark(m)
      BY <2>2, ItemsApart
    <3>2. PICK t \in DOMAIN Terms : y = Printed(t) /\ u = Printed(t) /\ f = <<>>
      BY <3>1, EmittedCases
    <3> QED BY <2>2, <3>2, ItemsApart
  <2>4. SameUnder(rho, s, rho[s])
    BY <2>1, <2>2, <2>3, SameUnderIs
  <2>5. <<x, y>> \in Like(rho)
    BY <2>1, <2>3, <2>4, LikeIs
  <2> QED BY <1>0, <2>1, <2>3, <2>5
<1>3. CASE \E s \in DOMAIN Terms : ~IsVariable(s) /\ x = Printed(s) /\ o = Mark(getName(s))
                                   /\ e = Arguments(Terms[s].args)
  <2>1. PICK s \in DOMAIN Terms : /\ ~IsVariable(s) /\ x = Printed(s) /\ o = Mark(getName(s))
                                  /\ e = Arguments(Terms[s].args)
    BY <1>3
  <2>2. u = Mark(getName(s))
    BY <2>1, ItemsApart DEF Alike
  <2>3. PICK t \in DOMAIN Terms : /\ ~IsVariable(t) /\ y = Printed(t) /\ u = Mark(getName(t))
                                  /\ f = Arguments(Terms[t].args)
    <3>1. \A t \in DOMAIN Terms : u # Printed(t)
      BY <2>2, ItemsApart
    <3>2. \A m \in Punctuation : u # Mark(m)
      BY <2>2, ItemsApart, NamesTell
    <3> QED BY <3>1, <3>2, EmittedCases
  <2>4. Terms[s].symbol = Terms[t].symbol
    <3>1. Mark(getName(s)) = Mark(getName(t))
      BY <2>2, <2>3
    <3>2. getName(s) = getName(t)
      BY <3>1, ItemsApart
    <3> QED BY <3>2, NamesTell
  <2>5. PICK p, q \in Seq(DOMAIN Terms) : p = Terms[s].args /\ q = Terms[t].args
    BY ArgsAreTerms
  <2>6. /\ Len(p) = Len(q) /\ \A k \in 1..Len(p) : SameUnder(rho, p[k], q[k])
        /\ Pairwise(Like(rho), a, b)
    <3>1. Spaced(<<Printed(s)>> \o a) /\ Spaced(<<Printed(t)>> \o b)
      BY <2>1, <2>3
    <3>2. Pairwise(Like(rho), Arguments(p) \o a, Arguments(q) \o b)
      BY <2>1, <2>3, <2>5
    <3> QED BY <3>1, <3>2, ApplicationBack
  <2>7. SameUnder(rho, s, t)
    <3>1. DOMAIN p = 1..Len(p)
      BY LenProperties
    <3> QED BY <2>1, <2>3, <2>4, <2>5, <2>6, <3>1, SameUnderIs
  <2>8. <<x, y>> \in Like(rho)
    BY <2>1, <2>3, <2>7, LikeIs
  <2> QED BY <2>6, <2>8
<1> QED BY <1>1, <1>2, <1>3, EmittedCases

\* A step back: where what was printed is alike and the rest is, the items were.
LEMMA StepBack ==
  ASSUME NEW rho \in Renamings, NEW a, NEW b, NEW o, NEW u, NEW c, NEW d, Spaced(a), Spaced(b),
         Emits(a, o, c), Emits(b, u, d), Alike(rho, o, u), Pairwise(Like(rho), c, d)
  PROVE  Pairwise(Like(rho), a, b)
<1>1. PICK x \in Item, e \in Seq(Item), h \in Seq(Item) : a = <<x>> \o h /\ c = e \o h /\ Emitted(x, o, e)
  BY DEF Emits
<1>2. PICK y \in Item, f \in Seq(Item), g \in Seq(Item) : b = <<y>> \o g /\ d = f \o g /\ Emitted(y, u, f)
  BY DEF Emits
<1>3. <<x, y>> \in Like(rho) /\ Pairwise(Like(rho), h, g)
  BY <1>1, <1>2, HeadsBack
<1>4. PICK v, w : v = <<x>> /\ w = <<y>>
  OBVIOUS
<1>5. v \in Seq(Item) /\ w \in Seq(Item) /\ Len(v) = Len(w)
  BY <1>4
<1>6. Pairwise(Like(rho), v, w)
  BY <1>3, <1>4, PairwiseOne
<1>7. Pairwise(Like(rho), v \o h, w \o g)
  BY <1>3, <1>5, <1>6, PairwiseConcat
<1> QED BY <1>1, <1>2, <1>4, <1>7

-----------------------------------------------------------------------------
(* One step of printing: from what is read to what is printed               *)

\* Like items are printed alike, and what comes in their place is like.
LEMMA HeadsForth ==
  ASSUME NEW rho \in Renamings, NEW x, NEW o, NEW e, NEW y, NEW u, NEW f,
         Emitted(x, o, e), Emitted(y, u, f), <<x, y>> \in Like(rho)
  PROVE  Alike(rho, o, u) /\ Pairwise(Like(rho), e, f)
<1>0. Pairwise(Like(rho), <<>>, <<>>)
  <2>1. Len(<<>>) = 0 /\ 1..0 = {}
    OBVIOUS
  <2> QED BY <2>1 DEF Pairwise
<1>1. CASE x \in PunctItem /\ y = x
  <2>1. PICK m \in Punctuation : x = Mark(m) /\ y = Mark(m)
    BY <1>1 DEF PunctItem
  <2>2. \A t : x # Printed(t) /\ y # Printed(t)
    BY <2>1, ItemsApart
  <2>3. o = Mark(m) /\ e = <<>>
    BY <2>1, <2>2, EmittedCases
  <2>4. u = Mark(m) /\ f = <<>>
    BY <2>1, <2>2, EmittedCases
  <2> QED BY <1>0, <2>3, <2>4 DEF Alike
<1>2. CASE \E s, t \in DOMAIN Terms : x = Printed(s) /\ y = Printed(t) /\ SameUnder(rho, s, t)
  <2>1. PICK s, t \in DOMAIN Terms : x = Printed(s) /\ y = Printed(t) /\ SameUnder(rho, s, t)
    BY <1>2
  <2>2. /\ x \notin PunctItem /\ y \notin PunctItem
        /\ \A i : (x = Printed(i) <=> i = s) /\ (y = Printed(i) <=> i = t)
    BY <2>1, ItemsApart DEF PunctItem
  <2>3. IF IsVariable(s) THEN o = x /\ e = <<>> ELSE o = Mark(getName(s)) /\ e = Arguments(Terms[s].args)
    BY <2>2 DEF Emitted
  <2>4. IF IsVariable(t) THEN u = y /\ f = <<>> ELSE u = Mark(getName(t)) /\ f = Arguments(Terms[t].args)
    BY <2>2 DEF Emitted
  <2>5. CASE IsVariable(s)
    <3>1. s \in DOMAIN rho /\ rho[s] = t
      BY <2>1, <2>5, SameUnderIs
    <3>2. IsVariable(t)
      BY <3>1, RenamingIs
    <3> QED BY <1>0, <2>1, <2>3, <2>4, <2>5, <3>1, <3>2 DEF Alike
  <2>6. CASE ~IsVariable(s)
    <3>1. PICK p, q \in Seq(DOMAIN Terms) : p = Terms[s].args /\ q = Terms[t].args
      BY ArgsAreTerms
    <3>2. DOMAIN p = 1..Len(p)
      BY LenProperties
    <3>3. /\ ~IsVariable(t) /\ Terms[s].symbol = Terms[t].symbol /\ Len(p) = Len(q)
          /\ \A k \in 1..Len(p) : SameUnder(rho, p[k], q[k])
      <4>1. /\ ~IsVariable(t) /\ Terms[s].symbol = Terms[t].symbol
            /\ Len(Terms[s].args) = Len(Terms[t].args)
            /\ \A k \in DOMAIN Terms[s].args : SameUnder(rho, Terms[s].args[k], Terms[t].args[k])
        BY <2>1, <2>6, SameUnderIs
      <4> QED BY <3>1, <3>2, <4>1
    <3>4. o = Mark(getName(s)) /\ u = Mark(getName(s)) /\ e = Arguments(p) /\ f = Arguments(q)
      BY <2>3, <2>4, <2>6, <3>1, <3>3 DEF getName
    <3>5. Pairwise(Like(rho), e, f)
      <4>1. CASE p = <<>>
        <5>1. q = <<>>
          BY <3>3, <4>1, EmptySeq
        <5>2. e = <<>> /\ f = <<>>
          BY <3>4, <4>1, <5>1, ArgumentsAre
        <5> QED BY <1>0, <5>2
      <4>2. CASE p # <<>>
        <5>1. q # <<>>
          BY <3>3, <4>2, EmptySeq
        <5> QED BY <3>3, <3>4, <4>2, <5>1, ArgumentsPair
      <4> QED BY <4>1, <4>2
    <3> QED BY <3>4, <3>5 DEF Alike
  <2> QED BY <2>5, <2>6
<1>3. \/ x \in PunctItem /\ y = x
      \/ \E s, t \in DOMAIN Terms : x = Printed(s) /\ y = Printed(t) /\ SameUnder(rho, s, t)
  BY LikeIs
<1> QED BY <1>1, <1>2, <1>3

\* A step forth: of like items, what is printed is alike and the rest is.
LEMMA StepForth ==
  ASSUME NEW rho \in Renamings, NEW a, NEW b, NEW o, NEW u, NEW c, NEW d,
         Emits(a, o, c), Emits(b, u, d), Pairwise(Like(rho), a, b)
  PROVE  Alike(rho, o, u) /\ Pairwise(Like(rho), c, d)
<1>1. PICK x \in Item, e \in Seq(Item), h \in Seq(Item) : a = <<x>> \o h /\ c = e \o h /\ Emitted(x, o, e)
  BY DEF Emits
<1>2. PICK y \in Item, f \in Seq(Item), g \in Seq(Item) : b = <<y>> \o g /\ d = f \o g /\ Emitted(y, u, f)
  BY DEF Emits
<1>3. PICK v, w : v = <<x>> /\ w = <<y>>
  OBVIOUS
<1>4. v \in Seq(Item) /\ w \in Seq(Item) /\ Len(v) = Len(w)
  BY <1>3
<1>5. Pairwise(Like(rho), v, w) /\ Pairwise(Like(rho), h, g)
  <2>1. Pairwise(Like(rho), v \o h, w \o g)
    BY <1>1, <1>2, <1>3
  <2> QED BY <1>4, <2>1, PairwiseConcat
<1>6. <<x, y>> \in Like(rho)
  BY <1>3, <1>5, PairwiseOne
<1>7. Alike(rho, o, u) /\ Pairwise(Like(rho), e, f)
  BY <1>1, <1>2, <1>6, HeadsForth
<1>8. Pairwise(Like(rho), e \o h, f \o g)
  <2>1. Len(e) = Len(f)
    BY <1>7 DEF Pairwise
  <2> QED BY <1>5, <1>7, <2>1, PairwiseConcat
<1> QED BY <1>1, <1>2, <1>7, <1>8

-----------------------------------------------------------------------------
(* What has been printed                                                    *)

\* h has the items that were left before each element of read was printed, and after.
Prints(h, read, n) ==
  /\ n \in Nat /\ h[0] \in Seq(Item)
  /\ \A k \in 1..n : h[k] \in Seq(Item) /\ Emits(h[k - 1], read[k], h[k])

\* Items stay spaced.
LEMMA PrintsSpaced ==
  ASSUME NEW h, NEW read, NEW n, Prints(h, read, n), Spaced(h[0])
  PROVE  \A k \in 0..n : Spaced(h[k])
<1> DEFINE Bad == {k \in 0..n : ~Spaced(h[k])}
<1>1. ASSUME Bad # {} PROVE FALSE
  <2>1. PICK k \in Bad : \A l \in Bad : k <= l
    <3>1. Bad \in SUBSET Nat
      BY DEF Prints
    <3> QED BY <1>1, <3>1, LeastNatural
  <2>2. k \in 0..n /\ ~Spaced(h[k]) /\ k # 0 /\ n \in Nat
    BY DEF Prints
  <2>3. k - 1 \in 0..n /\ k \in 1..n /\ ~(k <= k - 1)
    BY <2>2
  <2>4. Spaced(h[k - 1])
    BY <2>1, <2>3
  <2>5. Emits(h[k - 1], read[k], h[k])
    BY <2>3 DEF Prints
  <2> HIDE DEF Bad
  <2> QED BY <2>2, <2>4, <2>5, EmitsSpaced
<1> QED BY <1>1

\* Two texts that are alike to their ends were of like items.
LEMMA PrintsBack ==
  ASSUME NEW rho \in Renamings, NEW h, NEW read, NEW g, NEW said, NEW n,
         Prints(h, read, n), Prints(g, said, n), Spaced(h[0]), Spaced(g[0]), h[n] = <<>>, g[n] = <<>>,
         \A k \in 1..n : Alike(rho, read[k], said[k])
  PROVE  Pairwise(Like(rho), h[0], g[0])
<1> DEFINE Bad == {j \in 0..n : ~Pairwise(Like(rho), h[n - j], g[n - j])}
<1>0. n \in Nat
  BY DEF Prints
<1>1. ASSUME Bad # {} PROVE FALSE
  <2>1. PICK j \in Bad : \A l \in Bad : j <= l
    <3>1. Bad \in SUBSET Nat
      BY <1>0
    <3> QED BY <1>1, <3>1, LeastNatural
  <2>2. j \in 0..n /\ ~Pairwise(Like(rho), h[n - j], g[n - j])
    OBVIOUS
  <2>3. j # 0
    <3>1. Pairwise(Like(rho), <<>>, <<>>)
      <4>1. Len(<<>>) = 0 /\ 1..0 = {}
        OBVIOUS
      <4> QED BY <4>1 DEF Pairwise
    <3>2. n - 0 = n
      BY <1>0
    <3> QED BY <2>2, <3>1, <3>2
  <2>4. PICK k \in Nat : k = n - (j - 1) /\ k - 1 = n - j /\ k \in 1..n /\ k - 1 \in 0..n /\ k \in 0..n
    <3>1. /\ n - (j - 1) \in Nat /\ (n - (j - 1)) - 1 = n - j /\ n - (j - 1) \in 1..n
          /\ n - (j - 1) \in 0..n /\ n - j \in 0..n
      BY <1>0, <2>2, <2>3
    <3> QED BY <3>1
  <2>5. j - 1 \in 0..n /\ ~(j <= j - 1)
    BY <1>0, <2>2, <2>3
  <2>6. Pairwise(Like(rho), h[k], g[k])
    BY <2>1, <2>4, <2>5
  <2>7. Emits(h[k - 1], read[k], h[k]) /\ Emits(g[k - 1], said[k], g[k]) /\ Alike(rho, read[k], said[k])
    BY <2>4 DEF Prints
  <2>8. Spaced(h[k - 1]) /\ Spaced(g[k - 1])
    BY <2>4, PrintsSpaced
  <2>9. Pairwise(Like(rho), h[k - 1], g[k - 1])
    BY <2>6, <2>7, <2>8, StepBack
  <2> QED BY <2>2, <2>4, <2>9
<1>2. n \in 0..n /\ n - n = 0
  BY <1>0
<1> HIDE DEF Bad
<1>3. n \notin Bad
  BY <1>1
<1> QED BY <1>2, <1>3 DEF Bad

\* Where something is printed, an item was left.
LEMMA EmitsSome ==
  ASSUME NEW a, NEW o, NEW b, Emits(a, o, b)
  PROVE  Len(a) # 0
<1>1. PICK x \in Item, c \in Seq(Item) : a = <<x>> \o c
  BY DEF Emits
<1>2. PICK m \in Nat : m = Len(c)
  BY LenProperties
<1>3. Len(<<x>> \o c) = m + 1
  BY <1>2, ConsIs
<1> QED BY <1>1, <1>2, <1>3

\* From like items, what is left stays like as long as both print.
LEMMA PrintsAlong ==
  ASSUME NEW rho \in Renamings, NEW h, NEW read, NEW g, NEW said, NEW n, NEW m,
         Prints(h, read, n), Prints(g, said, m), Pairwise(Like(rho), h[0], g[0])
  PROVE  \A k \in 0..n : k <= m => Pairwise(Like(rho), h[k], g[k])
<1> DEFINE Bad == {k \in 0..n : k <= m /\ ~Pairwise(Like(rho), h[k], g[k])}
<1>0. n \in Nat /\ m \in Nat
  BY DEF Prints
<1>1. ASSUME Bad # {} PROVE FALSE
  <2>1. PICK k \in Bad : \A l \in Bad : k <= l
    <3>1. Bad \in SUBSET Nat
      BY <1>0
    <3> QED BY <1>1, <3>1, LeastNatural
  <2>2. k \in 0..n /\ k <= m /\ ~Pairwise(Like(rho), h[k], g[k]) /\ k # 0
    OBVIOUS
  <2>3. k - 1 \in 0..n /\ k \in 1..n /\ ~(k <= k - 1) /\ k - 1 <= m /\ k \in 1..m
    BY <1>0, <2>2
  <2>4. Pairwise(Like(rho), h[k - 1], g[k - 1])
    BY <2>1, <2>3
  <2>5. Emits(h[k - 1], read[k], h[k]) /\ Emits(g[k - 1], said[k], g[k])
    BY <2>3 DEF Prints
  <2> HIDE DEF Bad
  <2> QED BY <2>2, <2>4, <2>5, StepForth
<1> QED BY <1>1

\* Like items that are printed to the end give texts that are alike.
LEMMA PrintsForth ==
  ASSUME NEW rho \in Renamings, NEW h, NEW read, NEW g, NEW said, NEW n, NEW m,
         Prints(h, read, n), Prints(g, said, m), h[n] = <<>>, g[m] = <<>>,
         Pairwise(Like(rho), h[0], g[0])
  PROVE  n = m /\ \A k \in 1..n : Alike(rho, read[k], said[k])
<1>0. n \in Nat /\ m \in Nat /\ Len(<<>>) = 0
  BY DEF Prints
<1>1. ASSUME n < m PROVE FALSE
  <2>1. n \in 0..n /\ n <= m /\ n + 1 \in 1..m /\ (n + 1) - 1 = n
    BY <1>0, <1>1
  <2>2. Pairwise(Like(rho), h[n], g[n])
    BY <2>1, PrintsAlong
  <2>3. Len(g[n]) = 0
    BY <1>0, <2>2 DEF Pairwise
  <2>4. Emits(g[n], said[n + 1], g[n + 1])
    BY <2>1 DEF Prints
  <2> QED BY <2>3, <2>4, EmitsSome
<1>2. ASSUME m < n PROVE FALSE
  <2>1. m \in 0..n /\ m <= m /\ m + 1 \in 1..n /\ (m + 1) - 1 = m
    BY <1>0, <1>2
  <2>2. Pairwise(Like(rho), h[m], g[m])
    BY <2>1, PrintsAlong
  <2>3. Len(h[m]) = 0
    BY <1>0, <2>2 DEF Pairwise
  <2>4. Emits(h[m], read[m + 1], h[m + 1])
    BY <2>1 DEF Prints
  <2> QED BY <2>3, <2>4, EmitsSome
<1>3. n = m
  BY <1>0, <1>1, <1>2
<1>4. ASSUME NEW k \in 1..n PROVE Alike(rho, read[k], said[k])
  <2>1. k - 1 \in 0..n /\ k - 1 <= m /\ k \in 1..m
    BY <1>0, <1>3
  <2>2. Pairwise(Like(rho), h[k - 1], g[k - 1])
    BY <2>1, PrintsAlong
  <2>3. Emits(h[k - 1], read[k], h[k]) /\ Emits(g[k - 1], said[k], g[k])
    BY <2>1 DEF Prints
  <2> QED BY <2>2, <2>3, StepForth
<1> QED BY <1>3, <1>4

-----------------------------------------------------------------------------
(* The items of a clause                                                    *)

\* What a clause is printed from: its marks, and its atoms.
ClauseItem == TermItem \cup {Mark("not"), Mark("or")}

\* The items of its literals.
ClauseItems(c) == [k \in DOMAIN c |-> LiteralItems(c[k])]

\* A literal is a piece, with a sign or none.
LEMMA LiteralItemsAre ==
  ASSUME NEW l \in Literal
  PROVE  /\ LiteralItems(l) \in Piece(TermItem, Mark("not"))
         /\ LiteralItems(l) = IF l.is_positive THEN <<Printed(l.atom)>>
                              ELSE <<Mark("not"), Printed(l.atom)>>
         /\ l.atom \in DOMAIN Terms /\ l.is_positive \in BOOLEAN
<1>1. l.atom \in DOMAIN Terms /\ l.is_positive \in BOOLEAN
  BY DEF Literal
<1>2. PICK x \in TermItem : x = Printed(l.atom)
  BY <1>1 DEF TermItem
<1>3. PICK m : m = Mark("not")
  OBVIOUS
<1>4. <<>> \o <<x>> = <<x>> /\ <<m>> \o <<x>> = <<m, x>>
  <2>1. PICK T : T = {m, x}
    OBVIOUS
  <2>2. <<x>> \in Seq(T) /\ <<m>> \in Seq(T) /\ <<m, x>> \in Seq(T)
    BY <2>1
  <2>3. <<>> \o <<x>> = <<x>>
    BY <2>2, ConcatEmptySeq
  <2>4. <<m>> \o <<x>> = <<m, x>>
    <3>1. PICK a, b : a = <<m>> \o <<x>> /\ b = <<m, x>>
      OBVIOUS
    <3>2. Len(<<x>>) = 1 /\ <<x>>[1] = x /\ 1 \in 1..1 /\ 1 + 1 = 2 /\ 1..2 = {1, 2}
      OBVIOUS
    <3>3. a \in Seq(T) /\ Len(a) = 2 /\ a[1] = m /\ a[2] = x
      BY <2>1, <2>2, <3>1, <3>2, ConsIs
    <3>4. b \in Seq(T) /\ Len(b) = 2 /\ b[1] = m /\ b[2] = x
      BY <2>2, <3>1
    <3> QED BY <3>1, <3>2, <3>3, <3>4, SeqEqual
  <2> QED BY <2>3, <2>4
<1>5. LiteralItems(l) = IF l.is_positive THEN <<x>> ELSE <<m, x>>
  BY <1>2, <1>3, <1>4 DEF LiteralItems
<1>6. <<x>> \in Piece(TermItem, m) /\ <<m, x>> \in Piece(TermItem, m)
  BY DEF Piece
<1>7. LiteralItems(l) \in Piece(TermItem, m)
  BY <1>5, <1>6
<1> QED BY <1>1, <1>2, <1>3, <1>5, <1>7

\* Two literals are of like items if their signs agree and their atoms are alike.
LEMMA LiteralsPair ==
  ASSUME NEW rho, NEW l \in Literal, NEW m \in Literal
  PROVE  Pairwise(Like(rho), LiteralItems(l), LiteralItems(m))
           <=> l.is_positive = m.is_positive /\ SameUnder(rho, l.atom, m.atom)
<1>1. PICK x, y, n : x = Printed(l.atom) /\ y = Printed(m.atom) /\ n = Mark("not")
  OBVIOUS
<1>2. /\ LiteralItems(l) = IF l.is_positive THEN <<x>> ELSE <<n, x>>
      /\ LiteralItems(m) = IF m.is_positive THEN <<y>> ELSE <<n, y>>
      /\ l.is_positive \in BOOLEAN /\ m.is_positive \in BOOLEAN
      /\ l.atom \in DOMAIN Terms /\ m.atom \in DOMAIN Terms
  BY <1>1, LiteralItemsAre
<1>3. <<x, y>> \in Like(rho) <=> SameUnder(rho, l.atom, m.atom)
  BY <1>1, <1>2, LikeIs
<1>4. <<n, n>> \in Like(rho)
  <2>1. "not" \in Punctuation
    BY DEF Punctuation
  <2> QED BY <1>1, <2>1, LikeIs DEF Apart
<1>5. /\ Pairwise(Like(rho), <<x>>, <<y>>) <=> <<x, y>> \in Like(rho)
      /\ Pairwise(Like(rho), <<n, x>>, <<n, y>>) <=> <<x, y>> \in Like(rho)
      /\ ~Pairwise(Like(rho), <<x>>, <<n, y>>) /\ ~Pairwise(Like(rho), <<n, x>>, <<y>>)
  <2>1. Len(<<x>>) = 1 /\ Len(<<y>>) = 1 /\ Len(<<n, x>>) = 2 /\ Len(<<n, y>>) = 2 /\ 1..2 = {1, 2}
    OBVIOUS
  <2>2. <<n, x>>[1] = n /\ <<n, x>>[2] = x /\ <<n, y>>[1] = n /\ <<n, y>>[2] = y
    OBVIOUS
  <2>3. Pairwise(Like(rho), <<n, x>>, <<n, y>>) <=> <<x, y>> \in Like(rho)
    <3>1. PICK a, b : a = <<n, x>> /\ b = <<n, y>>
      OBVIOUS
    <3> QED BY <1>4, <2>1, <2>2, <3>1 DEF Pairwise
  <2>4. ~Pairwise(Like(rho), <<x>>, <<n, y>>) /\ ~Pairwise(Like(rho), <<n, x>>, <<y>>)
    BY <2>1 DEF Pairwise
  <2> QED BY <2>3, <2>4, PairwiseOne
<1> QED BY <1>2, <1>3, <1>5

\* The literals of a clause are pieces.
LEMMA ClauseItemsAre ==
  ASSUME NEW c \in Seq(Literal)
  PROVE  /\ ClauseItems(c) \in Seq(Piece(TermItem, Mark("not"))) /\ Len(ClauseItems(c)) = Len(c)
         /\ \A k \in 1..Len(c) : ClauseItems(c)[k] = LiteralItems(c[k])
<1>1. PICK n \in Nat : n = Len(c) /\ DOMAIN c = 1..n /\ \A k \in 1..n : c[k] \in Literal
  BY LenProperties, ElementOfSeq
<1>2. PICK P : P = Piece(TermItem, Mark("not"))
  OBVIOUS
<1>3. \A k \in 1..n : LiteralItems(c[k]) \in P
  BY <1>1, <1>2, LiteralItemsAre
<1>4. ClauseItems(c) \in [1..n -> P]
  BY <1>1, <1>3 DEF ClauseItems
<1>5. ClauseItems(c) \in Seq(P) /\ Len(ClauseItems(c)) = n
  BY <1>1, <1>4
<1> QED BY <1>1, <1>2, <1>5 DEF ClauseItems

\* The text of a clause is of marks and atoms, or a box.
LEMMA ClauseTextTyped ==
  ASSUME NEW c \in Seq(Literal)
  PROVE  /\ c = <<>> => clauseToString(c) = <<Mark("box")>>
         /\ c # <<>> => /\ clauseToString(c) = Separated(ClauseItems(c), Mark("or"))
                        /\ clauseToString(c) \in Seq(ClauseItem)
<1>1. TermItem \in SUBSET ClauseItem /\ Mark("not") \in ClauseItem /\ Mark("or") \in ClauseItem
  BY DEF ClauseItem
<1>2. ClauseItems(c) \in Seq(Piece(TermItem, Mark("not")))
  BY ClauseItemsAre
<1>3. Ends(ClauseItem, ClauseItems(c), Mark("or"), Followed(ClauseItems(c), Mark("or")))
  BY <1>1, <1>2, FollowedEnds
<1> QED BY <1>3 DEF Ends, clauseToString, ClauseItems

\* In the text of a clause no parenthesis has been opened yet.
LEMMA ClauseSpaced ==
  ASSUME NEW c \in Seq(Literal)
  PROVE  Spaced(clauseToString(c)) /\ clauseToString(c) \in Seq(Item)
<1>1. CASE c = <<>>
  <2>1. PICK b : b = Mark("box") /\ b \in Item
    BY DEF Item, PunctItem, Punctuation
  <2>2. Spaced(<<b>>) /\ <<b>> \in Seq(Item)
    BY <2>1 DEF Spaced
  <2> QED BY <1>1, <2>1, <2>2, ClauseTextTyped
<1>2. CASE c # <<>>
  <2>1. PICK a, C : a = clauseToString(c) /\ C = ClauseItem
    OBVIOUS
  <2>2. a \in Seq(C)
    BY <1>2, <2>1, ClauseTextTyped
  <2>3. C \subseteq Item /\ Mark("(") \notin C
    <3>1. Mark("not") \in PunctItem /\ Mark("or") \in PunctItem
      BY DEF PunctItem, Punctuation
    <3>2. Mark("(") \notin TermItem /\ Mark("(") # Mark("not") /\ Mark("(") # Mark("or")
      BY ItemsApart DEF TermItem
    <3> QED BY <2>1, <3>1, <3>2 DEF ClauseItem, Item
  <2>4. a \in Seq(Item)
    BY <2>2, <2>3
  <2>5. PICK n \in Nat : n = Len(a) /\ \A k \in 1..n : a[k] \in C
    BY <2>2, LenProperties, ElementOfSeq
  <2>6. \A k \in 1..n : k + 1 <= n => a[k + 1] # Mark("(")
    <3>1. \A k \in 1..n : k + 1 <= n => k + 1 \in 1..n
      OBVIOUS
    <3> QED BY <2>3, <2>5, <3>1
  <2> QED BY <2>1, <2>4, <2>5, <2>6 DEF Spaced
<1> QED BY <1>1, <1>2

\* A box is like no clause that is not empty.
LEMMA BoxAlone ==
  ASSUME NEW rho, NEW c \in Seq(Literal), c # <<>>
  PROVE  /\ ~Pairwise(Like(rho), <<Mark("box")>>, clauseToString(c))
         /\ ~Pairwise(Like(rho), clauseToString(c), <<Mark("box")>>)
<1>1. PICK a, b, C : a = clauseToString(c) /\ b = Mark("box") /\ C = ClauseItem
  OBVIOUS
<1>2. a \in Seq(C)
  BY <1>1, ClauseTextTyped
<1>3. b \notin C
  BY <1>1, ItemsApart DEF ClauseItem, TermItem
<1>4. Apart(Like(rho), b)
  <2>1. "box" \in Punctuation
    BY DEF Punctuation
  <2> QED BY <1>1, <2>1, LikeIs
<1>5. Len(<<b>>) = 1 /\ <<b>>[1] = b /\ 1 \in 1..1
  OBVIOUS
<1>6. ASSUME Len(a) = 1, <<b, a[1]>> \in Like(rho) \/ <<a[1], b>> \in Like(rho) PROVE FALSE
  <2>1. a[1] \in C
    <3>1. 1 \in 1..Len(a)
      BY <1>6
    <3> QED BY <1>2, <3>1, ElementOfSeq
  <2> QED BY <1>3, <1>4, <1>6, <2>1 DEF Apart
<1> QED BY <1>1, <1>5, <1>6 DEF Pairwise

\* Two clauses are the same up to the renaming.
ClausesLike(rho, c, d) ==
  /\ Len(c) = Len(d)
  /\ \A k \in DOMAIN c : /\ c[k].is_positive = d[k].is_positive
                         /\ SameUnder(rho, c[k].atom, d[k].atom)

\* They are if and only if they are printed from like items.
LEMMA ClausesPair ==
  ASSUME NEW rho, NEW c \in Seq(Literal), NEW d \in Seq(Literal)
  PROVE  Pairwise(Like(rho), clauseToString(c), clauseToString(d)) <=> ClausesLike(rho, c, d)
<1>1. PICK n, m \in Nat : /\ n = Len(c) /\ m = Len(d) /\ DOMAIN c = 1..n
                          /\ (n = 0 <=> c = <<>>) /\ (m = 0 <=> d = <<>>)
                          /\ (\A k \in 1..n : c[k] \in Literal) /\ \A k \in 1..m : d[k] \in Literal
  BY LenProperties, ElementOfSeq, EmptySeq
<1>2. PICK b : b = Mark("box")
  OBVIOUS
<1>3. CASE c = <<>> /\ d = <<>>
  <2>1. Apart(Like(rho), b)
    <3>1. "box" \in Punctuation
      BY DEF Punctuation
    <3> QED BY <1>2, <3>1, LikeIs
  <2>2. Pairwise(Like(rho), <<b>>, <<b>>)
    BY <2>1, PairwiseOne DEF Apart
  <2>3. clauseToString(c) = <<b>> /\ clauseToString(d) = <<b>>
    BY <1>2, <1>3, ClauseTextTyped
  <2>4. 1..0 = {}
    OBVIOUS
  <2> QED BY <1>1, <1>3, <2>2, <2>3, <2>4 DEF ClausesLike
<1>4. CASE c = <<>> /\ d # <<>>
  <2>1. clauseToString(c) = <<b>>
    BY <1>2, <1>4, ClauseTextTyped
  <2>2. ~Pairwise(Like(rho), <<b>>, clauseToString(d))
    BY <1>2, <1>4, BoxAlone
  <2> QED BY <1>1, <1>4, <2>1, <2>2 DEF ClausesLike
<1>5. CASE c # <<>> /\ d = <<>>
  <2>1. clauseToString(d) = <<b>>
    BY <1>2, <1>5, ClauseTextTyped
  <2>2. ~Pairwise(Like(rho), clauseToString(c), <<b>>)
    BY <1>2, <1>5, BoxAlone
  <2> QED BY <1>1, <1>5, <2>1, <2>2 DEF ClausesLike
<1>6. CASE c # <<>> /\ d # <<>>
  <2>1. PICK p, q, s, N : p = ClauseItems(c) /\ q = ClauseItems(d) /\ s = Mark("or") /\ N = Mark("not")
    OBVIOUS
  <2>2. /\ p \in Seq(Piece(TermItem, N)) /\ q \in Seq(Piece(TermItem, N)) /\ Len(p) = n /\ Len(q) = m
        /\ (\A k \in 1..n : p[k] = LiteralItems(c[k])) /\ \A k \in 1..m : q[k] = LiteralItems(d[k])
    BY <1>1, <2>1, ClauseItemsAre
  <2>3. clauseToString(c) = Separated(p, s) /\ clauseToString(d) = Separated(q, s)
    BY <1>6, <2>1, ClauseTextTyped
  <2>4. ListsPair(Like(rho), s, p, q)
    <3>1. TermItem \in SUBSET Item /\ N \in Item /\ s \in Item /\ N # s
      BY <2>1, ItemsApart DEF Item, PunctItem, Punctuation
    <3>2. Apart(Like(rho), s)
      <4>1. "or" \in Punctuation
        BY DEF Punctuation
      <4> QED BY <2>1, <4>1, LikeIs
    <3> QED BY <2>2, <3>1, <3>2, SeparatedPairs
  <2>5. ASSUME n = m, NEW k \in 1..n
        PROVE  Pairwise(Like(rho), p[k], q[k])
                 <=> c[k].is_positive = d[k].is_positive /\ SameUnder(rho, c[k].atom, d[k].atom)
    <3>1. p[k] = LiteralItems(c[k]) /\ q[k] = LiteralItems(d[k]) /\ c[k] \in Literal /\ d[k] \in Literal
      BY <1>1, <2>2, <2>5
    <3> QED BY <3>1, LiteralsPair
  <2> QED BY <1>1, <2>2, <2>3, <2>4, <2>5 DEF ListsPair, ClausesLike
<1> QED BY <1>3, <1>4, <1>5, <1>6

-----------------------------------------------------------------------------
(* The names of variables                                                   *)

\* A number has one name, and a name one number.
LEMMA NamesDiffer ==
  ASSUME NEW i \in Nat, NEW j \in Nat
  PROVE  /\ prettyVarName(i) = prettyVarName(j) <=> i = j
         /\ \A m : prettyVarName(i) # Mark(m)
<1>0. PICK b \in Nat : b = BaseCount /\ b # 0
  BY LinesPrintable
<1>1. i = b * (i \div b) + (i % b) /\ j = b * (j \div b) + (j % b)
  BY <1>0
<1>2. prettyVarName(i) = prettyVarName(j) => i % b = j % b /\ i \div b = j \div b
  <2>1. /\ prettyVarName(i).letter = i % b /\ prettyVarName(i).suffix = i \div b
        /\ prettyVarName(j).letter = j % b /\ prettyVarName(j).suffix = j \div b
    BY <1>0 DEF prettyVarName
  <2> QED BY <2>1
<1>3. \A m : prettyVarName(i) # Mark(m)
  <2>1. "mark" \notin DOMAIN prettyVarName(i)
    BY DEF prettyVarName
  <2> QED BY <2>1, ItemsApart
<1>4. prettyVarName(i) = prettyVarName(j) => i = j
  BY <1>1, <1>2
<1> QED BY <1>3, <1>4

\* The first n elements of txt are those of read, with the numbers ix of variables as names.
Named(read, txt, ix, n) ==
  \A k \in 1..n : \/ \E m : read[k] = Mark(m) /\ txt[k] = Mark(m)
                  \/ \E v \in DOMAIN ix : read[k] = Printed(v) /\ txt[k] = prettyVarName(ix[v])

\* Variables are numbered as they come.
Numbered(read, ix, n) ==
  /\ \A v \in DOMAIN ix : v \in Variables /\ ix[v] \in Nat /\ \E k \in 1..n : read[k] = Printed(v)
  /\ \A v, w \in DOMAIN ix : ix[v] = ix[w] => v = w
  /\ \A k \in 1..n : \A v : read[k] = Printed(v) =>
       /\ v \in DOMAIN ix
       /\ \A i \in Nat : i < ix[v] =>
            \E j \in 1..n : j < k /\ \E w \in DOMAIN ix : read[j] = Printed(w) /\ ix[w] = i

\* Of what is read alike, the variables have the same numbers.
LEMMA NumbersAgree ==
  ASSUME NEW rho \in Renamings, NEW read, NEW said, NEW ix, NEW jx, NEW n \in Nat,
         Numbered(read, ix, n), Numbered(said, jx, n),
         \A k \in 1..n : Alike(rho, read[k], said[k])
  PROVE  \A k \in 1..n : \A v, w : read[k] = Printed(v) /\ said[k] = Printed(w) => ix[v] = jx[w]
<1> DEFINE Wrong(k) == \E v, w : read[k] = Printed(v) /\ said[k] = Printed(w) /\ ix[v] # jx[w]
           Bad == {k \in 1..n : Wrong(k)}
<1>0. \A k \in 1..n : \A v : /\ read[k] = Printed(v) => v \in DOMAIN rho /\ said[k] = Printed(rho[v])
                             /\ said[k] = Printed(v) => \E u \in DOMAIN rho : read[k] = Printed(u) /\ rho[u] = v
  BY ItemsApart DEF Alike
<1>1. ASSUME Bad # {} PROVE FALSE
  <2>1. PICK k \in Bad : \A l \in Bad : k <= l
    <3>1. Bad \in SUBSET Nat
      OBVIOUS
    <3> QED BY <1>1, <3>1, LeastNatural
  <2>2. k \in 1..n /\ Wrong(k) /\ k \in Nat
    OBVIOUS
  <2>3. PICK v, w : read[k] = Printed(v) /\ said[k] = Printed(w) /\ ix[v] # jx[w]
    BY <2>2
  <2>4. \A j \in 1..n : j < k => ~Wrong(j)
    <3>1. \A j \in 1..n : j < k => ~(k <= j)
      BY <2>2
    <3> QED BY <2>1, <3>1
  <2> HIDE DEF Bad
  <2>5. v \in DOMAIN rho /\ rho[v] = w /\ v \in DOMAIN ix /\ w \in DOMAIN jx
    <3>1. v \in DOMAIN rho /\ Printed(rho[v]) = Printed(w)
      BY <1>0, <2>2, <2>3
    <3>2. v \in DOMAIN ix /\ w \in DOMAIN jx
      BY <2>2, <2>3 DEF Numbered
    <3> QED BY <3>1, <3>2, ItemsApart
  <2>6. ix[v] \in Nat /\ jx[w] \in Nat
    BY <2>5 DEF Numbered
  <2>7. CASE jx[w] < ix[v]
    <3>1. PICK j \in 1..n : j < k /\ \E u \in DOMAIN ix : read[j] = Printed(u) /\ ix[u] = jx[w]
      BY <2>2, <2>3, <2>6, <2>7 DEF Numbered
    <3>2. PICK u \in DOMAIN ix : read[j] = Printed(u) /\ ix[u] = jx[w]
      BY <3>1
    <3>3. u \in DOMAIN rho /\ said[j] = Printed(rho[u])
      BY <1>0, <3>2
    <3>4. ix[u] = jx[rho[u]]
      BY <2>4, <3>1, <3>2, <3>3
    <3>5. rho[u] \in DOMAIN jx
      BY <3>3 DEF Numbered
    <3>6. rho[u] = w
      <4>1. PICK x : x = rho[u]
        OBVIOUS
      <4>2. x \in DOMAIN jx /\ jx[x] = jx[w]
        BY <3>2, <3>4, <3>5, <4>1
      <4> QED BY <2>5, <4>1, <4>2 DEF Numbered
    <3>7. u = v
      BY <2>5, <3>3, <3>6, RenamingIs
    <3> QED BY <2>3, <3>2, <3>7
  <2>8. CASE ix[v] < jx[w]
    <3>1. PICK j \in 1..n : j < k /\ \E u \in DOMAIN jx : said[j] = Printed(u) /\ jx[u] = ix[v]
      BY <2>2, <2>3, <2>6, <2>8 DEF Numbered
    <3>2. PICK u \in DOMAIN jx : said[j] = Printed(u) /\ jx[u] = ix[v]
      BY <3>1
    <3>3. PICK x \in DOMAIN rho : read[j] = Printed(x) /\ rho[x] = u
      BY <1>0, <3>2
    <3>4. ix[x] = jx[u]
      BY <2>4, <3>1, <3>2, <3>3
    <3>5. x \in DOMAIN ix
      BY <3>3 DEF Numbered
    <3>6. x = v
      BY <2>5, <3>2, <3>4, <3>5 DEF Numbered
    <3> QED BY <2>3, <2>5, <3>2, <3>3, <3>6
  <2> QED BY <2>3, <2>6, <2>7, <2>8
<1> QED BY <1>1

\* A text has the names of what is read.
LEMMA NamedBy ==
  ASSUME NEW read, NEW txt, NEW ix, NEW n \in Nat, Named(read, txt, ix, n), NEW k \in 1..n
  PROVE  /\ \A m : read[k] = Mark(m) => txt[k] = Mark(m)
         /\ \A v : read[k] = Printed(v) => txt[k] = prettyVarName(ix[v])
         /\ (\E m : read[k] = Mark(m)) \/ (\E v \in DOMAIN ix : read[k] = Printed(v))
<1>1. \/ \E m : read[k] = Mark(m) /\ txt[k] = Mark(m)
      \/ \E v \in DOMAIN ix : read[k] = Printed(v) /\ txt[k] = prettyVarName(ix[v])
  BY DEF Named
<1>2. CASE \E m : read[k] = Mark(m) /\ txt[k] = Mark(m)
  BY <1>2, ItemsApart
<1>3. CASE \E v \in DOMAIN ix : read[k] = Printed(v) /\ txt[k] = prettyVarName(ix[v])
  <2>1. PICK v \in DOMAIN ix : read[k] = Printed(v) /\ txt[k] = prettyVarName(ix[v])
    BY <1>3
  <2>2. \A u : read[k] = Printed(u) => u = v
    BY <2>1, ItemsApart
  <2>3. \A m : read[k] # Mark(m)
    BY <2>1, ItemsApart
  <2> QED BY <2>1, <2>2, <2>3
<1> QED BY <1>1, <1>2, <1>3

\* What is read alike has the same text.
LEMMA TextsForth ==
  ASSUME NEW rho \in Renamings, NEW read, NEW said, NEW ix, NEW jx, NEW n \in Nat, NEW txt, NEW other,
         Numbered(read, ix, n), Numbered(said, jx, n),
         Named(read, txt, ix, n), Named(said, other, jx, n),
         \A k \in 1..n : Alike(rho, read[k], said[k])
  PROVE  \A k \in 1..n : txt[k] = other[k]
<1>1. SUFFICES ASSUME NEW k \in 1..n PROVE txt[k] = other[k]
  OBVIOUS
<1>2. CASE \E m : read[k] = Mark(m) /\ said[k] = Mark(m)
  <2>1. PICK m : read[k] = Mark(m) /\ said[k] = Mark(m)
    BY <1>2
  <2>2. txt[k] = Mark(m)
    BY <2>1, NamedBy
  <2>3. other[k] = Mark(m)
    BY <2>1, NamedBy
  <2> QED BY <2>2, <2>3
<1>3. CASE \E v \in DOMAIN rho : read[k] = Printed(v) /\ said[k] = Printed(rho[v])
  <2>1. PICK v, w : read[k] = Printed(v) /\ said[k] = Printed(w)
    BY <1>3
  <2>2. txt[k] = prettyVarName(ix[v])
    BY <2>1, NamedBy
  <2>3. other[k] = prettyVarName(jx[w])
    BY <2>1, NamedBy
  <2>4. ix[v] = jx[w]
    BY <2>1, NumbersAgree
  <2> QED BY <2>2, <2>3, <2>4
<1> QED BY <1>2, <1>3 DEF Alike

\* Where texts are the same, variables with the same number stand.
LEMMA SameNumbers ==
  ASSUME NEW read, NEW said, NEW ix, NEW jx, NEW n \in Nat, NEW txt, NEW other,
         Numbered(read, ix, n), Numbered(said, jx, n),
         Named(read, txt, ix, n), Named(said, other, jx, n),
         NEW k \in 1..n, txt[k] = other[k]
  PROVE  \/ \E m : read[k] = Mark(m) /\ said[k] = Mark(m)
         \/ \E v \in DOMAIN ix, w \in DOMAIN jx :
              read[k] = Printed(v) /\ said[k] = Printed(w) /\ ix[v] = jx[w]
<1>1. \A i, j \in Nat : prettyVarName(i) = prettyVarName(j) => i = j
  BY NamesDiffer
<1>2. \A i \in Nat : \A m : prettyVarName(i) # Mark(m)
  BY NamesDiffer
<1>3. (\A v \in DOMAIN ix : ix[v] \in Nat) /\ \A w \in DOMAIN jx : jx[w] \in Nat
  BY DEF Numbered
<1>4. \/ \E m : read[k] = Mark(m) /\ txt[k] = Mark(m)
      \/ \E v \in DOMAIN ix : read[k] = Printed(v) /\ txt[k] = prettyVarName(ix[v])
  BY DEF Named
<1>5. \/ \E m : said[k] = Mark(m) /\ other[k] = Mark(m)
      \/ \E w \in DOMAIN jx : said[k] = Printed(w) /\ other[k] = prettyVarName(jx[w])
  BY DEF Named
<1>6. CASE \E m : read[k] = Mark(m) /\ txt[k] = Mark(m)
  <2>1. PICK m : read[k] = Mark(m) /\ txt[k] = Mark(m)
    BY <1>6
  <2>2. PICK l : said[k] = Mark(l) /\ other[k] = Mark(l)
    BY <1>2, <1>3, <1>5, <2>1
  <2> QED BY <2>1, <2>2
<1>7. CASE \E v \in DOMAIN ix : read[k] = Printed(v) /\ txt[k] = prettyVarName(ix[v])
  <2>1. PICK v \in DOMAIN ix : read[k] = Printed(v) /\ txt[k] = prettyVarName(ix[v])
    BY <1>7
  <2>2. PICK w \in DOMAIN jx : said[k] = Printed(w) /\ other[k] = prettyVarName(jx[w])
    BY <1>2, <1>3, <1>5, <2>1
  <2> QED BY <1>1, <1>3, <2>1, <2>2
<1> QED BY <1>4, <1>6, <1>7

\* The renaming from numbers ix to numbers jx.
Matching(ix, jx) == [v \in DOMAIN ix |-> CHOOSE w \in DOMAIN jx : jx[w] = ix[v]]

\* Where two texts are the same, it makes what was read alike.
LEMMA TextsBack ==
  ASSUME NEW read, NEW said, NEW ix, NEW jx, NEW n \in Nat, NEW txt, NEW other,
         Numbered(read, ix, n), Numbered(said, jx, n),
         Named(read, txt, ix, n), Named(said, other, jx, n),
         \A k \in 1..n : txt[k] = other[k]
  PROVE  \E rho \in Renamings : \A k \in 1..n : Alike(rho, read[k], said[k])
<1>1. PICK rho : rho = Matching(ix, jx)
  OBVIOUS
<1>2. ASSUME NEW v \in DOMAIN ix PROVE \E w \in DOMAIN jx : jx[w] = ix[v]
  <2>1. PICK k \in 1..n : read[k] = Printed(v)
    BY DEF Numbered
  <2>2. PICK u \in DOMAIN ix, w \in DOMAIN jx : read[k] = Printed(u) /\ ix[u] = jx[w]
    <3>1. \A m : read[k] # Mark(m)
      BY <2>1, ItemsApart
    <3> QED BY <3>1, SameNumbers
  <2>3. u = v
    BY <2>1, <2>2, ItemsApart
  <2> QED BY <2>2, <2>3
<1>3. DOMAIN rho = DOMAIN ix /\ \A v \in DOMAIN ix : rho[v] \in DOMAIN jx /\ jx[rho[v]] = ix[v]
  BY <1>1, <1>2 DEF Matching
<1>4. rho \in Renamings
  <2>1. DOMAIN ix \subseteq Variables /\ DOMAIN jx \subseteq Variables
    BY DEF Numbered
  <2>2. rho \in [DOMAIN ix -> Variables]
    BY <1>1, <1>3, <2>1 DEF Matching
  <2>3. \A v, w \in DOMAIN rho : rho[v] = rho[w] => v = w
    <3>1. \A v, w \in DOMAIN ix : ix[v] = ix[w] => v = w
      BY DEF Numbered
    <3>2. \A v, w \in DOMAIN ix : rho[v] = rho[w] => ix[v] = ix[w]
      BY <1>3
    <3> QED BY <1>3, <3>1, <3>2
  <2> QED BY <2>1, <2>2, <2>3 DEF Renamings
<1>5. ASSUME NEW k \in 1..n PROVE Alike(rho, read[k], said[k])
  <2>1. CASE \E m : read[k] = Mark(m) /\ said[k] = Mark(m)
    BY <2>1 DEF Alike
  <2>2. CASE \E v \in DOMAIN ix, w \in DOMAIN jx :
               read[k] = Printed(v) /\ said[k] = Printed(w) /\ ix[v] = jx[w]
    <3>1. PICK v \in DOMAIN ix, w \in DOMAIN jx :
            read[k] = Printed(v) /\ said[k] = Printed(w) /\ ix[v] = jx[w]
      BY <2>2
    <3>2. \A a, b \in DOMAIN jx : jx[a] = jx[b] => a = b
      BY DEF Numbered
    <3>3. rho[v] = w
      BY <1>3, <3>1, <3>2
    <3> QED BY <1>3, <3>1, <3>3 DEF Alike
  <2> QED BY <2>1, <2>2, SameNumbers
<1> QED BY <1>4, <1>5

-----------------------------------------------------------------------------
(* Clauses and their texts                                                  *)

\* What a text is of.
TextElement ==
  {Mark(m) : m \in Punctuation \cup {getName(t) : t \in DOMAIN Terms}} \cup {prettyVarName(i) : i \in Nat}

\* The first n elements of the text of c are txt: they were read from its items, which are
\* h[n] after them, with ix the numbers of variables.
Printing(c, h, read, ix, txt, n) ==
  /\ txt \in Seq(TextElement) /\ n \in Nat /\ n = Len(txt)
  /\ Prints(h, read, n) /\ h[0] = clauseToString(c)
  /\ Numbered(read, ix, n) /\ Named(read, txt, ix, n)

\* txt is the text of c.
TextOf(c, txt) == \E h, read, ix, n : Printing(c, h, read, ix, txt, n) /\ h[n] = <<>>

\* Texts are the same if and only if their clauses are variants.
LEMMA TextsAgree ==
  ASSUME NEW c \in Seq(Literal), NEW d \in Seq(Literal), NEW txt, NEW other,
         TextOf(c, txt), TextOf(d, other)
  PROVE  txt = other <=> Variants(c, d)
<1>1. PICK h, read, ix, n : Printing(c, h, read, ix, txt, n) /\ h[n] = <<>>
  BY DEF TextOf
<1>2. PICK g, said, jx, m : Printing(d, g, said, jx, other, m) /\ g[m] = <<>>
  BY DEF TextOf
<1>3. /\ txt \in Seq(TextElement) /\ n \in Nat /\ n = Len(txt) /\ Prints(h, read, n)
      /\ h[0] = clauseToString(c) /\ Numbered(read, ix, n) /\ Named(read, txt, ix, n)
  BY <1>1 DEF Printing
<1>4. /\ other \in Seq(TextElement) /\ m \in Nat /\ m = Len(other) /\ Prints(g, said, m)
      /\ g[0] = clauseToString(d) /\ Numbered(said, jx, m) /\ Named(said, other, jx, m)
  BY <1>2 DEF Printing
<1>5. ASSUME txt = other PROVE Variants(c, d)
  <2>1. n = m /\ \A k \in 1..n : txt[k] = other[k]
    BY <1>3, <1>4, <1>5
  <2>2. PICK rho \in Renamings : \A k \in 1..n : Alike(rho, read[k], said[k])
    BY <1>3, <1>4, <2>1, TextsBack
  <2>3. Spaced(h[0]) /\ Spaced(g[0])
    BY <1>3, <1>4, ClauseSpaced
  <2>4. Pairwise(Like(rho), h[0], g[0])
    BY <1>1, <1>2, <1>3, <1>4, <2>1, <2>2, <2>3, PrintsBack
  <2>5. ClausesLike(rho, c, d)
    BY <1>3, <1>4, <2>4, ClausesPair
  <2> QED BY <2>5 DEF ClausesLike, Variants
<1>6. ASSUME Variants(c, d) PROVE txt = other
  <2>1. PICK rho \in Renamings : ClausesLike(rho, c, d)
    BY <1>6 DEF ClausesLike, Variants
  <2>2. Pairwise(Like(rho), h[0], g[0])
    BY <1>3, <1>4, <2>1, ClausesPair
  <2>3. n = m /\ \A k \in 1..n : Alike(rho, read[k], said[k])
    BY <1>1, <1>2, <1>3, <1>4, <2>2, PrintsForth
  <2>4. \A k \in 1..n : txt[k] = other[k]
    BY <1>3, <1>4, <2>3, TextsForth
  <2> QED BY <1>3, <1>4, <2>3, <2>4, SeqEqual
<1> QED BY <1>5, <1>6

\* The function f and, after the first n, x.
Then(f, n, x) == [k \in Nat |-> IF k <= n THEN f[k] ELSE x]

\* One more element has been printed.
LEMMA PrintsMore ==
  ASSUME NEW h, NEW read, NEW n, NEW o, NEW b, Prints(h, read, n), Emits(h[n], o, b)
  PROVE  /\ Prints(Then(h, n, b), Then(read, n, o), n + 1)
         /\ Then(h, n, b)[0] = h[0] /\ Then(h, n, b)[n + 1] = b
         /\ Then(read, n, o)[n + 1] = o /\ \A k \in 1..n : Then(read, n, o)[k] = read[k]
<1>1. n \in Nat /\ h[0] \in Seq(Item)
  BY DEF Prints
<1>2. PICK g, said : g = Then(h, n, b) /\ said = Then(read, n, o)
  OBVIOUS
<1>3. /\ \A k \in 0..n : g[k] = h[k] /\ said[k] = read[k]
      /\ g[n + 1] = b /\ said[n + 1] = o
  <2>1. \A k \in 0..n : k \in Nat /\ k <= n
    BY <1>1
  <2>2. n + 1 \in Nat /\ ~(n + 1 <= n)
    BY <1>1
  <2> QED BY <1>2, <2>1, <2>2 DEF Then
<1>4. b \in Seq(Item)
  <2>1. PICK x, y \in Seq(Item) : b = x \o y
    BY DEF Emits
  <2> QED BY <2>1, ConcatProperties
<1>5. 0 \in 0..n /\ \A k \in 1..n : k \in 0..n
  BY <1>1
<1>6. ASSUME NEW k \in 1..(n + 1) PROVE g[k] \in Seq(Item) /\ Emits(g[k - 1], said[k], g[k])
  <2>1. CASE k = n + 1
    <3>1. k - 1 = n /\ n \in 0..n
      BY <1>1, <2>1
    <3> QED BY <1>3, <1>4, <2>1, <3>1
  <2>2. CASE k # n + 1
    <3>1. k \in 1..n /\ k \in 0..n /\ k - 1 \in 0..n
      BY <1>1, <2>2
    <3>2. h[k] \in Seq(Item) /\ Emits(h[k - 1], read[k], h[k])
      BY <3>1 DEF Prints
    <3> QED BY <1>3, <3>1, <3>2
  <2> QED BY <2>1, <2>2
<1>7. Prints(g, said, n + 1)
  <2>1. n + 1 \in Nat /\ g[0] \in Seq(Item)
    BY <1>1, <1>3, <1>5
  <2> QED BY <1>6, <2>1 DEF Prints
<1> QED BY <1>2, <1>3, <1>5, <1>7

-----------------------------------------------------------------------------
(* One more element of a text                                               *)

\* said is read, and one more: o.
OneMore(said, read, n, o) == said[n + 1] = o /\ \A k \in 1..n : said[k] = read[k]

\* The numbers jx are ix, and perhaps more.
Extends(jx, ix) == \A v \in DOMAIN ix : v \in DOMAIN jx /\ jx[v] = ix[v]

\* The text has one more element.
LEMMA NamedMore ==
  ASSUME NEW said, NEW read, NEW n \in Nat, NEW o, OneMore(said, read, n, o),
         NEW ix, NEW jx, Extends(jx, ix),
         NEW txt \in Seq(TextElement), n = Len(txt), Named(read, txt, ix, n), NEW x,
         \/ \E m : o = Mark(m) /\ x = Mark(m)
         \/ \E v \in DOMAIN jx : o = Printed(v) /\ x = prettyVarName(jx[v])
  PROVE  Named(said, Append(txt, x), jx, n + 1)
<1>1. PICK a : a = Append(txt, x)
  OBVIOUS
<1>2. a[n + 1] = x /\ \A k \in 1..n : a[k] = txt[k]
  BY <1>1
<1>3. SUFFICES ASSUME NEW k \in 1..(n + 1)
               PROVE  \/ \E m : said[k] = Mark(m) /\ a[k] = Mark(m)
                      \/ \E v \in DOMAIN jx : said[k] = Printed(v) /\ a[k] = prettyVarName(jx[v])
  BY <1>1 DEF Named
<1>4. CASE k = n + 1
  <2>1. said[k] = o /\ a[k] = x
    BY <1>2, <1>4 DEF OneMore
  <2> QED BY <2>1
<1>5. CASE k # n + 1
  <2>1. k \in 1..n
    BY <1>5
  <2>2. said[k] = read[k] /\ a[k] = txt[k]
    BY <1>2, <2>1 DEF OneMore
  <2>3. \/ \E m : read[k] = Mark(m) /\ txt[k] = Mark(m)
        \/ \E v \in DOMAIN ix : read[k] = Printed(v) /\ txt[k] = prettyVarName(ix[v])
    BY <2>1 DEF Named
  <2> QED BY <2>2, <2>3 DEF Extends
<1> QED BY <1>4, <1>5

\* A mark or a variable that has a number gives out no number.
LEMMA NumberedStill ==
  ASSUME NEW said, NEW read, NEW n \in Nat, NEW o, OneMore(said, read, n, o),
         NEW ix, Numbered(read, ix, n),
         \A v : o = Printed(v) => v \in DOMAIN ix
  PROVE  Numbered(said, ix, n + 1)
<1>1. \A k \in 1..n : k \in 1..(n + 1) /\ said[k] = read[k]
  BY DEF OneMore
<1>2. \A v \in DOMAIN ix : v \in Variables /\ ix[v] \in Nat /\ \E k \in 1..(n + 1) : said[k] = Printed(v)
  BY <1>1 DEF Numbered
<1>3. \A v, w \in DOMAIN ix : ix[v] = ix[w] => v = w
  BY DEF Numbered
<1>4. ASSUME NEW k \in 1..(n + 1), NEW v, said[k] = Printed(v)
      PROVE  /\ v \in DOMAIN ix
             /\ \A i \in Nat : i < ix[v] =>
                  \E j \in 1..(n + 1) : j < k /\ \E w \in DOMAIN ix : said[j] = Printed(w) /\ ix[w] = i
  <2>1. PICK l \in 1..n : l <= k /\ read[l] = Printed(v)
    <3>1. CASE k = n + 1
      <4>1. v \in DOMAIN ix
        BY <1>4, <3>1 DEF OneMore
      <4>2. PICK l \in 1..n : read[l] = Printed(v)
        BY <4>1 DEF Numbered
      <4>3. l <= k
        BY <3>1
      <4> QED BY <4>2, <4>3
    <3>2. CASE k # n + 1
      <4>1. k \in 1..n /\ k <= k
        BY <3>2
      <4> QED BY <1>1, <1>4, <4>1
    <3> QED BY <3>1, <3>2
  <2>2. v \in DOMAIN ix
    BY <2>1 DEF Numbered
  <2>3. ASSUME NEW i \in Nat, i < ix[v]
        PROVE  \E j \in 1..(n + 1) : j < k /\ \E w \in DOMAIN ix : said[j] = Printed(w) /\ ix[w] = i
    <3>1. PICK j \in 1..n : j < l /\ \E w \in DOMAIN ix : read[j] = Printed(w) /\ ix[w] = i
      BY <2>1, <2>3 DEF Numbered
    <3>2. j < k
      BY <2>1, <3>1
    <3>3. j \in 1..(n + 1) /\ said[j] = read[j]
      BY <1>1
    <3> QED BY <3>1, <3>2, <3>3
  <2> QED BY <2>2, <2>3
<1> QED BY <1>2, <1>3, <1>4 DEF Numbered

\* The numbers up to that of variables have been given out.
Dense(ix) ==
  /\ IsFiniteSet(DOMAIN ix)
  /\ \A i \in Nat : i < Cardinality(DOMAIN ix) <=> \E v \in DOMAIN ix : ix[v] = i

\* The next number goes to v.
NextNumber(ix, v) == [w \in DOMAIN ix \cup {v} |-> IF w = v THEN Cardinality(DOMAIN ix) ELSE ix[w]]

\* It is no number of another variable.
LEMMA NextNumberIs ==
  ASSUME NEW ix, Dense(ix), \A w \in DOMAIN ix : ix[w] \in Nat, NEW v, v \notin DOMAIN ix
  PROVE  /\ Dense(NextNumber(ix, v)) /\ Extends(NextNumber(ix, v), ix)
         /\ Cardinality(DOMAIN ix) \in Nat
         /\ DOMAIN NextNumber(ix, v) = DOMAIN ix \cup {v}
         /\ NextNumber(ix, v)[v] = Cardinality(DOMAIN ix)
         /\ \A w \in DOMAIN ix : ix[w] < Cardinality(DOMAIN ix)
<1>1. PICK jx, n : jx = NextNumber(ix, v) /\ n = Cardinality(DOMAIN ix)
  OBVIOUS
<1>2. DOMAIN jx = DOMAIN ix \cup {v} /\ jx[v] = n /\ \A w \in DOMAIN ix : w # v /\ jx[w] = ix[w]
  BY <1>1 DEF NextNumber
<1>3. n \in Nat
  BY <1>1, FS_CardinalityType DEF Dense
<1>4. IsFiniteSet(DOMAIN jx) /\ Cardinality(DOMAIN jx) = n + 1
  BY <1>1, <1>2, FS_AddElement DEF Dense
<1>5. \A i \in Nat : i < n <=> \E w \in DOMAIN ix : ix[w] = i
  BY <1>1 DEF Dense
<1>6. \A w \in DOMAIN ix : ix[w] < n
  BY <1>5
<1>7. ASSUME NEW i \in Nat PROVE i < n + 1 <=> \E w \in DOMAIN jx : jx[w] = i
  <2>1. CASE i = n
    BY <1>2, <1>3, <2>1
  <2>2. CASE i # n
    <3>1. i < n + 1 <=> i < n
      BY <1>3, <2>2
    <3>2. (\E w \in DOMAIN jx : jx[w] = i) <=> \E w \in DOMAIN ix : ix[w] = i
      BY <1>2, <2>2
    <3> QED BY <1>5, <3>1, <3>2
  <2> QED BY <2>1, <2>2
<1>8. Dense(jx)
  BY <1>4, <1>7 DEF Dense
<1>9. Extends(jx, ix)
  BY <1>2 DEF Extends
<1> QED BY <1>1, <1>2, <1>3, <1>6, <1>8, <1>9

\* A variable without a number is given the next.
LEMMA NumberedNext ==
  ASSUME NEW said, NEW read, NEW n \in Nat, NEW v \in Variables, OneMore(said, read, n, Printed(v)),
         NEW ix, Numbered(read, ix, n), Dense(ix), v \notin DOMAIN ix
  PROVE  Numbered(said, NextNumber(ix, v), n + 1)
<1>0. \A w \in DOMAIN ix : w \in Variables /\ ix[w] \in Nat /\ \E k \in 1..n : read[k] = Printed(w)
  BY DEF Numbered
<1>1. PICK jx, c : jx = NextNumber(ix, v) /\ c = Cardinality(DOMAIN ix)
  OBVIOUS
<1>2. /\ Dense(jx) /\ Extends(jx, ix) /\ c \in Nat /\ DOMAIN jx = DOMAIN ix \cup {v} /\ jx[v] = c
      /\ \A w \in DOMAIN ix : ix[w] < c
  BY <1>0, <1>1, NextNumberIs
<1>3. \A w \in DOMAIN ix : w # v /\ w \in DOMAIN jx /\ jx[w] = ix[w]
  BY <1>2 DEF Extends
<1>4. \A k \in 1..n : k \in 1..(n + 1) /\ said[k] = read[k] /\ k < n + 1
  BY DEF OneMore
<1>5. said[n + 1] = Printed(v) /\ n + 1 \in 1..(n + 1)
  BY DEF OneMore
<1>6. \A w \in DOMAIN jx : w \in Variables /\ jx[w] \in Nat /\ \E k \in 1..(n + 1) : said[k] = Printed(w)
  BY <1>0, <1>2, <1>3, <1>4, <1>5
<1>7. \A w, u \in DOMAIN jx : jx[w] = jx[u] => w = u
  <2>1. \A w, u \in DOMAIN ix : ix[w] = ix[u] => w = u
    BY DEF Numbered
  <2>2. \A w \in DOMAIN ix : ix[w] # c
    BY <1>0, <1>2
  <2> QED BY <1>2, <1>3, <2>1, <2>2
<1>8. ASSUME NEW k \in 1..(n + 1), NEW w, said[k] = Printed(w)
      PROVE  /\ w \in DOMAIN jx
             /\ \A i \in Nat : i < jx[w] =>
                  \E j \in 1..(n + 1) : j < k /\ \E u \in DOMAIN jx : said[j] = Printed(u) /\ jx[u] = i
  <2>1. CASE k = n + 1
    <3>1. w = v
      BY <1>5, <1>8, <2>1, ItemsApart
    <3>2. ASSUME NEW i \in Nat, i < c
          PROVE  \E j \in 1..(n + 1) : j < k /\ \E u \in DOMAIN jx : said[j] = Printed(u) /\ jx[u] = i
      <4>1. PICK u \in DOMAIN ix : ix[u] = i
        BY <1>1, <3>2 DEF Dense
      <4>2. PICK j \in 1..n : read[j] = Printed(u)
        BY <1>0
      <4> QED BY <1>3, <1>4, <2>1, <4>1, <4>2
    <3> QED BY <1>2, <3>1, <3>2
  <2>2. CASE k # n + 1
    <3>1. k \in 1..n /\ read[k] = Printed(w)
      BY <1>4, <1>8, <2>2
    <3>2. w \in DOMAIN ix
      BY <3>1 DEF Numbered
    <3>3. ASSUME NEW i \in Nat, i < jx[w]
          PROVE  \E j \in 1..(n + 1) : j < k /\ \E u \in DOMAIN jx : said[j] = Printed(u) /\ jx[u] = i
      <4>1. i < ix[w]
        BY <1>3, <3>2, <3>3
      <4>2. PICK j \in 1..n : j < k /\ \E u \in DOMAIN ix : read[j] = Printed(u) /\ ix[u] = i
        BY <3>1, <4>1 DEF Numbered
      <4>3. PICK u \in DOMAIN ix : read[j] = Printed(u) /\ ix[u] = i
        BY <4>2
      <4> QED BY <1>3, <1>4, <4>2, <4>3
    <3> QED BY <1>3, <3>2, <3>3
  <2> QED BY <2>1, <2>2
<1>9. Numbered(said, jx, n + 1)
  BY <1>6, <1>7, <1>8 DEF Numbered
<1> QED BY <1>1, <1>9

\* What is put in front is the head.
LEMMA ConsHead ==
  ASSUME NEW x, NEW c \in Seq(Item)
  PROVE  <<x>> \o c # <<>> /\ Head(<<x>> \o c) = x /\ Tail(<<x>> \o c) = c
<1>1. PICK T : T = Item \cup {x}
  OBVIOUS
<1>0. PICK n \in Nat : n = Len(c)
  BY LenProperties
<1>2. x \in T /\ c \in Seq(T)
  <2>1. Item \subseteq T
    BY <1>1
  <2> QED BY <1>1, <2>1
<1>3. PICK s : s = <<x>> \o c
  OBVIOUS
<1>4. s \in Seq(T) /\ Len(s) = n + 1 /\ s[1] = x /\ \A k \in 1..n : s[k + 1] = c[k]
  BY <1>0, <1>2, <1>3, ConsIs
<1>5. s # <<>>
  <2>1. Len(s) # 0
    BY <1>0, <1>4
  <2> QED BY <2>1
<1>6. Head(s) = x
  BY <1>4
<1>7. Tail(s) \in Seq(T) /\ Len(Tail(s)) = n /\ \A k \in 1..n : Tail(s)[k] = s[k + 1]
  <2>1. (n + 1) - 1 = n
    BY <1>0
  <2> QED BY <1>4, <1>5, <2>1, HeadTailProperties
<1>8. Tail(s) = c
  BY <1>0, <1>2, <1>4, <1>7, SeqEqual
<1> QED BY <1>3, <1>5, <1>6, <1>8

\* Items are their head and their tail.
LEMMA HeadFirst ==
  ASSUME NEW a \in Seq(Item), a # <<>>
  PROVE  Head(a) \in Item /\ Tail(a) \in Seq(Item) /\ a = <<Head(a)>> \o Tail(a)
<1>1. PICK n \in Nat : n = Len(a) /\ n # 0
  BY LenProperties, EmptySeq
<1>2. PICK x, c : x = Head(a) /\ c = Tail(a)
  OBVIOUS
<1>3. x \in Item /\ c \in Seq(Item) /\ Len(c) = n - 1 /\ \A k \in 1..(n - 1) : c[k] = a[k + 1]
  BY <1>1, <1>2, HeadTailProperties
<1>4. n - 1 \in Nat /\ x = a[1]
  BY <1>1, <1>2
<1>5. PICK s : s = <<x>> \o c
  OBVIOUS
<1>6. s \in Seq(Item) /\ Len(s) = (n - 1) + 1 /\ s[1] = x /\ \A k \in 1..(n - 1) : s[k + 1] = c[k]
  BY <1>3, <1>4, <1>5, ConsIs
<1>7. ASSUME NEW k \in 1..n PROVE s[k] = a[k]
  <2>1. CASE k = 1
    BY <1>4, <1>6, <2>1
  <2>2. CASE k # 1
    <3>1. PICK j : j = k - 1
      OBVIOUS
    <3>2. j \in 1..(n - 1) /\ k = j + 1
      BY <2>2, <3>1
    <3>3. s[j + 1] = c[j] /\ c[j] = a[j + 1]
      BY <1>3, <1>6, <3>2
    <3> QED BY <3>2, <3>3
  <2> QED BY <2>1, <2>2
<1>8. Len(s) = n
  BY <1>1, <1>6
<1>9. s = a
  BY <1>1, <1>6, <1>7, <1>8, SeqEqual
<1> QED BY <1>2, <1>3, <1>5, <1>9

\* o is printed as x: a mark, a variable that has a number in jx, or one that has none in ix.
Spoken(o, x, ix, jx) ==
  \/ jx = ix /\ \E m : o = Mark(m) /\ x = Mark(m)
  \/ jx = ix /\ \E v \in DOMAIN ix : o = Printed(v) /\ x = prettyVarName(ix[v])
  \/ \E v \in Variables : /\ v \notin DOMAIN ix /\ jx = NextNumber(ix, v)
                          /\ o = Printed(v) /\ x = prettyVarName(Cardinality(DOMAIN ix))

\* The text of a clause goes on.
LEMMA PrintingMore ==
  ASSUME NEW c, NEW h, NEW read, NEW ix, NEW txt, NEW n, Printing(c, h, read, ix, txt, n), Dense(ix),
         NEW o, NEW x \in TextElement, NEW b, Emits(h[n], o, b), NEW jx, Spoken(o, x, ix, jx)
  PROVE  /\ Printing(c, Then(h, n, b), Then(read, n, o), jx, Append(txt, x), n + 1)
         /\ Dense(jx) /\ Then(h, n, b)[n + 1] = b
<1>1. PICK g, said : g = Then(h, n, b) /\ said = Then(read, n, o)
  OBVIOUS
<1>2. /\ txt \in Seq(TextElement) /\ n \in Nat /\ n = Len(txt) /\ Prints(h, read, n)
      /\ h[0] = clauseToString(c) /\ Numbered(read, ix, n) /\ Named(read, txt, ix, n)
  BY DEF Printing
<1>3. Prints(g, said, n + 1) /\ g[0] = h[0] /\ g[n + 1] = b /\ OneMore(said, read, n, o)
  <2>1. /\ Prints(g, said, n + 1) /\ g[0] = h[0] /\ g[n + 1] = b
        /\ said[n + 1] = o /\ \A k \in 1..n : said[k] = read[k]
    <3>0. Prints(h, read, n) /\ Emits(h[n], o, b)
      BY <1>2
    <3>1. /\ Prints(Then(h, n, b), Then(read, n, o), n + 1)
          /\ Then(h, n, b)[0] = h[0] /\ Then(h, n, b)[n + 1] = b
          /\ Then(read, n, o)[n + 1] = o /\ \A k \in 1..n : Then(read, n, o)[k] = read[k]
      BY ONLY <3>0, PrintsMore
    <3> QED BY <1>1, <3>1
  <2> QED BY <2>1 DEF OneMore
<1>4. Append(txt, x) \in Seq(TextElement) /\ Len(Append(txt, x)) = n + 1 /\ n + 1 \in Nat
  BY <1>2
<1>5. /\ Numbered(said, jx, n + 1) /\ Dense(jx) /\ Extends(jx, ix)
      /\ \/ \E m : o = Mark(m) /\ x = Mark(m)
         \/ \E v \in DOMAIN jx : o = Printed(v) /\ x = prettyVarName(jx[v])
  <2>1. CASE jx = ix /\ \E m : o = Mark(m) /\ x = Mark(m)
    <3>1. \A v : o # Printed(v)
      BY <2>1, ItemsApart
    <3>2. Numbered(said, ix, n + 1)
      BY <1>2, <1>3, <3>1, NumberedStill
    <3>3. Extends(ix, ix)
      BY DEF Extends
    <3> QED BY <2>1, <3>2, <3>3
  <2>2. CASE jx = ix /\ \E v \in DOMAIN ix : o = Printed(v) /\ x = prettyVarName(ix[v])
    <3>1. \A v : o = Printed(v) => v \in DOMAIN ix
      <4>1. PICK u \in DOMAIN ix : o = Printed(u)
        BY <2>2
      <4>2. \A v : Printed(u) = Printed(v) => u = v
        BY ItemsApart
      <4> QED BY <4>1, <4>2
    <3>2. Numbered(said, ix, n + 1)
      BY <1>2, <1>3, <3>1, NumberedStill
    <3>3. Extends(ix, ix)
      BY DEF Extends
    <3> QED BY <2>2, <3>2, <3>3
  <2>3. CASE \E v \in Variables : /\ v \notin DOMAIN ix /\ jx = NextNumber(ix, v)
                                  /\ o = Printed(v) /\ x = prettyVarName(Cardinality(DOMAIN ix))
    <3>1. PICK v \in Variables : /\ v \notin DOMAIN ix /\ jx = NextNumber(ix, v)
                                 /\ o = Printed(v) /\ x = prettyVarName(Cardinality(DOMAIN ix))
      BY <2>3
    <3>2. OneMore(said, read, n, Printed(v))
      BY <1>3, <3>1
    <3>3. Numbered(said, jx, n + 1)
      BY <1>2, <3>1, <3>2, NumberedNext
    <3>4. \A w \in DOMAIN ix : ix[w] \in Nat
      BY <1>2 DEF Numbered
    <3>5. Dense(jx) /\ Extends(jx, ix) /\ DOMAIN jx = DOMAIN ix \cup {v} /\ jx[v] = Cardinality(DOMAIN ix)
      BY <3>1, <3>4, NextNumberIs
    <3> QED BY <3>1, <3>3, <3>5
  <2> QED BY <2>1, <2>2, <2>3 DEF Spoken
<1>6. Named(said, Append(txt, x), jx, n + 1)
  BY <1>2, <1>3, <1>5, NamedMore
<1> QED BY <1>1, <1>2, <1>3, <1>4, <1>5, <1>6 DEF Printing

-----------------------------------------------------------------------------
(* The inductive invariant                                                  *)

\* The name of the first term has been put in its place, with the arguments.
Unfolded(a, b) ==
  \E t \in DOMAIN Terms, c \in Seq(Item) :
    /\ ~IsVariable(t) /\ a = <<Printed(t)>> \o c
    /\ b = <<Mark(getName(t))>> \o (Arguments(Terms[t].args) \o c)

\* The state is n elements into the text of c.
AtText(c, h, read, ix, n) ==
  /\ Printing(c, h, read, ix, result, n) /\ Dense(ix)
  /\ var_map = [v \in DOMAIN ix |-> prettyVarName(ix[v])]
  /\ agenda = h[n] \/ Unfolded(h[n], agenda)

\* The inductive invariant: the results are texts of their lines, the state is in the next.
PrintInv ==
  /\ lines \in Lines /\ results \in Seq(Seq(TextElement))
  /\ \A m \in DOMAIN results : m \in DOMAIN lines /\ TextOf(lines[m], results[m])
  /\ IF Len(results) < Len(lines)
     THEN \E h, read, ix, n : AtText(lines[Len(results) + 1], h, read, ix, n)
     ELSE agenda = <<>>

\* At the start of a line nothing has been printed of it.
LEMMA PrintingStarts ==
  ASSUME NEW c \in Seq(Literal)
  PROVE  \E h : Printing(c, h, <<>>, <<>>, <<>>, 0) /\ Dense(<<>>) /\ h[0] = clauseToString(c)
<1>1. PICK h, e : h = [k \in {0} |-> clauseToString(c)] /\ e = <<>>
  OBVIOUS
<1>2. h[0] = clauseToString(c) /\ DOMAIN e = {} /\ Len(e) = 0 /\ 1..0 = {} /\ e \in Seq(TextElement)
  BY <1>1
<1>3. Prints(h, e, 0)
  <2>1. h[0] \in Seq(Item) /\ 0 \in Nat
    BY <1>2, ClauseSpaced
  <2> QED BY <1>2, <2>1 DEF Prints
<1>4. Numbered(e, e, 0) /\ Named(e, e, e, 0)
  BY <1>2 DEF Numbered, Named
<1>5. Dense(e)
  <2>1. IsFiniteSet({}) /\ Cardinality({}) = 0
    BY FS_EmptySet
  <2> QED BY <1>2, <2>1 DEF Dense
<1>6. Printing(c, h, e, e, e, 0)
  BY <1>2, <1>3, <1>4 DEF Printing
<1> QED BY <1>1, <1>2, <1>5, <1>6

\* The lines are clauses, and there is a first.
LEMMA LineTyped ==
  ASSUME NEW l \in Lines
  PROVE  /\ l \in Seq(Seq(Literal)) /\ Len(l) \in Nat /\ Len(l) # 0 /\ DOMAIN l = 1..Len(l)
         /\ \A m \in DOMAIN l : l[m] \in Seq(Literal)
<1>1. l \in Seq(Seq(Literal)) /\ l # <<>>
  BY LinesPrintable
<1> QED BY <1>1, LenProperties, EmptySeq, ElementOfSeq

\* It holds at the start.
LEMMA PrintStart == ASSUME PrintInit PROVE PrintInv
<1>1. /\ lines \in Lines /\ agenda = clauseToString(lines[1])
      /\ var_map = <<>> /\ result = <<>> /\ results = <<>>
  BY DEF PrintInit
<1>2. Len(lines) \in Nat /\ Len(lines) # 0 /\ lines[1] \in Seq(Literal)
  <2>1. /\ Len(lines) \in Nat /\ Len(lines) # 0 /\ DOMAIN lines = 1..Len(lines)
        /\ \A m \in DOMAIN lines : lines[m] \in Seq(Literal)
    BY <1>1, LineTyped
  <2>2. 1 \in 1..Len(lines)
    BY <2>1
  <2> QED BY <2>1, <2>2
<1>3. /\ Len(results) = 0 /\ 0 < Len(lines) /\ 0 + 1 = 1
      /\ DOMAIN results = {} /\ results \in Seq(Seq(TextElement))
  BY <1>1, <1>2
<1>4. \E h, read, ix, n : AtText(lines[1], h, read, ix, n)
  <2>1. PICK h : /\ Printing(lines[1], h, <<>>, <<>>, <<>>, 0) /\ Dense(<<>>)
                 /\ h[0] = clauseToString(lines[1])
    BY <1>2, PrintingStarts
  <2>2. var_map = [v \in DOMAIN <<>> |-> prettyVarName(<<>>[v])]
    BY <1>1
  <2>3. AtText(lines[1], h, <<>>, <<>>, 0)
    BY <1>1, <2>1, <2>2 DEF AtText
  <2> QED BY <2>3
<1> QED BY <1>1, <1>3, <1>4 DEF PrintInv

\* The text of a line goes on with x, for what is first.
LEMMA TextGoesOn ==
  ASSUME PrintInv, NEW c, NEW h, NEW read, NEW ix, NEW n, AtText(c, h, read, ix, n),
         Len(results) < Len(lines),
         c = lines[Len(results) + 1],
         NEW o, NEW x \in TextElement, NEW jx, Spoken(o, x, ix, jx), Emits(h[n], o, agenda'),
         result' = Append(result, x), var_map' = [v \in DOMAIN jx |-> prettyVarName(jx[v])],
         UNCHANGED <<lines, results>>
  PROVE  PrintInv'
<1>1. PICK b, txt : b = agenda' /\ txt = result
  OBVIOUS
<1>2. Printing(c, h, read, ix, txt, n) /\ Dense(ix) /\ Emits(h[n], o, b)
  BY <1>1 DEF AtText
<1>3. PICK g, said : /\ Printing(c, g, said, jx, Append(txt, x), n + 1)
                     /\ Dense(jx) /\ g[n + 1] = b
  <2>1. Spoken(o, x, ix, jx) /\ x \in TextElement
    OBVIOUS
  <2>2. /\ Printing(c, Then(h, n, b), Then(read, n, o), jx, Append(txt, x), n + 1)
        /\ Dense(jx) /\ Then(h, n, b)[n + 1] = b
    BY ONLY <1>2, <2>1, PrintingMore
  <2> QED BY <2>2
<1>4. PICK r, l : r = n + 1 /\ l = Len(results) + 1
  OBVIOUS
<1>5. Printing(c, g, said, jx, result', r) /\ agenda' = g[r]
  BY <1>1, <1>3, <1>4
<1>6. AtText(c, g, said, jx, r)'
  BY <1>3, <1>5 DEF AtText
<1>7. lines' = lines /\ results' = results
  OBVIOUS
<1> QED BY <1>6, <1>7 DEF PrintInv

\* With something left to print, the state is in a line.
LEMMA InText ==
  ASSUME PrintInv, agenda # <<>>
  PROVE  \E h, read, ix, n :
           /\ Len(results) < Len(lines)
           /\ AtText(lines[Len(results) + 1], h, read, ix, n)
           /\ h[n] \in Seq(Item) /\ result \in Seq(TextElement)
<1>1. PICK h, read, ix, n : Len(results) < Len(lines) /\ AtText(lines[Len(results) + 1], h, read, ix, n)
  BY DEF PrintInv
<1>2. PICK c : AtText(c, h, read, ix, n) /\ c = lines[Len(results) + 1]
  BY <1>1
<1>3. Prints(h, read, n) /\ result \in Seq(TextElement) /\ n \in Nat
  BY <1>2 DEF AtText, Printing
<1>4. h[n] \in Seq(Item)
  <2>1. n = 0 \/ n \in 1..n
    BY <1>3
  <2> QED BY <1>3, <2>1 DEF Prints
<1> QED BY <1>1, <1>3, <1>4

\* An item that is printed as it is.
LEMMA EmitsItself ==
  ASSUME NEW a \in Seq(Item), a # <<>>,
         \/ Head(a) \in PunctItem
         \/ \E t \in DOMAIN Terms : IsVariable(t) /\ Head(a) = Printed(t)
  PROVE  Emits(a, Head(a), Tail(a))
<1>1. PICK x, c : x = Head(a) /\ c = Tail(a)
  OBVIOUS
<1>2. x \in Item /\ c \in Seq(Item) /\ a = <<x>> \o c
  BY <1>1, HeadFirst
<1>3. Emitted(x, x, <<>>)
  BY <1>1 DEF Emitted
<1>4. c = <<>> \o c /\ <<>> \in Seq(Item)
  BY <1>2, ConcatEmptySeq
<1>5. Emits(a, x, c)
  BY <1>2, <1>3, <1>4 DEF Emits
<1> QED BY <1>1, <1>5

\* What is in the place of an opened term.
LEMMA UnfoldedIs ==
  ASSUME NEW a, NEW b, Unfolded(a, b)
  PROVE  /\ \E t \in DOMAIN Terms : Head(b) = Mark(getName(t))
         /\ b # <<>> /\ Emits(a, Head(b), Tail(b))
<1>1. PICK t \in DOMAIN Terms, c \in Seq(Item) :
        /\ ~IsVariable(t) /\ a = <<Printed(t)>> \o c
        /\ b = <<Mark(getName(t))>> \o (Arguments(Terms[t].args) \o c)
  BY DEF Unfolded
<1>2. PICK e, d, x, y : /\ e = Arguments(Terms[t].args) /\ d = e \o c
                        /\ x = Printed(t) /\ y = Mark(getName(t))
  OBVIOUS
<1>3. e \in Seq(Item)
  BY <1>2, ArgsAreTerms, ArgumentsAre
<1>4. d \in Seq(Item)
  BY <1>2, <1>3, ConcatProperties
<1>5. b # <<>> /\ Head(b) = y /\ Tail(b) = d
  BY <1>1, <1>2, <1>4, ConsHead
<1>6. x \in Item
  BY <1>2 DEF Item, TermItem
<1>7. Emitted(x, y, e)
  BY <1>1, <1>2 DEF Emitted
<1>8. Emits(a, y, d)
  BY <1>1, <1>2, <1>3, <1>6, <1>7 DEF Emits
<1> QED BY <1>2, <1>5, <1>8

\* A mark is copied.
LEMMA MarkStep == ASSUME PrintInv, PrintMark PROVE PrintInv'
<1>1. /\ agenda # <<>> /\ "mark" \in DOMAIN Head(agenda)
      /\ result' = Append(result, Head(agenda)) /\ agenda' = Tail(agenda)
      /\ UNCHANGED <<lines, var_map, results>>
  BY DEF PrintMark, AtMark
<1>2. PICK h, read, ix, n : /\ Len(results) < Len(lines)
                            /\ AtText(lines[Len(results) + 1], h, read, ix, n)
                            /\ h[n] \in Seq(Item) /\ result \in Seq(TextElement)
  BY <1>1, InText
<1>3. PICK a, c, x : a = h[n] /\ c = lines[Len(results) + 1] /\ x = Head(agenda)
  OBVIOUS
<1>4. AtText(c, h, read, ix, n)
  BY <1>2, <1>3
<1>5. Emits(a, x, agenda') /\ (\E m : x = Mark(m)) /\ x \in TextElement
  <2>1. CASE agenda = a
    <3>1. x \in Item /\ agenda \in Seq(Item)
      BY <1>1, <1>2, <1>3, <2>1, HeadFirst
    <3>2. x \in PunctItem
      BY <1>1, <1>3, <3>1, ItemsApart DEF Item, TermItem
    <3>3. Emits(a, x, agenda')
      BY <1>1, <1>2, <1>3, <2>1, <3>2, EmitsItself
    <3>4. PICK m \in Punctuation : x = Mark(m)
      BY <3>2 DEF PunctItem
    <3> QED BY <3>3, <3>4 DEF TextElement
  <2>2. CASE Unfolded(a, agenda)
    <3>1. PICK t \in DOMAIN Terms : x = Mark(getName(t))
      BY <1>3, <2>2, UnfoldedIs
    <3>2. Emits(a, x, agenda')
      BY <1>1, <1>3, <2>2, UnfoldedIs
    <3> QED BY <3>1, <3>2 DEF TextElement
  <2> QED BY <1>3, <1>4, <2>1, <2>2 DEF AtText
<1>6. Spoken(x, x, ix, ix)
  BY <1>5 DEF Spoken
<1>7. var_map' = [v \in DOMAIN ix |-> prettyVarName(ix[v])]
  BY <1>1, <1>4 DEF AtText
<1>8. UNCHANGED <<lines, results>> /\ Len(results) < Len(lines) /\ c = lines[Len(results) + 1]
  BY <1>1, <1>2, <1>3
<1>9. Emits(h[n], x, agenda') /\ result' = Append(result, x) /\ x \in TextElement
  BY <1>1, <1>3, <1>5
<1> QED BY <1>4, <1>6, <1>7, <1>8, <1>9, TextGoesOn

\* Where a term is to be printed, what is left has not been opened.
LEMMA TermFirst ==
  ASSUME PrintInv, AtPrinted
  PROVE  \E c, h, read, ix, n :
           /\ Len(results) < Len(lines) /\ c = lines[Len(results) + 1] /\ AtText(c, h, read, ix, n)
           /\ agenda = h[n] /\ agenda \in Seq(Item) /\ agenda # <<>>
           /\ Current \in DOMAIN Terms /\ Head(agenda) = Printed(Current)
<1>1. agenda # <<>> /\ "term" \in DOMAIN Head(agenda)
  BY DEF AtPrinted
<1>2. PICK h, read, ix, n : /\ Len(results) < Len(lines)
                            /\ AtText(lines[Len(results) + 1], h, read, ix, n)
                            /\ h[n] \in Seq(Item) /\ result \in Seq(TextElement)
  BY <1>1, InText
<1>3. PICK c : c = lines[Len(results) + 1]
  OBVIOUS
<1>4. agenda = h[n]
  <2>1. ~Unfolded(h[n], agenda)
    BY <1>1, ItemsApart, UnfoldedIs
  <2> QED BY <1>2, <2>1 DEF AtText
<1>5. Head(agenda) \in Item
  BY <1>1, <1>2, <1>4, HeadFirst
<1>6. Current \in DOMAIN Terms /\ Head(agenda) = Printed(Current)
  <2>1. Head(agenda) \in TermItem
    BY <1>1, <1>5, ItemsApart DEF Item, PunctItem
  <2>2. PICK t \in DOMAIN Terms : Head(agenda) = Printed(t)
    BY <2>1 DEF TermItem
  <2>3. Head(agenda).term = t
    BY <2>2, ItemsApart
  <2> QED BY <2>2, <2>3 DEF Current
<1>7. agenda \in Seq(Item) /\ AtText(c, h, read, ix, n) /\ Len(results) < Len(lines)
  BY <1>2, <1>3, <1>4
<1>8. /\ Len(results) < Len(lines) /\ c = lines[Len(results) + 1] /\ AtText(c, h, read, ix, n)
      /\ agenda = h[n] /\ agenda \in Seq(Item) /\ agenda # <<>>
      /\ Current \in DOMAIN Terms /\ Head(agenda) = Printed(Current)
  BY <1>1, <1>3, <1>4, <1>6, <1>7
<1> QED BY <1>8

\* A variable with a name is printed with it.
LEMMA KnownStep == ASSUME PrintInv, PrintKnownVariable PROVE PrintInv'
<1>1. /\ AtPrinted /\ IsVariable(Current) /\ Current \in DOMAIN var_map
      /\ result' = Append(result, var_map[Current]) /\ agenda' = Tail(agenda)
      /\ UNCHANGED <<lines, var_map, results>>
  BY DEF PrintKnownVariable
<1>2. PICK c, h, read, ix, n :
        /\ Len(results) < Len(lines) /\ c = lines[Len(results) + 1] /\ AtText(c, h, read, ix, n)
        /\ agenda = h[n] /\ agenda \in Seq(Item) /\ agenda # <<>>
        /\ Current \in DOMAIN Terms /\ Head(agenda) = Printed(Current)
  BY <1>1, TermFirst
<1>3. PICK v, x : v = Current /\ x = var_map[v]
  OBVIOUS
<1>4. var_map = [w \in DOMAIN ix |-> prettyVarName(ix[w])] /\ Numbered(read, ix, n)
  BY <1>2 DEF AtText, Printing
<1>5. v \in DOMAIN ix /\ x = prettyVarName(ix[v]) /\ ix[v] \in Nat
  <2>1. v \in DOMAIN ix /\ x = prettyVarName(ix[v])
    BY <1>1, <1>3, <1>4
  <2> QED BY <1>4, <2>1 DEF Numbered
<1>6. Emits(h[n], Printed(v), agenda')
  <2>1. Emits(agenda, Head(agenda), Tail(agenda))
    BY <1>1, <1>2, EmitsItself
  <2> QED BY <1>1, <1>2, <1>3, <2>1
<1>7. x \in TextElement /\ Spoken(Printed(v), x, ix, ix)
  BY <1>5 DEF TextElement, Spoken
<1>8. result' = Append(result, x) /\ var_map' = [w \in DOMAIN ix |-> prettyVarName(ix[w])]
  BY <1>1, <1>3, <1>4
<1> QED BY <1>1, <1>2, <1>6, <1>7, <1>8, TextGoesOn

\* A new variable gets the next name.
LEMMA NewStep == ASSUME PrintInv, PrintNewVariable PROVE PrintInv'
<1>1. /\ AtPrinted /\ IsVariable(Current) /\ Current \notin DOMAIN var_map
      /\ var_map' = [w \in DOMAIN var_map \cup {Current} |->
                       IF w = Current THEN prettyVarName(Cardinality(DOMAIN var_map)) ELSE var_map[w]]
      /\ result' = Append(result, prettyVarName(Cardinality(DOMAIN var_map))) /\ agenda' = Tail(agenda)
      /\ UNCHANGED <<lines, results>>
  BY DEF PrintNewVariable
<1>2. PICK c, h, read, ix, n :
        /\ Len(results) < Len(lines) /\ c = lines[Len(results) + 1] /\ AtText(c, h, read, ix, n)
        /\ agenda = h[n] /\ agenda \in Seq(Item) /\ agenda # <<>>
        /\ Current \in DOMAIN Terms /\ Head(agenda) = Printed(Current)
  BY <1>1, TermFirst
<1>3. PICK v, x, jx : v = Current /\ x = prettyVarName(Cardinality(DOMAIN ix)) /\ jx = NextNumber(ix, v)
  OBVIOUS
<1>4. var_map = [w \in DOMAIN ix |-> prettyVarName(ix[w])] /\ Numbered(read, ix, n) /\ Dense(ix)
  BY <1>2 DEF AtText, Printing
<1>5. DOMAIN var_map = DOMAIN ix /\ \A w \in DOMAIN ix : var_map[w] = prettyVarName(ix[w])
  BY <1>4
<1>6. v \in Variables /\ v \notin DOMAIN ix
  BY <1>1, <1>2, <1>3, <1>5 DEF Variables
<1>7. Emits(h[n], Printed(v), agenda')
  <2>1. Emits(agenda, Head(agenda), Tail(agenda))
    BY <1>1, <1>2, EmitsItself
  <2> QED BY <1>1, <1>2, <1>3, <2>1
<1>8. Spoken(Printed(v), x, ix, jx)
  BY <1>3, <1>6 DEF Spoken
<1>9. x \in TextElement
  <2>1. Cardinality(DOMAIN ix) \in Nat
    BY <1>4, FS_CardinalityType DEF Dense
  <2> QED BY <1>3, <2>1 DEF TextElement
<1>10. result' = Append(result, x)
  BY <1>1, <1>3, <1>5
<1>11. var_map' = [w \in DOMAIN jx |-> prettyVarName(jx[w])]
  <2>1. /\ DOMAIN jx = DOMAIN ix \cup {v}
        /\ \A w \in DOMAIN jx : jx[w] = IF w = v THEN Cardinality(DOMAIN ix) ELSE ix[w]
    BY <1>3 DEF NextNumber
  <2>2. var_map' = [w \in DOMAIN ix \cup {v} |-> IF w = v THEN x ELSE var_map[w]]
    BY <1>1, <1>3, <1>5
  <2>3. \A w \in DOMAIN ix \cup {v} : (IF w = v THEN x ELSE var_map[w]) = prettyVarName(jx[w])
    BY <1>3, <1>5, <2>1
  <2> QED BY <2>1, <2>2, <2>3
<1>12. UNCHANGED <<lines, results>> /\ Len(results) < Len(lines) /\ c = lines[Len(results) + 1]
  BY <1>1, <1>2
<1>13. AtText(c, h, read, ix, n)
  BY <1>2
<1> QED BY <1>7, <1>8, <1>9, <1>10, <1>11, <1>12, <1>13, TextGoesOn

\* The name of a function or predicate is put in its place, with the arguments.
LEMMA OpeningStep == ASSUME PrintInv, PrintApplication PROVE PrintInv'
<1>1. /\ AtPrinted /\ ~IsVariable(Current)
      /\ agenda' = <<Mark(getName(Current))>> \o Arguments(Terms[Current].args) \o Tail(agenda)
      /\ UNCHANGED <<lines, var_map, result, results>>
  BY DEF PrintApplication
<1>2. PICK c, h, read, ix, n :
        /\ Len(results) < Len(lines) /\ c = lines[Len(results) + 1] /\ AtText(c, h, read, ix, n)
        /\ agenda = h[n] /\ agenda \in Seq(Item) /\ agenda # <<>>
        /\ Current \in DOMAIN Terms /\ Head(agenda) = Printed(Current)
  BY <1>1, TermFirst
<1>3. PICK t, e, d, x : /\ t = Current /\ e = Arguments(Terms[t].args) /\ d = Tail(agenda)
                         /\ x = Mark(getName(t)) /\ t \in DOMAIN Terms
  BY <1>2
<1>4. d \in Seq(Item) /\ agenda = <<Printed(t)>> \o d
  BY <1>2, <1>3, HeadFirst
<1>5. e \in Seq(Item)
  BY <1>3, ArgsAreTerms, ArgumentsAre
<1>6. agenda' = <<x>> \o (e \o d)
  <2>1. PICK T : T = Item \cup {x}
    OBVIOUS
  <2>2. Seq(Item) \subseteq Seq(T)
    <3>1. Item \subseteq T
      BY <2>1
    <3> QED BY <3>1
  <2>3. <<x>> \in Seq(T) /\ e \in Seq(T) /\ d \in Seq(T)
    BY <1>4, <1>5, <2>1, <2>2
  <2>4. (<<x>> \o e) \o d = <<x>> \o (e \o d)
    BY <2>3, ConcatAssociative
  <2> QED BY <1>1, <1>3, <2>4
<1>7. Unfolded(agenda, agenda')
  BY <1>1, <1>3, <1>4, <1>6 DEF Unfolded
<1>8. AtText(c, h, read, ix, n)'
  <2>1. Unfolded(h[n], agenda')
    BY <1>2, <1>7
  <2> QED BY <1>1, <1>2, <2>1 DEF AtText
<1>9. lines' = lines /\ results' = results
  BY <1>1
<1>10. \E g, said, jx, m : AtText(lines[Len(results) + 1], g, said, jx, m)'
  BY <1>2, <1>8, <1>9
<1> QED BY <1>2, <1>9, <1>10 DEF PrintInv

\* The text of the line is added to the results.
LEMMA EndStep == ASSUME PrintInv, EndLine PROVE PrintInv'
<1>1. /\ agenda = <<>> /\ Len(results) < Len(lines)
      /\ results' = Append(results, result) /\ result' = <<>> /\ var_map' = <<>>
      /\ agenda' = (IF Len(results') < Len(lines) THEN clauseToString(lines[Len(results') + 1]) ELSE <<>>)
      /\ lines' = lines
  BY DEF EndLine
<1>2. /\ lines \in Lines /\ results \in Seq(Seq(TextElement))
      /\ \A m \in DOMAIN results : m \in DOMAIN lines /\ TextOf(lines[m], results[m])
  BY DEF PrintInv
<1>3. PICK h, read, ix, n : AtText(lines[Len(results) + 1], h, read, ix, n)
  BY <1>1 DEF PrintInv
<1>4. PICK l \in Nat : l = Len(results)
  BY <1>2, LenProperties
<1>5. PICK c : c = lines[l + 1]
  OBVIOUS
<1>6. Printing(c, h, read, ix, result, n) /\ result \in Seq(TextElement)
  BY <1>3, <1>4, <1>5 DEF AtText, Printing
<1>7. h[n] = <<>>
  <2>1. ~Unfolded(h[n], agenda)
    BY <1>1, UnfoldedIs
  <2> QED BY <1>1, <1>3, <2>1 DEF AtText
<1>8. TextOf(c, result)
  BY <1>6, <1>7 DEF TextOf
<1>9. /\ DOMAIN lines = 1..Len(lines) /\ Len(lines) \in Nat
      /\ \A m \in DOMAIN lines : lines[m] \in Seq(Literal)
  BY <1>2, LineTyped
<1>10. /\ results' \in Seq(Seq(TextElement)) /\ Len(results') = l + 1 /\ DOMAIN results' = 1..(l + 1)
      /\ results'[l + 1] = result /\ \A m \in 1..l : m \in DOMAIN results /\ results'[m] = results[m]
  BY <1>1, <1>2, <1>4, <1>6
<1>11. ASSUME NEW m \in DOMAIN results' PROVE m \in DOMAIN lines' /\ TextOf(lines'[m], results'[m])
  <2>1. CASE m = l + 1
    <3>1. m \in DOMAIN lines
      BY <1>1, <1>4, <1>9, <2>1
    <3> QED BY <1>1, <1>8, <1>10, <1>5, <2>1, <3>1
  <2>2. CASE m # l + 1
    <3>1. m \in 1..l
      BY <1>10, <2>2
    <3> QED BY <1>1, <1>2, <1>10, <3>1
  <2> QED BY <2>1, <2>2
<1>12. CASE Len(results') < Len(lines)
  <2>1. PICK d : d = lines[Len(results') + 1]
    OBVIOUS
  <2>2. d \in Seq(Literal)
    <3>1. (l + 1) + 1 \in 1..Len(lines)
      BY <1>9, <1>10, <1>12
    <3> QED BY <1>9, <1>10, <2>1, <3>1
  <2>3. result' = <<>> /\ var_map' = <<>> /\ agenda' = clauseToString(d)
    BY <1>1, <1>12, <2>1
  <2>4. PICK g : Printing(d, g, <<>>, <<>>, <<>>, 0) /\ Dense(<<>>) /\ g[0] = clauseToString(d)
    BY <2>2, PrintingStarts
  <2>5. [v \in DOMAIN <<>> |-> prettyVarName(<<>>[v])] = <<>>
    OBVIOUS
  <2>6. AtText(d, g, <<>>, <<>>, 0)'
    BY <2>3, <2>4, <2>5 DEF AtText
  <2>7. \E k, said, jx, m : AtText(lines[Len(results) + 1], k, said, jx, m)'
    BY <1>1, <2>1, <2>6
  <2> QED BY <1>1, <1>2, <1>10, <1>11, <1>12, <2>7 DEF PrintInv
<1>13. CASE ~(Len(results') < Len(lines))
  BY <1>1, <1>2, <1>10, <1>11, <1>13 DEF PrintInv
<1> QED BY <1>12, <1>13

\* Every step keeps the invariant.
LEMMA PrintStep == ASSUME PrintInv, [PrintNext]_print_vars PROVE PrintInv'
<1>1. CASE PrintMark
  BY <1>1, MarkStep
<1>2. CASE PrintKnownVariable
  BY <1>2, KnownStep
<1>3. CASE PrintNewVariable
  BY <1>3, NewStep
<1>4. CASE PrintApplication
  BY <1>4, OpeningStep
<1>5. CASE EndLine
  BY <1>5, EndStep
<1>6. CASE UNCHANGED print_vars
  <2>1. /\ lines' = lines /\ agenda' = agenda /\ var_map' = var_map
        /\ result' = result /\ results' = results
    BY <1>6 DEF print_vars
  <2>2. ASSUME NEW c, NEW h, NEW read, NEW ix, NEW n, AtText(c, h, read, ix, n)
        PROVE  AtText(c, h, read, ix, n)'
    BY <2>1, <2>2 DEF AtText
  <2>3. CASE Len(results) < Len(lines)
    <3>1. PICK h, read, ix, n : AtText(lines[Len(results) + 1], h, read, ix, n)
      BY <2>3 DEF PrintInv
    <3>2. PICK c : c = lines[Len(results) + 1]
      OBVIOUS
    <3>3. AtText(c, h, read, ix, n)'
      BY <2>2, <3>1, <3>2
    <3>4. \E g, said, jx, m : AtText(lines[Len(results) + 1], g, said, jx, m)'
      BY <2>1, <3>2, <3>3
    <3> QED BY <2>1, <2>3, <3>4 DEF PrintInv
  <2>4. CASE ~(Len(results) < Len(lines))
    BY <2>1, <2>4 DEF PrintInv
  <2> QED BY <2>3, <2>4
<1> QED BY <1>1, <1>2, <1>3, <1>4, <1>5, <1>6 DEF PrintNext, termToPretty

\* Texts of lines are the same if and only if the lines are variants.
LEMMA TextsFaithful == ASSUME PrintInv PROVE TextIsFaithful
<1>1. ASSUME NEW m \in DOMAIN results, NEW n \in DOMAIN results
      PROVE  results[m] = results[n] <=> Variants(lines[m], lines[n])
  <2>1. /\ lines \in Lines /\ m \in DOMAIN lines /\ n \in DOMAIN lines
        /\ TextOf(lines[m], results[m]) /\ TextOf(lines[n], results[n])
    BY DEF PrintInv
  <2>2. lines[m] \in Seq(Literal) /\ lines[n] \in Seq(Literal)
    BY <2>1, LineTyped
  <2> QED BY <2>1, <2>2, TextsAgree
<1> QED BY <1>1 DEF TextIsFaithful

\* Two lines of a printed proof read the same if and only if they are the same clause up to
\* the names of variables: clauseToString() neither confuses two clauses nor tells two
\* copies of one apart, for clauses over every bank.
THEOREM TextCorrect == PrintSpec => []TextIsFaithful
<1>1. PrintInit => PrintInv
  BY PrintStart
<1>2. PrintInv /\ [PrintNext]_print_vars => PrintInv'
  BY PrintStep
<1>3. PrintInv => TextIsFaithful
  BY TextsFaithful
<1> QED BY <1>1, <1>2, <1>3, PTL DEF PrintSpec
=============================================================================
