--------------------------- MODULE AnswersProofs ---------------------------
(***************************************************************************)
(* What the page computes of a question and of an answer: the agent that   *)
(* the router picks and the starter questions it offers, for any           *)
(* catalogue, any terms and weights and any number of agents (Router), and *)
(* the body and the drawer that a streamed answer is cut into, for any     *)
(* lines in any order (PlainAnswer).                                       *)
(*                                                                         *)
(* Their loops are recursive functions.  An induction is carried by a set: *)
(* the indices at which the claim holds contain the first one and, with an *)
(* index, the next.                                                        *)
(***************************************************************************)
EXTENDS Router, PlainAnswer, FiniteSetTheorems, SequenceTheorems, WellFoundedInduction, TLAPS

-----------------------------------------------------------------------------
(* Induction over data.                                                    *)

\* A set of numbers that is not empty has a least one.
LEMMA Least == ASSUME NEW T \in SUBSET Nat, T # {} PROVE \E x \in T : \A y \in T : x <= y
<1> DEFINE R == OpToRel(<, Nat)
<1>1. IsWellFoundedOn(R, Nat)
  BY NatLessThanWellFounded
<1>2. \A x, y \in Nat : <<y, x>> \in R <=> y < x
  BY DEF OpToRel
<1> HIDE DEF R
<1>3. \E x \in T : \A y \in T : ~ (<<y, x>> \in R)
  BY <1>1, WFMin
<1>4. PICK x \in T : \A y \in T : ~ (<<y, x>> \in R)
  BY <1>3
<1>5. \A y \in T : x \in Nat /\ y \in Nat /\ ~(y < x)
  BY <1>2, <1>4
<1>6. \A y \in T : x <= y
  BY <1>5
<1>7. QED
  BY <1>6

\* A set with zero and the successors of its members has every number.
LEMMA Induct ==
  ASSUME NEW T, 0 \in T, \A n \in Nat : n \in T => n + 1 \in T
  PROVE  Nat \subseteq T
<1> SUFFICES ASSUME Nat \ T # {} PROVE FALSE
  OBVIOUS
<1>1. PICK x \in Nat \ T : \A y \in Nat \ T : x <= y
  BY Least
<1>2. x # 0 /\ x - 1 \in Nat
  OBVIOUS
<1>3. x - 1 \in T
  BY <1>1, <1>2
<1>4. QED
  BY <1>2, <1>3

\* A loop over 1..n whose passes are the functions step[1], step[2], ...
Passes(n, D) == [1..n -> [D -> D]]
IsRun(f, step, n, d, D) ==
    f \in [0..n -> D] /\ f[0] = d /\ \A i \in 1..n : f[i] = step[i][f[i - 1]]

\* There is such a loop, whatever its passes do.
LEMMA LoopExists ==
  ASSUME NEW D, NEW d \in D, NEW n \in Nat, NEW step \in Passes(n, D)
  PROVE  \E f : IsRun(f, step, n, d, D)
<1> USE DEF Passes, IsRun
<1> DEFINE Runs(m) == {f \in [0..m -> D] : f[0] = d /\ \A i \in 1..m : f[i] = step[i][f[i - 1]]}
           T == {m \in Nat : m <= n => Runs(m) # {}}
<1>1. 0 \in T
  <2>1. [i \in 0..0 |-> d] \in Runs(0)
    OBVIOUS
  <2>2. QED
    BY <2>1
<1>2. ASSUME NEW m \in Nat, m \in T  PROVE m + 1 \in T
  <2>1. SUFFICES ASSUME m + 1 <= n  PROVE Runs(m + 1) # {}
    OBVIOUS
  <2>2. PICK f \in [0..m -> D] : f[0] = d /\ \A i \in 1..m : f[i] = step[i][f[i - 1]]
    BY <1>2, <2>1
  <2> DEFINE g == [i \in 0..(m + 1) |-> IF i = m + 1 THEN step[m + 1][f[m]] ELSE f[i]]
  <2>3. step[m + 1] \in [D -> D] /\ f[m] \in D
    BY <2>1, <2>2
  <2>4. step[m + 1][f[m]] \in D
    BY <2>3
  <2>5. g \in [0..(m + 1) -> D] /\ g[0] = d
    BY <2>2, <2>4
  <2>6. ASSUME NEW i \in 1..(m + 1)  PROVE g[i] = step[i][g[i - 1]]
    <3>1. CASE i = m + 1
      BY <3>1
    <3>2. CASE i # m + 1
      <4>1. i \in 1..m /\ i - 1 \in 0..m /\ i - 1 # m + 1 /\ i \in 0..(m+1) /\ i - 1 \in 0..(m+1)
        BY <3>2
      <4>2. g[i] = f[i] /\ g[i - 1] = f[i - 1]
        BY <3>2, <4>1
      <4>3. QED
        BY <2>2, <4>1, <4>2
    <3>3. QED
      BY <3>1, <3>2
  <2>7. g \in Runs(m + 1)
    BY <2>5, <2>6
  <2>8. QED
    BY <2>7
<1> HIDE DEF T
<1>3. n \in T
  BY <1>1, <1>2, Induct
<1>4. QED
  BY <1>3 DEF T

\* Induction along a loop over 1..n.
LEMMA UpTo ==
  ASSUME NEW n \in Nat, NEW P, 0 \in P, \A i \in 1..n : i - 1 \in P => i \in P
  PROVE  0..n \subseteq P
<1> DEFINE T == {i \in Nat : i <= n => i \in P}
<1>1. 0 \in T
  OBVIOUS
<1>2. ASSUME NEW i \in Nat, i \in T  PROVE i + 1 \in T
  <2>1. SUFFICES ASSUME i + 1 <= n  PROVE i + 1 \in P
    OBVIOUS
  <2>2. i + 1 \in 1..n /\ (i + 1) - 1 = i /\ i \in P
    BY <1>2, <2>1
  <2>3. QED
    BY <2>2
<1> HIDE DEF T
<1>3. Nat \subseteq T
  BY <1>1, <1>2, Induct
<1>4. QED
  BY <1>3 DEF T

\* A loop that goes from each i of m..n on to a later one, or ends at n + 1.
Jumps(m, n) == {jump \in [m..n -> Nat] : \A i \in m..n : jump[i] \in (i + 1)..(n + 1)}
Leaps(m, n, D) == [m..n -> [D -> D]]
IsWalk(f, jump, step, m, n, d, D) ==
    /\ f \in [m..(n + 1) -> D] /\ f[n + 1] = d
    /\ \A i \in m..n : f[i] = step[i][f[jump[i]]]

\* There is such a walk, wherever it jumps.
LEMMA WalkExists ==
  ASSUME NEW m \in Nat, NEW n \in Nat, m <= n + 1, NEW D, NEW d \in D,
         NEW jump \in Jumps(m, n), NEW step \in Leaps(m, n, D)
  PROVE  \E f : IsWalk(f, jump, step, m, n, d, D)
<1> DEFINE From(k) == {f \in [k..(n + 1) -> D] :
                         /\ f[n + 1] = d
                         /\ \A i \in k..n : f[i] = step[i][f[jump[i]]]}
           T == {k \in Nat : k <= n + 1 - m => From(n + 1 - k) # {}}
<1>1. /\ \A i \in m..n : jump[i] \in (i + 1)..(n + 1)
      /\ step \in [m..n -> [D -> D]]
  BY DEF Jumps, Leaps
<1>2. 0 \in T
  <2>1. [i \in (n + 1)..(n + 1) |-> d] \in From(n + 1)
    OBVIOUS
  <2>2. n + 1 - 0 = n + 1
    OBVIOUS
  <2> HIDE DEF From
  <2>3. QED
    BY <2>1, <2>2
<1>3. ASSUME NEW k \in Nat, k \in T  PROVE k + 1 \in T
  <2>1. SUFFICES ASSUME k + 1 <= n + 1 - m  PROVE From(n + 1 - (k + 1)) # {}
    OBVIOUS
  <2> DEFINE q == n - k
  <2>2. q \in m..n /\ n + 1 - k = q + 1 /\ n + 1 - (k + 1) = q
    BY <2>1
  <2>3. PICK f : f \in From(q + 1)
    <3>1. k <= n + 1 - m
      BY <2>1
    <3> HIDE DEF From, q
    <3>2. From(n + 1 - k) # {}
      BY <1>3, <3>1
    <3>3. QED
      BY <2>2, <3>2
  <2> HIDE DEF q
  <2>4. /\ f \in [(q + 1)..(n + 1) -> D] /\ f[n + 1] = d
        /\ \A i \in (q + 1)..n : f[i] = step[i][f[jump[i]]]
    BY <2>3
  <2>5. jump[q] \in (q + 1)..(n + 1) /\ step[q] \in [D -> D]
    BY <1>1, <2>2
  <2>6. f[jump[q]] \in D
    BY <2>4, <2>5
  <2>7. step[q][f[jump[q]]] \in D
    BY <2>5, <2>6
  <2> DEFINE g == [i \in q..(n + 1) |-> IF i = q THEN step[q][f[jump[q]]] ELSE f[i]]
  <2>8. \A i \in q..(n + 1) : i = q \/ i \in (q + 1)..(n + 1)
    BY <2>2
  <2>9. g \in [q..(n + 1) -> D] /\ g[n + 1] = d
    BY <2>2, <2>4, <2>7, <2>8
  <2>10. \A i \in (q + 1)..(n + 1) : g[i] = f[i]
    BY <2>2
  <2>11. ASSUME NEW i \in q..n  PROVE g[i] = step[i][g[jump[i]]]
    <3>1. jump[i] \in (q + 1)..(n + 1) /\ i \in q..(n + 1)
      BY <1>1, <2>2
    <3>2. g[jump[i]] = f[jump[i]]
      BY <2>10, <3>1
    <3>3. CASE i = q
      BY <3>1, <3>2, <3>3
    <3>4. CASE i # q
      <4>1. i \in (q + 1)..n /\ i \in (q + 1)..(n + 1)
        BY <2>2, <3>4
      <4> HIDE DEF g
      <4>2. g[i] = f[i] /\ f[i] = step[i][f[jump[i]]]
        BY <2>4, <2>10, <4>1
      <4>3. QED
        BY <3>2, <4>2
    <3>5. QED
      BY <3>3, <3>4
  <2> HIDE DEF g
  <2>12. g \in From(q)
    BY <2>9, <2>11
  <2> HIDE DEF From
  <2>13. QED
    BY <2>2, <2>12
<1> HIDE DEF T
<1>4. n + 1 - m \in T
  BY <1>2, <1>3, Induct
<1>5. From(m) # {}
  <2>1. n + 1 - (n + 1 - m) = m
    OBVIOUS
  <2> HIDE DEF From
  <2>2. QED
    BY <1>4, <2>1 DEF T
<1>6. QED
  BY <1>5 DEF IsWalk

\* What holds at the end and, if it holds later on, before holds everywhere.
LEMMA Backwards ==
  ASSUME NEW m \in Nat, NEW n \in Nat, NEW P, n + 1 \in P,
         \A i \in m..n : (i + 1)..(n + 1) \subseteq P => i \in P
  PROVE  m..(n + 1) \subseteq P
<1> SUFFICES ASSUME NEW j \in m..(n + 1), j \notin P  PROVE FALSE
  OBVIOUS
<1> DEFINE T == {k \in Nat : k <= n + 1 - m /\ (n + 1 - k) \notin P}
<1>1. n + 1 - j \in T
  <2>1. n + 1 - (n + 1 - j) = j /\ n + 1 - j \in Nat /\ n + 1 - j <= n + 1 - m
    OBVIOUS
  <2>2. QED
    BY <2>1
<1>2. PICK k \in T : \A l \in T : k <= l
  <2>1. T \in SUBSET Nat
    OBVIOUS
  <2> HIDE DEF T
  <2>2. QED
    BY <1>1, <2>1, Least
<1> DEFINE i == n + 1 - k
<1>3. i \in m..(n + 1) /\ i \notin P /\ k \in Nat
  OBVIOUS
<1>4. i # n + 1
  BY <1>3
<1>5. i \in m..n
  BY <1>3, <1>4
<1>6. ASSUME NEW l \in (i + 1)..(n + 1)  PROVE l \in P
  <2>1. n + 1 - l \in Nat /\ n + 1 - l < k /\ n + 1 - l <= n + 1 - m /\ n + 1 - (n + 1 - l) = l
    BY <1>3
  <2>2. n + 1 - l \notin T
    <3>1. \A x \in T : k <= x
      BY <1>2
    <3>2. ~ (k <= n + 1 - l)
      BY <1>3, <2>1
    <3> HIDE DEF T
    <3>3. QED
      BY <3>1, <3>2
  <2>3. QED
    BY <2>1, <2>2
<1> HIDE DEF i, T
<1>7. QED
  BY <1>3, <1>5, <1>6

-----------------------------------------------------------------------------
(* The router: scoreAgent, route and starterItems.                         *)

\* What Only keeps is in both.
LEMMA OnlyKeeps ==
  ASSUME NEW S, NEW s \in Seq(S), NEW T
  PROVE  Only(s, T) \in Seq(S \cap T)
<1> DEFINE n == Len(s)
           D == Seq(S \cap T)
           step == [i \in 1..n |-> [q \in D |-> IF s[i] \in T THEN Append(q, s[i]) ELSE q]]
           unrolled(g) == [i \in 0..n |->
                         IF i = 0 THEN <<>>
                         ELSE IF s[i] \in T THEN Append(g[i - 1], s[i]) ELSE g[i - 1]]
           kept[i \in 0..n] ==
             IF i = 0 THEN <<>>
             ELSE IF s[i] \in T THEN Append(kept[i - 1], s[i]) ELSE kept[i - 1]
<1>1. n \in Nat /\ <<>> \in D /\ \A i \in 1..n : s[i] \in S
  OBVIOUS
<1>2. \A i \in 1..n, q \in D : (IF s[i] \in T THEN Append(q, s[i]) ELSE q) \in D
  BY <1>1
<1>3. step \in Passes(n, D)
  BY <1>2 DEF Passes
<1>4. \E f : IsRun(f, step, n, <<>>, D)
  <2> HIDE DEF n, D, step
  <2>1. QED
    BY <1>1, <1>3, LoopExists
<1>5. PICK f : f \in [0..n -> D] /\ f[0] = <<>> /\ \A i \in 1..n : f[i] = step[i][f[i - 1]]
  BY <1>4 DEF IsRun
<1>6. f = unrolled(f)
  <2> HIDE DEF n, D
  <2>1. ASSUME NEW i \in 1..n  PROVE f[i] = unrolled(f)[i]
    <3>1. f[i - 1] \in D /\ i # 0 /\ i \in 0..n
      BY <1>1, <1>5
    <3>2. f[i] = IF s[i] \in T THEN Append(f[i - 1], s[i]) ELSE f[i - 1]
      BY <1>5, <3>1
    <3>3. QED
      BY <3>1, <3>2
  <2>2. f[0] = unrolled(f)[0]
    BY <1>1, <1>5
  <2>3. \A i \in 0..n : i = 0 \/ i \in 1..n
    BY <1>1
  <2> HIDE DEF step
  <2>4. QED
    BY <1>5, <2>1, <2>2, <2>3
<1>7. kept = unrolled(kept)
  <2>1. \E g : g = unrolled(g)
    BY <1>6
  <2>2. QED
    BY <2>1
<1>8. Only(s, T) = kept[n]
  BY DEF Only
<1>9. kept[n] \in D
  <2> DEFINE P == {i \in 0..n : kept[i] \in D}
  <2> HIDE DEF kept
  <2>1. kept[0] = <<>> /\ \A i \in 1..n :
          kept[i] = IF s[i] \in T THEN Append(kept[i - 1], s[i]) ELSE kept[i - 1]
    <3>1. 0 \in 0..n /\ \A i \in 1..n : i # 0 /\ i \in 0..n
      BY <1>1
    <3>2. QED
      BY <1>7, <3>1
  <2> HIDE DEF n, D
  <2>2. 0 \in P /\ \A i \in 1..n : i - 1 \in P => i \in P
    BY <1>1, <1>2, <2>1
  <2> HIDE DEF P
  <2>3. 0..n \subseteq P
    BY <1>1, <2>2, UpTo
  <2>4. QED
    BY <1>1, <2>3 DEF P
<1>10. QED
  BY <1>8, <1>9

\* The capabilities that the agents declare.
Declarations == [Agent -> SUBSET Capability]

\* termsFor pushes the heavy terms first.
LEMMA TermsFall ==
  ASSUME NEW caps \in Declarations, NEW a \in Agent
  PROVE  LET terms == TermsFor(caps, a) IN
         /\ IsSeq(terms)
         /\ \A i \in 1..Len(terms) : WeightOf[terms[i]] \in 1..4
         /\ \A i, j \in 1..Len(terms) : i <= j => WeightOf[terms[i]] >= WeightOf[terms[j]]
<1> DEFINE p == Only(Traversals, caps[a])
           q == Only(Tables, caps[a])
           r == OtherTerms[a]
           U == ToSet(Traversals) \cup ToSet(Tables) \cup OtherTerm
<1>1. p \in Seq(ToSet(Traversals)) /\ q \in Seq(ToSet(Tables)) /\ r \in Seq(ToSet(r))
  <2>1. p \in Seq(ToSet(Traversals) \cap caps[a]) /\ q \in Seq(ToSet(Tables) \cap caps[a])
    BY TermsAssumption, OnlyKeeps DEF IsSeq
  <2>2. \A S, T, s : s \in Seq(S \cap T) => s \in Seq(S)
    OBVIOUS
  <2>3. QED
    BY <2>1, <2>2, TermsAssumption DEF IsSeq
<1>2. \A i \in 1..Len(p) : WeightOf[p[i]] = 4
  BY <1>1, TermsAssumption
<1>3. \A i \in 1..Len(q) : WeightOf[q[i]] = 3
  BY <1>1, TermsAssumption
<1>4. ToSet(r) \subseteq OtherTerm /\ \A i \in 1..Len(r) : r[i] \in ToSet(r)
  BY <1>1 DEF OtherTerm, ToSet
<1>5. \A i \in 1..Len(r) : WeightOf[r[i]] \in {1, 2}
  BY <1>4, TermsAssumption
<1>6. \A i, j \in 1..Len(r) : i <= j => WeightOf[r[i]] >= WeightOf[r[j]]
  BY <1>1, TermsAssumption
<1>7. p \in Seq(U) /\ q \in Seq(U) /\ r \in Seq(U)
  <2>1. \A S, T, s : s \in Seq(S) /\ S \subseteq T => s \in Seq(T)
    OBVIOUS
  <2>2. QED
    BY <1>1, <1>4, <2>1
<1> HIDE DEF p, q, r, U
<1> DEFINE pq == p \o q
           terms == pq \o r
<1>8. /\ pq \in Seq(U) /\ Len(pq) = Len(p) + Len(q)
      /\ \A i \in 1..Len(pq) : pq[i] = IF i <= Len(p) THEN p[i] ELSE q[i - Len(p)]
  BY <1>7, ConcatProperties
<1>9. /\ terms \in Seq(U) /\ Len(terms) = Len(pq) + Len(r)
      /\ \A i \in 1..Len(terms) : terms[i] = IF i <= Len(pq) THEN pq[i] ELSE r[i - Len(pq)]
  <2>1. pq \in Seq(U) /\ r \in Seq(U)
    BY <1>7, <1>8
  <2> HIDE DEF pq
  <2>2. QED
    BY <2>1, ConcatProperties
<1>10. TermsFor(caps, a) = terms
  BY DEF TermsFor, p, q, r
<1>11. Len(p) \in Nat /\ Len(q) \in Nat /\ Len(r) \in Nat
  BY <1>7
<1> HIDE DEF pq, terms
<1> DEFINE L == Len(p)
           M == Len(p) + Len(q)
<1>12. \A i \in 1..Len(terms) :
         /\ i <= L => WeightOf[terms[i]] = 4
         /\ L < i /\ i <= M => WeightOf[terms[i]] = 3
         /\ M < i => /\ i - M \in 1..Len(r) /\ terms[i] = r[i - M]
                     /\ WeightOf[terms[i]] \in {1, 2}
  <2> SUFFICES ASSUME NEW i \in 1..Len(terms)
               PROVE  /\ i <= L => WeightOf[terms[i]] = 4
                      /\ L < i /\ i <= M => WeightOf[terms[i]] = 3
                      /\ M < i => /\ i - M \in 1..Len(r) /\ terms[i] = r[i - M]
                                  /\ WeightOf[terms[i]] \in {1, 2}
    OBVIOUS
  <2>1. CASE i <= L
    <3>1. i \in 1..Len(pq) /\ i \in 1..Len(p) /\ ~ L < i /\ ~ M < i
      BY <1>8, <1>9, <1>11, <2>1
    <3>2. terms[i] = p[i]
      BY <1>8, <1>9, <2>1, <3>1
    <3>3. QED
      BY <1>2, <3>1, <3>2
  <2>2. CASE L < i /\ i <= M
    <3>1. i \in 1..Len(pq) /\ i - L \in 1..Len(q) /\ ~ i <= L /\ ~ M < i
      BY <1>8, <1>9, <1>11, <2>2
    <3>2. terms[i] = q[i - L]
      BY <1>8, <1>9, <2>2, <3>1
    <3>3. QED
      BY <1>3, <3>1, <3>2
  <2>3. CASE M < i
    <3>1. i - M \in 1..Len(r) /\ ~ i <= L /\ ~ i <= M
      BY <1>8, <1>9, <1>11, <2>3
    <3>2. terms[i] = r[i - M]
      BY <1>8, <1>9, <2>3, <3>1
    <3>3. QED
      BY <1>5, <3>1, <3>2
  <2>4. QED
    BY <1>11, <2>1, <2>2, <2>3
<1> HIDE DEF L
<1>13. L \in Nat /\ M \in Nat /\ L <= M
  BY <1>11 DEF L
<1> HIDE DEF M
<1>14. \A i \in 1..Len(terms) : WeightOf[terms[i]] \in 1..4
  BY <1>12, <1>13
<1>15. ASSUME NEW i \in 1..Len(terms), NEW j \in 1..Len(terms), i <= j
       PROVE  WeightOf[terms[i]] >= WeightOf[terms[j]]
  <2>1. CASE M < i
    <3>1. i - M \in 1..Len(r) /\ j - M \in 1..Len(r) /\ i - M <= j - M
          /\ terms[i] = r[i - M] /\ terms[j] = r[j - M]
      BY <1>12, <1>13, <1>15, <2>1
    <3>2. QED
      BY <1>6, <3>1
  <2>2. CASE i <= M
    BY <1>12, <1>13, <1>14, <1>15, <2>2
  <2>3. QED
    BY <1>13, <2>1, <2>2
<1>16. IsSeq(terms)
  BY <1>9 DEF IsSeq, ToSet
<1>17. QED
  BY <1>10, <1>14, <1>15, <1>16

\* The words that the first i terms say at weight k or more, and those that the i-th
\* is the first to say.
HeavyUpTo(question, terms, i, k) ==
    {w \in question : \E j \in 1..i : WeightOf[terms[j]] >= k /\ w \in WordsOf[terms[j]]}
FirstSaid(question, terms, i) ==
    {w \in question \cap WordsOf[terms[i]] : \A j \in 1..(i - 1) : w \notin WordsOf[terms[j]]}
WorthUpTo(question, terms, i) ==
    Cardinality(HeavyUpTo(question, terms, i, 1)) + Cardinality(HeavyUpTo(question, terms, i, 2))
      + Cardinality(HeavyUpTo(question, terms, i, 3)) + Cardinality(HeavyUpTo(question, terms, i, 4))

\* The weights of WEIGHT, falling.
Falling(terms) ==
    /\ \A i \in 1..Len(terms) : WeightOf[terms[i]] \in 1..4
    /\ \A i, j \in 1..Len(terms) : i <= j => WeightOf[terms[i]] >= WeightOf[terms[j]]

\* A term adds its own first words at each of the weights it reaches.
LEMMA HeavyGrows ==
  ASSUME NEW terms, Len(terms) \in Nat, Falling(terms), NEW question, IsFiniteSet(question),
         NEW i \in 1..Len(terms), NEW k \in 1..4
  PROVE  Cardinality(HeavyUpTo(question, terms, i, k))
           = Cardinality(HeavyUpTo(question, terms, i - 1, k))
             + (IF WeightOf[terms[i]] >= k THEN Cardinality(FirstSaid(question, terms, i)) ELSE 0)
<1> DEFINE old == HeavyUpTo(question, terms, i - 1, k)
           all == HeavyUpTo(question, terms, i, k)
           new == FirstSaid(question, terms, i)
<1>1. IsFiniteSet(old) /\ IsFiniteSet(new) /\ Cardinality(old) \in Nat /\ Cardinality(new) \in Nat
  <2>1. old \subseteq question /\ new \subseteq question
    BY DEF HeavyUpTo, FirstSaid
  <2>2. QED
    BY <2>1, FS_Subset, FS_CardinalityType
<1>2. 1..i = 1..(i - 1) \cup {i}
  OBVIOUS
<1>3. CASE WeightOf[terms[i]] >= k
  <2>1. \A j \in 1..(i - 1) : WeightOf[terms[j]] >= k
    BY <1>3 DEF Falling
  <2>2. all = old \cup new
    BY <1>2, <1>3, <2>1 DEF HeavyUpTo, FirstSaid
  <2>3. old \cap new = {}
    BY DEF HeavyUpTo, FirstSaid
  <2> HIDE DEF all, old, new
  <2>4. Cardinality(all) = Cardinality(old) + Cardinality(new) - Cardinality(old \cap new)
    BY <1>1, <2>2, FS_Union
  <2>5. Cardinality(old \cap new) = 0
    BY <2>3, FS_EmptySet
  <2>6. Cardinality(all) = Cardinality(old) + Cardinality(new)
    BY <1>1, <2>4, <2>5
  <2>7. QED
    BY <1>3, <2>6 DEF all, old, new
<1>4. CASE ~ WeightOf[terms[i]] >= k
  <2>1. all = old
    BY <1>2, <1>4 DEF HeavyUpTo
  <2> HIDE DEF all, old
  <2>2. QED
    BY <1>1, <1>4, <2>1 DEF all, old
<1>5. QED
  BY <1>3, <1>4

\* So the worth of the terms so far grows by what scoreAgent adds for a term.
LEMMA WorthGrows ==
  ASSUME NEW terms, Len(terms) \in Nat, Falling(terms), NEW question, IsFiniteSet(question)
  PROVE  /\ WorthUpTo(question, terms, 0) = 0
         /\ \A i \in 1..Len(terms) :
              /\ Cardinality(FirstSaid(question, terms, i)) \in Nat
              /\ WorthUpTo(question, terms, i)
                   = WorthUpTo(question, terms, i - 1)
                     + WeightOf[terms[i]] * Cardinality(FirstSaid(question, terms, i))
         /\ \A i \in Nat : WorthUpTo(question, terms, i) \in Nat
<1> DEFINE C(i, k) == Cardinality(HeavyUpTo(question, terms, i, k))
<1>1. \A i, k : C(i, k) \in Nat
  <2>1. \A i, k : HeavyUpTo(question, terms, i, k) \subseteq question
    BY DEF HeavyUpTo
  <2>2. QED
    BY <2>1, FS_Subset, FS_CardinalityType
<1>2. \A k : C(0, k) = 0
  <2>1. \A k : HeavyUpTo(question, terms, 0, k) = {}
    BY DEF HeavyUpTo
  <2>2. QED
    BY <2>1, FS_EmptySet
<1>3. ASSUME NEW i \in 1..Len(terms)
      PROVE  /\ Cardinality(FirstSaid(question, terms, i)) \in Nat
             /\ WorthUpTo(question, terms, i)
                   = WorthUpTo(question, terms, i - 1)
                     + WeightOf[terms[i]] * Cardinality(FirstSaid(question, terms, i))
  <2> DEFINE N == Cardinality(FirstSaid(question, terms, i))
             W == WeightOf[terms[i]]
  <2>1. FirstSaid(question, terms, i) \subseteq question
    BY DEF FirstSaid
  <2>2. N \in Nat
    BY <2>1, FS_Subset, FS_CardinalityType
  <2>3. \A k \in 1..4 : C(i, k) = C(i - 1, k) + (IF W >= k THEN N ELSE 0)
    BY HeavyGrows
  <2>4. W \in 1..4
    BY DEF Falling
  <2> HIDE DEF C, N, W
  <2>5. C(i, 1) + C(i, 2) + C(i, 3) + C(i, 4)
          = C(i - 1, 1) + C(i - 1, 2) + C(i - 1, 3) + C(i - 1, 4) + W * N
    <3>1. PICK a \in Nat, b \in Nat, c \in Nat, d \in Nat :
            a = C(i - 1, 1) /\ b = C(i - 1, 2) /\ c = C(i - 1, 3) /\ d = C(i - 1, 4)
      BY <1>1
    <3>2. /\ C(i, 1) = a + N
          /\ C(i, 2) = b + (IF W >= 2 THEN N ELSE 0)
          /\ C(i, 3) = c + (IF W >= 3 THEN N ELSE 0)
          /\ C(i, 4) = d + (IF W >= 4 THEN N ELSE 0)
      BY <2>3, <2>4, <3>1
    <3>3. W = 1 \/ W = 2 \/ W = 3 \/ W = 4
      BY <2>4
    <3>4. (a + N) + (b + (IF W >= 2 THEN N ELSE 0)) + (c + (IF W >= 3 THEN N ELSE 0))
            + (d + (IF W >= 4 THEN N ELSE 0)) = a + b + c + d + W * N
      BY <2>2, <3>3
    <3>5. QED
      BY <3>1, <3>2, <3>4, Zenon
  <2>6. QED
    BY <2>2, <2>5 DEF C, N, W, WorthUpTo
<1> HIDE DEF C
<1>4. C(0, 1) + C(0, 2) + C(0, 3) + C(0, 4) = 0
  BY <1>2
<1>5. \A i \in Nat : C(i, 1) + C(i, 2) + C(i, 3) + C(i, 4) \in Nat
  BY <1>1
<1>6. QED
  BY <1>3, <1>4, <1>5 DEF C, WorthUpTo

\* The loop of scoreAgent adds up what the question is worth to the agent.
LEMMA ScoreIsWorth ==
  ASSUME NEW caps \in Declarations, NEW a \in Agent, NEW question \in SUBSET Word
  PROVE  /\ ScoreAgent(question, caps, a) = Worth(question, caps, a)
         /\ Worth(question, caps, a) \in Nat
<1> DEFINE terms == TermsFor(caps, a)
           n == Len(terms)
           hits(i) == {w \in question \cap WordsOf[terms[i]] :
                         \A j \in 1..(i - 1) : w \notin WordsOf[terms[j]]}
           total[i \in 0..n] ==
             IF i = 0 THEN 0 ELSE total[i - 1] + WeightOf[terms[i]] * Cardinality(hits(i))
           unrolled(g) == [i \in 0..n |->
             IF i = 0 THEN 0 ELSE g[i - 1] + WeightOf[terms[i]] * Cardinality(hits(i))]
           worth == [i \in 0..n |-> WorthUpTo(question, terms, i)]
<1>1. n \in Nat /\ IsSeq(terms) /\ Falling(terms) /\ IsFiniteSet(question)
  <2>1. IsSeq(terms) /\ Falling(terms)
    BY TermsFall DEF Falling
  <2>2. n \in Nat
    BY <2>1 DEF IsSeq
  <2>3. IsFiniteSet(question)
    BY WordsAssumption, FS_Subset
  <2>4. QED
    BY <2>1, <2>2, <2>3
<1>2. ScoreAgent(question, caps, a) = total[n]
  BY DEF ScoreAgent
<1> HIDE DEF terms
<1>3. /\ WorthUpTo(question, terms, 0) = 0
      /\ \A i \in 1..n :
           /\ Cardinality(FirstSaid(question, terms, i)) \in Nat
           /\ WorthUpTo(question, terms, i) = WorthUpTo(question, terms, i - 1)
                + WeightOf[terms[i]] * Cardinality(FirstSaid(question, terms, i))
      /\ \A i \in Nat : WorthUpTo(question, terms, i) \in Nat
  BY <1>1, WorthGrows
<1>4. \A i : hits(i) = FirstSaid(question, terms, i)
  BY DEF FirstSaid
<1> HIDE DEF n, hits
<1>5. worth = unrolled(worth)
  <2>1. ASSUME NEW i \in 0..n
        PROVE  worth[i] = IF i = 0 THEN 0
                          ELSE worth[i - 1] + WeightOf[terms[i]] * Cardinality(hits(i))
    <3>1. CASE i = 0
      BY <1>3, <3>1
    <3>2. CASE i # 0
      <4>1. i \in 1..n /\ i - 1 \in 0..n
        BY <1>1, <3>2
      <4>2. worth[i] = WorthUpTo(question, terms, i)
            /\ worth[i - 1] = WorthUpTo(question, terms, i - 1)
        BY <4>1
      <4> HIDE DEF worth
      <4>3. QED
        BY <1>3, <1>4, <3>2, <4>1, <4>2
    <3>3. QED
      BY <3>1, <3>2
  <2>2. worth = [i \in 0..n |-> worth[i]]
    OBVIOUS
  <2> HIDE DEF worth
  <2>3. QED
    BY <2>1, <2>2
<1>6. total = unrolled(total)
  <2>1. \E g : g = unrolled(g)
    BY <1>5
  <2>2. QED
    BY <2>1
<1>7. n \in 0..n /\ total[n] = worth[n]
  <2> DEFINE P == {i \in 0..n : total[i] = worth[i]}
  <2> HIDE DEF total, worth
  <2>1. total[0] = worth[0]
    BY <1>1, <1>5, <1>6
  <2>2. ASSUME NEW i \in 1..n, total[i - 1] = worth[i - 1]  PROVE total[i] = worth[i]
    <3>1. i # 0 /\ i \in 0..n
      BY <1>1
    <3>2. /\ total[i] = total[i - 1] + WeightOf[terms[i]] * Cardinality(hits(i))
          /\ worth[i] = worth[i - 1] + WeightOf[terms[i]] * Cardinality(hits(i))
      BY <1>5, <1>6, <3>1
    <3>3. QED
      BY <2>2, <3>2
  <2>3. 0 \in P /\ \A i \in 1..n : i - 1 \in P => i \in P
    BY <1>1, <2>1, <2>2
  <2> HIDE DEF P
  <2>4. 0..n \subseteq P
    BY <1>1, <2>3, UpTo
  <2>5. QED
    BY <1>1, <2>4 DEF P
<1>8. worth[n] = WorthUpTo(question, terms, n) /\ WorthUpTo(question, terms, n) \in Nat
  BY <1>1, <1>3, <1>7
<1>9. WorthUpTo(question, terms, n) = Worth(question, caps, a)
  <2>1. \A k : HeavyUpTo(question, terms, n, k) = Heavy(question, caps, a, k)
    BY DEF HeavyUpTo, Heavy, n, terms, ToSet
  <2>2. QED
    BY <2>1 DEF WorthUpTo, Worth
<1>10. QED
  BY <1>2, <1>7, <1>8, <1>9

\* The catalogue lists the agents.
LEMMA AgentsAreListed ==
  /\ Len(Listed) \in Nat \ {0} /\ Agent = 1..Len(Listed)
  /\ \A i \in 1..Len(Listed) : Listed[i] \in Agent
  /\ \A a \in Agent : \E i \in 1..Len(Listed) : Listed[i] = a
<1>1. Len(Listed) \in Nat \ {0} /\ Agent = 1..Len(Listed)
  BY AgentsAssumption DEF Agent
<1>2. ToSet(Listed) = Agent
  BY AgentsAssumption DEF Agent
<1>3. QED
  BY <1>1, <1>2 DEF ToSet, Agent

\* The order in which agents are preferred is total.
LEMMA BetterIsAnOrder ==
  ASSUME NEW score \in [Agent -> Nat]
  PROVE  /\ \A a \in Agent : ~ Better(score, a, a)
         /\ \A a, b \in Agent : a # b => (Better(score, a, b) <=> ~ Better(score, b, a))
         /\ \A a, b, c \in Agent :
              Better(score, a, b) /\ Better(score, b, c) => Better(score, a, c)
<1>1. \A a \in Agent : a \in Nat /\ score[a] \in Nat
  BY AgentsAreListed
<1>2. QED
  BY <1>1 DEF Better

\* route's loop ends with the one agent that no other is better than.
LEMMA WinnerIsBest ==
  ASSUME NEW score \in [Agent -> Nat]
  PROVE  /\ Winner(score) \in Agent
         /\ \A a \in Agent \ {Winner(score)} : Better(score, Winner(score), a)
<1> DEFINE n == Len(Listed)
           pick(i, held) == IF Better(score, Listed[i], held) THEN Listed[i] ELSE held
           step == [i \in 1..n |-> [held \in Agent |-> pick(i, held)]]
           winner[i \in 0..n] ==
             IF i = 0 THEN Listed[1]
             ELSE LET held == winner[i - 1]
                  IN  IF Better(score, Listed[i], held) THEN Listed[i] ELSE held
           unrolled(g) == [i \in 0..n |->
             IF i = 0 THEN Listed[1]
             ELSE LET held == g[i - 1]
                  IN  IF Better(score, Listed[i], held) THEN Listed[i] ELSE held]
<1>1. n \in Nat /\ n # 0 /\ Listed[1] \in Agent /\ \A i \in 1..n : Listed[i] \in Agent
  BY AgentsAreListed
<1>2. step \in Passes(n, Agent)
  BY <1>1 DEF Passes
<1>3. \E f : IsRun(f, step, n, Listed[1], Agent)
  <2> HIDE DEF n, step
  <2>1. QED
    BY <1>1, <1>2, LoopExists
<1>4. PICK f : f \in [0..n -> Agent] /\ f[0] = Listed[1] /\ \A i \in 1..n : f[i] = step[i][f[i - 1]]
  BY <1>3 DEF IsRun
<1>5. Winner(score) = winner[n]
  BY DEF Winner
<1>6. f = unrolled(f)
  <2> HIDE DEF n
  <2>1. ASSUME NEW i \in 1..n  PROVE f[i] = unrolled(f)[i]
    <3>1. f[i - 1] \in Agent /\ i # 0 /\ i \in 0..n
      BY <1>1, <1>4
    <3>2. f[i] = pick(i, f[i - 1])
      BY <1>4, <3>1
    <3>3. QED
      BY <3>1, <3>2
  <2>2. f[0] = unrolled(f)[0]
    BY <1>1, <1>4
  <2>3. \A i \in 0..n : i = 0 \/ i \in 1..n
    BY <1>1
  <2> HIDE DEF step
  <2>4. QED
    BY <1>4, <2>1, <2>2, <2>3
<1>7. winner = unrolled(winner)
  <2>1. \E g : g = unrolled(g)
    BY <1>6
  <2>2. QED
    BY <2>1
<1> HIDE DEF winner, step
<1>8. winner[0] = Listed[1] /\ \A i \in 1..n : winner[i] = pick(i, winner[i - 1])
  <2>1. 0 \in 0..n /\ \A i \in 1..n : i # 0 /\ i \in 0..n
    BY <1>1
  <2>2. QED
    BY <1>7, <2>1
<1> DEFINE Leads(i) == /\ winner[i] \in Agent
                       /\ \A j \in 1..i : winner[i] = Listed[j] \/ Better(score, winner[i], Listed[j])
           P == {i \in 0..n : Leads(i)}
<1>9. 0 \in P
  BY <1>1, <1>8
<1>10. ASSUME NEW i \in 1..n, i - 1 \in P  PROVE i \in P
  <2> HIDE DEF n
  <2>1. i \in Nat /\ Listed[i] \in Agent /\ winner[i - 1] \in Agent /\ i \in 0..n
    BY <1>1, <1>10
  <2>2. \A j \in 1..i : j = i \/ j \in 1..(i - 1)
    BY <2>1
  <2>3. winner[i] = pick(i, winner[i - 1])
    BY <1>8
  <2>4. winner[i] \in Agent
    BY <2>1, <2>3
  <2>5. ASSUME NEW j \in 1..i  PROVE winner[i] = Listed[j] \/ Better(score, winner[i], Listed[j])
    <3>1. j \in 1..n
      BY <1>1
    <3>2. Listed[j] \in Agent
      BY <1>1, <3>1
    <3>3. CASE j = i
      BY <2>1, <2>3, <3>3, BetterIsAnOrder
    <3>4. CASE j \in 1..(i - 1)
      <4>1. winner[i - 1] = Listed[j] \/ Better(score, winner[i - 1], Listed[j])
        BY <1>10, <3>4
      <4>2. QED
        BY <2>1, <2>3, <3>2, <4>1, BetterIsAnOrder
    <3>5. QED
      BY <2>2, <3>3, <3>4
  <2>6. QED
    BY <2>1, <2>4, <2>5
<1> HIDE DEF P, n
<1>11. 0..n \subseteq P
  BY <1>1, <1>9, <1>10, UpTo
<1>12. Leads(n)
  BY <1>1, <1>11 DEF P
<1>13. \A a \in Agent : \E j \in 1..n : Listed[j] = a
  BY AgentsAreListed DEF n
<1>14. QED
  BY <1>5, <1>12, <1>13

\* The order of the buttons is total.
LEMMA AheadIsAnOrder ==
  ASSUME NEW score \in [Agent -> Nat]
  PROVE  /\ \A a \in Agent : ~ Ahead(score, a, a)
         /\ \A a, b \in Agent : a # b => Ahead(score, a, b) \/ Ahead(score, b, a)
         /\ \A a, b, c \in Agent : Ahead(score, a, b) /\ Ahead(score, b, c) => Ahead(score, a, c)
<1>1. \A a \in Agent : a \in Nat /\ score[a] \in Nat
  BY AgentsAreListed
<1>2. QED
  BY <1>1 DEF Ahead

\* Of any agents one is ahead of all others.
LEMMA ForemostIsAhead ==
  ASSUME NEW score \in [Agent -> Nat], NEW S \in SUBSET Agent, S # {}
  PROVE  /\ Foremost(score, S) \in S
         /\ \A b \in S \ {Foremost(score, S)} : Ahead(score, Foremost(score, S), b)
<1> DEFINE n == Len(Listed)
           HasFirst(T) == \E a \in T : \A b \in T \ {a} : Ahead(score, a, b)
           P == {i \in 0..n : \A T \in SUBSET (1..i) : T # {} => HasFirst(T)}
<1>1. n \in Nat /\ Agent = 1..n
  BY AgentsAreListed
<1> HIDE DEF n
<1>2. 0 \in P
  <2>1. 0 \in 0..n /\ \A T \in SUBSET (1..0) : T = {}
    BY <1>1
  <2> HIDE DEF HasFirst
  <2>2. QED
    BY <2>1
<1>3. ASSUME NEW i \in 1..n, i - 1 \in P  PROVE i \in P
  <2>1. ASSUME NEW T \in SUBSET (1..i), T # {}  PROVE HasFirst(T)
    <3>1. T \ {i} \in SUBSET (1..(i - 1))
      OBVIOUS
    <3>2. CASE i \notin T
      <4>1. T \ {i} = T
        BY <3>2
      <4>2. QED
        BY <1>3, <2>1, <3>1, <4>1
    <3>3. CASE i \in T /\ T \ {i} = {}
      BY <3>3
    <3>4. CASE i \in T /\ T \ {i} # {}
      <4>1. PICK a \in T \ {i} : \A b \in (T \ {i}) \ {a} : Ahead(score, a, b)
        BY <1>3, <3>1, <3>4
      <4>2. a \in Agent /\ i \in Agent /\ a # i /\ \A b \in T : b \in Agent
        BY <1>1
      <4>3. CASE Ahead(score, a, i)
        <5>1. \A b \in T \ {a} : Ahead(score, a, b)
          BY <4>1, <4>3
        <5>2. QED
          BY <5>1
      <4>4. CASE Ahead(score, i, a)
        <5>1. \A b \in T \ {i} : Ahead(score, i, b)
          BY <4>1, <4>2, <4>4, AheadIsAnOrder
        <5>2. QED
          BY <3>4, <5>1
      <4>5. QED
        BY <4>2, <4>3, <4>4, AheadIsAnOrder
    <3>5. QED
      BY <3>2, <3>3, <3>4
  <2>2. QED
    BY <1>1, <2>1
<1> HIDE DEF P
<1>4. 0..n \subseteq P
  BY <1>1, <1>2, <1>3, UpTo
<1>5. HasFirst(S)
  <2>1. n \in P
    BY <1>1, <1>4
  <2>2. S \in SUBSET (1..n)
    BY <1>1
  <2> HIDE DEF HasFirst
  <2>3. QED
    BY <2>1, <2>2 DEF P
<1>6. QED
  BY <1>5 DEF Foremost

\* The buttons are the first three, or all, of those that also scored.
LEMMA RunnersAreNext ==
  ASSUME NEW score \in [Agent -> Nat], NEW winner \in Agent
  PROVE  LET runners == RunnersUp(score, winner)
             others == {a \in Agent \ {winner} : score[a] > 0}
         IN  /\ runners \in Seq(others) /\ Len(runners) <= 3
             /\ \A i, j \in 1..Len(runners) : i < j => Ahead(score, runners[i], runners[j])
             /\ \A a \in others : \/ \E i \in 1..Len(runners) : runners[i] = a
                                  \/ /\ Len(runners) = 3
                                     /\ \A i \in 1..3 : Ahead(score, runners[i], a)
<1> DEFINE others == {a \in Agent \ {winner} : score[a] > 0}
           count == IF Cardinality(others) < 3 THEN Cardinality(others) ELSE 3
           left[i \in 0..count] ==
             IF i = 0 THEN others
             ELSE LET held == left[i - 1] IN held \ {Foremost(score, held)}
           unrolled(g) == [i \in 0..count |->
             IF i = 0 THEN others
             ELSE LET held == g[i - 1] IN held \ {Foremost(score, held)}]
           step == [i \in 1..count |-> [T \in SUBSET Agent |-> T \ {Foremost(score, T)}]]
           first(i) == Foremost(score, left[i - 1])
<1>1. RunnersUp(score, winner) = [i \in 1..count |-> first(i)]
  BY DEF RunnersUp
<1>2. others \in SUBSET Agent /\ IsFiniteSet(others) /\ Cardinality(others) \in Nat /\ count \in Nat
      /\ count \in 0..3
  <2>1. others \in SUBSET Agent
    OBVIOUS
  <2> HIDE DEF others
  <2>2. IsFiniteSet(Agent)
    BY AgentsAreListed, FS_Interval
  <2>3. IsFiniteSet(others) /\ Cardinality(others) \in Nat
    BY <2>1, <2>2, FS_Subset, FS_CardinalityType
  <2>4. QED
    BY <2>1, <2>3
<1> HIDE DEF others
<1>3. \E f : IsRun(f, step, count, others, SUBSET Agent)
  <2>1. step \in Passes(count, SUBSET Agent)
    BY DEF Passes
  <2> HIDE DEF step, count
  <2>2. QED
    BY <1>2, <2>1, LoopExists
<1>4. PICK f : f \in [0..count -> SUBSET Agent] /\ f[0] = others
               /\ \A i \in 1..count : f[i] = step[i][f[i - 1]]
  BY <1>3 DEF IsRun
<1>5. f = unrolled(f)
  <2> HIDE DEF count
  <2>1. ASSUME NEW i \in 1..count  PROVE f[i] = unrolled(f)[i]
    <3>1. f[i - 1] \in SUBSET Agent /\ i # 0 /\ i \in 0..count
      BY <1>2, <1>4
    <3>2. f[i] = f[i - 1] \ {Foremost(score, f[i - 1])}
      BY <1>4, <3>1
    <3>3. QED
      BY <3>1, <3>2
  <2>2. f[0] = unrolled(f)[0]
    BY <1>2, <1>4
  <2>3. \A i \in 0..count : i = 0 \/ i \in 1..count
    BY <1>2
  <2> HIDE DEF step
  <2>4. QED
    BY <1>4, <2>1, <2>2, <2>3
<1>6. left = unrolled(left)
  <2>1. \E g : g = unrolled(g)
    BY <1>5
  <2>2. QED
    BY <2>1
<1> HIDE DEF left, step
<1>7. left[0] = others /\ \A i \in 1..count : left[i] = left[i - 1] \ {first(i)}
  <2>1. 0 \in 0..count /\ \A i \in 1..count : i # 0 /\ i \in 0..count
    BY <1>2
  <2>2. QED
    BY <1>6, <2>1
<1> DEFINE Ranked(i) ==
             /\ left[i] \subseteq others /\ Cardinality(left[i]) = Cardinality(others) - i
             /\ \A j \in 1..i : first(j) \in others /\ \A b \in left[i] : Ahead(score, first(j), b)
             /\ \A j, k \in 1..i : j < k => Ahead(score, first(j), first(k))
             /\ \A a \in others : a \in left[i] \/ \E j \in 1..i : a = first(j)
           P == {i \in 0..count : Ranked(i)}
<1>8. 0 \in P
  BY <1>2, <1>7
<1>9. ASSUME NEW i \in 1..count, i - 1 \in P  PROVE i \in P
  <2>1. i \in Nat /\ i \in 0..count /\ Ranked(i - 1)
        /\ \A j \in 1..i : j = i \/ j \in 1..(i - 1)
    BY <1>2, <1>9
  <2>2. Cardinality(others) - (i - 1) > 0
    BY <1>2
  <2> HIDE DEF count, first, P
  <2> DEFINE prev == left[i - 1]
  <2>3. prev \subseteq others /\ IsFiniteSet(prev) /\ Cardinality(prev) > 0 /\ prev # {}
    <3>1. prev \subseteq others /\ Cardinality(prev) = Cardinality(others) - (i - 1)
      BY <2>1
    <3>2. IsFiniteSet(prev)
      BY <1>2, <3>1, FS_Subset
    <3>3. QED
      BY <2>2, <3>1, <3>2, FS_EmptySet
  <2>4. first(i) \in prev /\ \A b \in prev \ {first(i)} : Ahead(score, first(i), b)
    BY <1>2, <2>3, ForemostIsAhead DEF first
  <2>5. left[i] = prev \ {first(i)}
    BY <1>7
  <2>6. Cardinality(left[i]) = Cardinality(others) - i
    <3>1. Cardinality(left[i]) = Cardinality(prev) - 1
      <4>1. ASSUME NEW x \in prev  PROVE Cardinality(prev \ {x}) = Cardinality(prev) - 1
        <5> HIDE DEF prev
        <5>1. QED
          BY <2>3, FS_RemoveElement
      <4>2. QED
        BY <2>4, <2>5, <4>1
    <3>2. QED
      BY <1>2, <2>1, <3>1
  <2>7. left[i] \subseteq others
    BY <2>3, <2>5
  <2>8. \A j \in 1..i : first(j) \in others /\ \A b \in left[i] : Ahead(score, first(j), b)
    BY <2>1, <2>3, <2>4, <2>5
  <2>9. \A j, k \in 1..i : j < k => Ahead(score, first(j), first(k))
    <3>1. \A j \in 1..(i - 1) : Ahead(score, first(j), first(i))
      BY <2>1, <2>4
    <3>2. ASSUME NEW j \in 1..i, NEW k \in 1..i, j < k  PROVE Ahead(score, first(j), first(k))
      <4>1. j \in 1..(i - 1) /\ (k = i \/ k \in 1..(i - 1))
        BY <2>1, <3>2
      <4>2. QED
        BY <2>1, <3>1, <3>2, <4>1
    <3>3. QED
      BY <3>2
  <2>10. \A a \in others : a \in left[i] \/ \E j \in 1..i : a = first(j)
    <3>1. i \in 1..i /\ \A j \in 1..(i - 1) : j \in 1..i
      BY <2>1
    <3>2. QED
      BY <2>1, <2>5, <3>1
  <2>11. QED
    BY <2>1, <2>6, <2>7, <2>8, <2>9, <2>10 DEF P
<1> HIDE DEF P
<1>10. Ranked(count)
  <2>1. 0..count \subseteq P
    <3> HIDE DEF count
    <3>1. QED
      BY <1>2, <1>8, <1>9, UpTo
  <2>2. QED
    BY <1>2, <2>1 DEF P
<1>11. count = 3 \/ left[count] = {}
  <2>1. CASE Cardinality(others) < 3
    <3>1. IsFiniteSet(left[count]) /\ Cardinality(left[count]) = 0
      BY <1>2, <1>10, <2>1, FS_Subset
    <3>2. QED
      BY <3>1, FS_EmptySet
  <2>2. QED
    BY <1>2, <2>1
<1> HIDE DEF count, first
<1> DEFINE runners == RunnersUp(score, winner)
<1>12. /\ runners \in Seq(others) /\ Len(runners) = count
       /\ \A i \in 1..count : runners[i] = first(i)
  BY <1>1, <1>2, <1>10
<1> HIDE DEF runners
<1>13. /\ \A i, j \in 1..count : i < j => Ahead(score, runners[i], runners[j])
       /\ \A a \in others : \/ \E i \in 1..count : runners[i] = a
                            \/ /\ count = 3
                               /\ \A i \in 1..3 : Ahead(score, runners[i], a)
  BY <1>10, <1>11, <1>12
<1>14. QED
  BY <1>2, <1>12, <1>13 DEF runners, others

\* A starter question, and the capabilities an agent alone declares.
Item == [kind : {"method", "derived", "generic"},
         of : Capability \cup ToSet(Methods) \cup ToSet(Backstops), agent : Agent \cup {NoAgent}]
OwnPool(caps, a) == ToSet(Pool(caps, a, FALSE))

\* What holds of the questions chosen so far, in the first or the second pass.
Sound(caps, chosen) ==
    /\ Len(chosen) <= 3
    /\ \A i \in 1..Len(chosen) :
         \/ chosen[i].kind = "method" /\ chosen[i].of \in ToSet(Methods)
         \/ /\ chosen[i].kind = "derived" /\ chosen[i].of \in Capability
            /\ chosen[i].agent \in Agent /\ chosen[i].of \in caps[chosen[i].agent]
            /\ Route(QuestionOf[chosen[i].of], caps).agent = chosen[i].agent
    /\ \A i, j \in 1..Len(chosen) : i # j => chosen[i].of # chosen[j].of
OwnFirst(caps, chosen) ==
    \A i, j \in 1..Len(chosen) :
       /\ i < j /\ chosen[i].kind = "derived" /\ chosen[j].kind = "derived"
       /\ chosen[i].of \notin OwnPool(caps, chosen[i].agent)
       => chosen[j].of \notin OwnPool(caps, chosen[j].agent)
OnlyOwn(caps, chosen) ==
    \A i \in 1..Len(chosen) :
       chosen[i].kind = "derived" => chosen[i].of \in OwnPool(caps, chosen[i].agent)
Picks(caps, shared) ==
    {chosen \in Seq(Item) : /\ Sound(caps, chosen) /\ OwnFirst(caps, chosen)
                            /\ shared \/ OnlyOwn(caps, chosen)}

\* The pools of an agent are what it alone declares, and what others declare as well.
LEMMA PoolsAreDeclared ==
  ASSUME NEW caps \in Declarations, NEW a \in Agent, NEW shared \in BOOLEAN
  PROVE  /\ Len(Pool(caps, a, shared)) \in Nat
         /\ \A i \in 1..Len(Pool(caps, a, shared)) :
              LET c == Pool(caps, a, shared)[i] IN
              /\ c \in Capability /\ c \in caps[a] /\ c \in ToSet(Pool(caps, a, shared))
              /\ (Cardinality(Declaring(caps, c)) > 1) = shared
         /\ \A c \in ToSet(Pool(caps, a, shared)) :
              (Cardinality(Declaring(caps, c)) > 1) = shared
<1> DEFINE T == {c \in caps[a] : (Cardinality(Declaring(caps, c)) > 1) = shared}
           pool == Pool(caps, a, shared)
<1>1. Traversals \in Seq(Capability) /\ Tables \in Seq(Capability)
  <2>1. \A S, U, s : s \in Seq(S) /\ S \subseteq U => s \in Seq(U)
    OBVIOUS
  <2>2. QED
    BY <2>1, TermsAssumption DEF IsSeq, Capability
<1>2. Traversals \o Tables \in Seq(Capability)
  BY <1>1, ConcatProperties
<1>3. pool \in Seq(Capability \cap T)
  <2> HIDE DEF T
  <2>1. Only(Traversals \o Tables, T) \in Seq(Capability \cap T)
    BY <1>2, OnlyKeeps
  <2>2. QED
    BY <2>1 DEF Pool, T
<1> HIDE DEF pool
<1>4. Len(pool) \in Nat /\ \A i \in 1..Len(pool) : pool[i] \in Capability /\ pool[i] \in T
  BY <1>3
<1>5. DOMAIN pool = 1..Len(pool)
  BY <1>3
<1>6. \A i \in 1..Len(pool) : pool[i] \in ToSet(pool)
  BY <1>5 DEF ToSet
<1>7. \A c \in ToSet(pool) : c \in T
  BY <1>4, <1>5 DEF ToSet
<1>8. QED
  BY <1>4, <1>6, <1>7 DEF pool

\* tryPool takes one candidate.
LEMMA TryStep ==
  ASSUME NEW caps \in Declarations, NEW shared \in BOOLEAN, NEW a \in Agent,
         NEW d \in 1..Len(Pool(caps, a, shared)), NEW chosen \in Picks(caps, shared)
  PROVE  Try(caps, chosen, Derived(Pool(caps, a, shared)[d], a)) \in Picks(caps, shared)
<1> DEFINE c == Pool(caps, a, shared)[d]
           item == Derived(c, a)
           longer == Append(chosen, item)
<1>1. SUFFICES ASSUME Fresh(chosen, item), Route(QuestionOf[c], caps).agent = a
               PROVE  longer \in Picks(caps, shared)
  BY DEF Try, Derived
<1>2. /\ c \in Capability /\ c \in caps[a] /\ c \in ToSet(Pool(caps, a, shared))
      /\ (Cardinality(Declaring(caps, c)) > 1) = shared
  BY PoolsAreDeclared
<1>3. shared => \A b \in Agent : c \notin OwnPool(caps, b)
  BY <1>2, PoolsAreDeclared DEF OwnPool
<1>4. ~ shared => c \in OwnPool(caps, a)
  BY <1>2 DEF OwnPool
<1> HIDE DEF c
<1>5. item \in Item /\ item.kind = "derived" /\ item.of = c /\ item.agent = a
  BY <1>2 DEF Item, Derived
<1> HIDE DEF item
<1>6. chosen \in Seq(Item) /\ Len(chosen) \in Nat /\ Len(chosen) < 3
      /\ \A i \in 1..Len(chosen) : chosen[i].of # c
  BY <1>1, <1>5 DEF Fresh, Picks
<1> DEFINE n == Len(chosen) + 1
<1>7. /\ longer \in Seq(Item) /\ Len(longer) = n /\ longer[n] = item
      /\ \A i \in 1..Len(chosen) : longer[i] = chosen[i]
      /\ \A i \in 1..n : i = n \/ i \in 1..Len(chosen)
  BY <1>5, <1>6
<1> HIDE DEF longer
<1>8. Sound(caps, longer)
  BY <1>1, <1>2, <1>5, <1>6, <1>7 DEF Sound, Picks
<1>9. OwnFirst(caps, longer)
  <2>1. ASSUME NEW i \in 1..n, NEW j \in 1..n, i < j,
               longer[i].kind = "derived", longer[j].kind = "derived",
               longer[i].of \notin OwnPool(caps, longer[i].agent)
        PROVE  longer[j].of \notin OwnPool(caps, longer[j].agent)
    <3>1. i \in 1..Len(chosen) /\ longer[i] = chosen[i]
      BY <1>6, <1>7, <2>1
    <3>2. CASE j \in 1..Len(chosen)
      BY <1>7, <2>1, <3>1, <3>2 DEF Picks, OwnFirst
    <3>3. CASE j = n
      <4>1. shared
        BY <2>1, <3>1 DEF Picks, OnlyOwn
      <4>2. QED
        BY <1>3, <1>5, <1>7, <3>3, <4>1
    <3>4. QED
      BY <1>7, <3>2, <3>3
  <2>2. QED
    BY <1>7, <2>1 DEF OwnFirst
<1>10. shared \/ OnlyOwn(caps, longer)
  BY <1>4, <1>5, <1>7 DEF Picks, OnlyOwn
<1>11. QED
  BY <1>7, <1>8, <1>9, <1>10 DEF Picks

\* tryPool goes through the pools at one depth.
LEMMA RowStep ==
  ASSUME NEW caps \in Declarations, NEW shared \in BOOLEAN, NEW depth \in Nat \ {0},
         NEW chosen \in Picks(caps, shared)
  PROVE  TryRow(caps, chosen, shared, depth) \in Picks(caps, shared)
<1> DEFINE n == Len(Listed)
           D == Picks(caps, shared)
           pool(i) == Pool(caps, Listed[i], shared)
           next(i, held) == IF depth > Len(pool(i)) THEN held
                            ELSE Try(caps, held, Derived(pool(i)[depth], Listed[i]))
           step == [i \in 1..n |-> [held \in D |-> next(i, held)]]
           tried[i \in 0..n] ==
             IF i = 0 THEN chosen
             ELSE LET held == tried[i - 1]
                      pl == Pool(caps, Listed[i], shared)
                  IN  IF depth > Len(pl) THEN held
                      ELSE Try(caps, held, Derived(pl[depth], Listed[i]))
           unrolled(g) == [i \in 0..n |-> IF i = 0 THEN chosen ELSE next(i, g[i - 1])]
<1>1. n \in Nat /\ \A i \in 1..n : Listed[i] \in Agent
  BY AgentsAreListed
<1>2. \A i \in 1..n, held \in D : next(i, held) \in D
  <2> SUFFICES ASSUME NEW i \in 1..n, NEW held \in D, ~ depth > Len(pool(i))
               PROVE  Try(caps, held, Derived(pool(i)[depth], Listed[i])) \in D
    OBVIOUS
  <2>1. Listed[i] \in Agent
    BY <1>1
  <2>2. depth \in 1..Len(pool(i))
    BY <2>1, PoolsAreDeclared
  <2>3. QED
    BY <2>1, <2>2, TryStep
<1>3. TryRow(caps, chosen, shared, depth) = tried[n]
  BY DEF TryRow
<1> HIDE DEF next, n, D
<1>4. step \in Passes(n, D)
  BY <1>2 DEF Passes
<1>5. \E f : IsRun(f, step, n, chosen, D)
  <2>1. chosen \in D
    BY DEF D
  <2> HIDE DEF step
  <2>2. QED
    BY <1>1, <1>4, <2>1, LoopExists
<1>6. PICK f : f \in [0..n -> D] /\ f[0] = chosen /\ \A i \in 1..n : f[i] = step[i][f[i - 1]]
  BY <1>5 DEF IsRun
<1>7. f = unrolled(f)
  <2>1. ASSUME NEW i \in 1..n  PROVE f[i] = unrolled(f)[i]
    <3>1. f[i - 1] \in D /\ i # 0 /\ i \in 0..n
      BY <1>1, <1>6
    <3>2. f[i] = next(i, f[i - 1])
      BY <1>6, <3>1
    <3>3. QED
      BY <3>1, <3>2
  <2>2. f[0] = unrolled(f)[0]
    BY <1>1, <1>6
  <2>3. \A i \in 0..n : i = 0 \/ i \in 1..n
    BY <1>1
  <2> HIDE DEF step
  <2>4. QED
    BY <1>6, <2>1, <2>2, <2>3
<1>8. tried = unrolled(tried)
  <2>1. \E g : g = unrolled(g)
    BY <1>7
  <2>2. QED
    BY <2>1 DEF next
<1> HIDE DEF tried
<1>9. tried[0] = chosen /\ \A i \in 1..n : tried[i] = next(i, tried[i - 1])
  <2>1. 0 \in 0..n /\ \A i \in 1..n : i # 0 /\ i \in 0..n
    BY <1>1
  <2>2. QED
    BY <1>8, <2>1
<1> DEFINE P == {i \in 0..n : tried[i] \in D}
<1>10. 0 \in P /\ \A i \in 1..n : i - 1 \in P => i \in P
  BY <1>1, <1>2, <1>9 DEF D
<1> HIDE DEF P
<1>11. 0..n \subseteq P
  BY <1>1, <1>10, UpTo
<1>12. tried[n] \in D
  BY <1>1, <1>11 DEF P
<1>13. QED
  BY <1>3, <1>12 DEF D

\* tryPool goes through all depths.
LEMMA PoolStep ==
  ASSUME NEW caps \in Declarations, NEW shared \in BOOLEAN, NEW chosen \in Picks(caps, shared)
  PROVE  TryPool(caps, chosen, shared) \in Picks(caps, shared)
<1> DEFINE n == Len(Traversals) + Len(Tables)
           D == Picks(caps, shared)
           step == [i \in 1..n |-> [held \in D |-> TryRow(caps, held, shared, i)]]
           tried[depth \in 0..n] ==
             IF depth = 0 THEN chosen ELSE TryRow(caps, tried[depth - 1], shared, depth)
           unrolled(g) == [depth \in 0..n |->
             IF depth = 0 THEN chosen ELSE TryRow(caps, g[depth - 1], shared, depth)]
<1>1. n \in Nat
  BY TermsAssumption DEF IsSeq
<1>2. TryPool(caps, chosen, shared) = tried[n]
  BY DEF TryPool
<1> HIDE DEF n, D
<1>3. \A i \in 1..n, held \in D : TryRow(caps, held, shared, i) \in D
  BY <1>1, RowStep DEF D
<1>4. step \in Passes(n, D)
  BY <1>3 DEF Passes
<1>5. \E f : IsRun(f, step, n, chosen, D)
  <2>1. chosen \in D
    BY DEF D
  <2> HIDE DEF step
  <2>2. QED
    BY <1>1, <1>4, <2>1, LoopExists
<1>6. PICK f : f \in [0..n -> D] /\ f[0] = chosen /\ \A i \in 1..n : f[i] = step[i][f[i - 1]]
  BY <1>5 DEF IsRun
<1>7. f = unrolled(f)
  <2>1. ASSUME NEW i \in 1..n  PROVE f[i] = unrolled(f)[i]
    <3>1. f[i - 1] \in D /\ i # 0 /\ i \in 0..n
      BY <1>1, <1>6
    <3>2. f[i] = TryRow(caps, f[i - 1], shared, i)
      BY <1>6, <3>1
    <3>3. QED
      BY <3>1, <3>2
  <2>2. f[0] = unrolled(f)[0]
    BY <1>1, <1>6
  <2>3. \A i \in 0..n : i = 0 \/ i \in 1..n
    BY <1>1
  <2> HIDE DEF step
  <2>4. QED
    BY <1>6, <2>1, <2>2, <2>3
<1>8. tried = unrolled(tried)
  <2>1. \E g : g = unrolled(g)
    BY <1>7
  <2>2. QED
    BY <2>1
<1> HIDE DEF tried
<1>9. tried[0] = chosen /\ \A i \in 1..n : tried[i] = TryRow(caps, tried[i - 1], shared, i)
  <2>1. 0 \in 0..n /\ \A i \in 1..n : i # 0 /\ i \in 0..n
    BY <1>1
  <2>2. QED
    BY <1>8, <2>1
<1> DEFINE P == {i \in 0..n : tried[i] \in D}
<1>10. 0 \in P /\ \A i \in 1..n : i - 1 \in P => i \in P
  BY <1>1, <1>3, <1>9 DEF D
<1> HIDE DEF P
<1>11. 0..n \subseteq P
  BY <1>1, <1>10, UpTo
<1>12. tried[n] \in D
  BY <1>1, <1>11 DEF P
<1>13. QED
  BY <1>2, <1>12 DEF D

\* The three starters are what was chosen, followed by generic questions.
LEMMA StartersAreChoices ==
  ASSUME NEW caps \in Declarations
  PROVE  \E chosen \in Picks(caps, TRUE) :
           LET items == StarterItems(caps) IN
           /\ items \in Seq(Item) /\ Len(items) = 3
           /\ \A i \in 1..3 :
                \/ i <= Len(chosen) /\ items[i] = chosen[i]
                \/ /\ i > Len(chosen)
                   /\ items[i] = [kind |-> "generic", of |-> Backstops[i - Len(chosen)],
                                  agent |-> NoAgent]
<1> DEFINE governing == Underived("method", Methods)
           own == TryPool(caps, governing, FALSE)
           chosen == TryPool(caps, own, TRUE)
           generic == Underived("generic", Backstops)
           all == chosen \o generic
<1>1. governing \in Picks(caps, FALSE)
  <2>1. Methods \in Seq(ToSet(Methods)) /\ Len(Methods) <= 1
    BY QuestionsAssumption DEF IsSeq
  <2>2. /\ DOMAIN governing = 1..Len(Methods)
        /\ \A i \in 1..Len(Methods) :
             governing[i] = [kind |-> "method", of |-> Methods[i], agent |-> NoAgent]
    BY <2>1 DEF Underived
  <2>3. \A i \in 1..Len(Methods) : governing[i] \in Item /\ governing[i].of \in ToSet(Methods)
                                   /\ governing[i].kind = "method"
    <3>1. \A i \in 1..Len(Methods) : Methods[i] \in ToSet(Methods)
      BY <2>1
    <3>2. \A q \in ToSet(Methods) :
            [kind |-> "method", of |-> q, agent |-> NoAgent] \in Item
      BY DEF Item
    <3> HIDE DEF governing
    <3>3. QED
      BY <2>2, <3>1, <3>2
  <2>4. governing \in Seq(Item) /\ Len(governing) = Len(Methods)
    BY <2>1, <2>2, <2>3 DEF Underived
  <2> HIDE DEF governing
  <2>5. Sound(caps, governing)
    BY <2>1, <2>3, <2>4 DEF Sound
  <2>6. OwnFirst(caps, governing) /\ OnlyOwn(caps, governing)
    BY <2>3, <2>4 DEF OwnFirst, OnlyOwn
  <2>7. QED
    BY <2>4, <2>5, <2>6 DEF Picks
<1>2. own \in Picks(caps, FALSE)
  BY <1>1, PoolStep
<1>3. own \in Picks(caps, TRUE)
  BY <1>2 DEF Picks
<1>4. chosen \in Picks(caps, TRUE)
  BY <1>3, PoolStep
<1>5. StarterItems(caps) = SubSeq(all, 1, 3)
  BY DEF StarterItems
<1> HIDE DEF chosen
<1>6. /\ generic \in Seq(Item) /\ Len(generic) = 3
      /\ \A i \in 1..3 : generic[i] = [kind |-> "generic", of |-> Backstops[i], agent |-> NoAgent]
  <2>1. Backstops \in Seq(ToSet(Backstops)) /\ Len(Backstops) = 3
    BY QuestionsAssumption DEF IsSeq
  <2>2. /\ DOMAIN generic = 1..3
        /\ \A i \in 1..3 :
             generic[i] = [kind |-> "generic", of |-> Backstops[i], agent |-> NoAgent]
    BY <2>1 DEF Underived
  <2>3. \A i \in 1..3 : generic[i] \in Item
    BY <2>1, <2>2 DEF Item
  <2>4. QED
    BY <2>1, <2>2, <2>3 DEF Underived
<1> HIDE DEF generic
<1>7. chosen \in Seq(Item) /\ Len(chosen) \in Nat
  BY <1>4 DEF Picks
<1>8. /\ all \in Seq(Item) /\ Len(all) = Len(chosen) + 3
      /\ \A i \in 1..Len(all) : all[i] = IF i <= Len(chosen) THEN chosen[i]
                                         ELSE generic[i - Len(chosen)]
  <2>1. generic \in Seq(Item) /\ chosen \in Seq(Item) /\ Len(generic) = 3
    BY <1>6, <1>7
  <2>2. \A S : \A s, t \in Seq(S) :
          /\ s \o t \in Seq(S) /\ Len(s \o t) = Len(s) + Len(t)
          /\ \A i \in 1..(Len(s) + Len(t)) :
               (s \o t)[i] = IF i <= Len(s) THEN s[i] ELSE t[i - Len(s)]
    BY ConcatProperties
  <2>3. \A s, t \in Seq(Item) : Len(t) = 3 =>
          /\ s \o t \in Seq(Item) /\ Len(s \o t) = Len(s) + 3
          /\ \A i \in 1..Len(s \o t) :
               (s \o t)[i] = IF i <= Len(s) THEN s[i] ELSE t[i - Len(s)]
    <3>1. \A s, t \in Seq(Item) :
          /\ s \o t \in Seq(Item) /\ Len(s \o t) = Len(s) + Len(t)
          /\ \A i \in 1..(Len(s) + Len(t)) :
               (s \o t)[i] = IF i <= Len(s) THEN s[i] ELSE t[i - Len(s)]
      BY <2>2
    <3>2. QED
      BY <3>1
  <2> HIDE DEF all
  <2>4. chosen \o generic = all
    BY DEF all
  <2>5. QED
    BY ONLY <2>1, <2>3, <2>4, Zenon
<1> HIDE DEF all
<1>9. /\ SubSeq(all, 1, 3) \in Seq(Item) /\ Len(SubSeq(all, 1, 3)) = 3
      /\ \A i \in 1..3 : SubSeq(all, 1, 3)[i] = all[i]
  BY <1>7, <1>8, SubSeqProperties
<1>10. ASSUME NEW i \in 1..3
       PROVE  \/ i <= Len(chosen) /\ all[i] = chosen[i]
              \/ /\ i > Len(chosen)
                 /\ all[i] = [kind |-> "generic", of |-> Backstops[i - Len(chosen)],
                              agent |-> NoAgent]
  <2>1. i \in 1..Len(all)
    BY <1>7, <1>8
  <2>2. CASE i <= Len(chosen)
    BY <1>8, <2>1, <2>2
  <2>3. CASE i > Len(chosen)
    <3>1. i - Len(chosen) \in 1..3
      BY <1>7, <2>3
    <3>2. all[i] = generic[i - Len(chosen)]
      BY <1>7, <1>8, <2>1, <2>3
    <3>3. QED
      BY <1>6, <2>3, <3>1, <3>2
  <2>4. QED
    BY <1>7, <2>2, <2>3
<1>11. QED
  BY <1>4, <1>5, <1>9, <1>10

\* What the reader asks is answered with the agent it is worth most to, and buttons
\* for the next.
LEMMA RouteIsBest ==
  ASSUME NEW caps \in Declarations, NEW question \in SUBSET Word
  PROVE  LET worth == [a \in Agent |-> Worth(question, caps, a)]
             answer == Route(question, caps)
             offered == ToSet(answer.runners)
         IN  /\ answer.agent \in Agent /\ answer.runners \in Seq(Agent)
             /\ \A a \in Agent \ {answer.agent} :
                  \/ worth[a] < worth[answer.agent]
                  \/ /\ worth[a] = worth[answer.agent]
                     /\ a \in Coordinators => answer.agent \in Coordinators
                     /\ (a \in Coordinators <=> answer.agent \in Coordinators) => answer.agent < a
             /\ answer.agent \notin offered
             /\ \A a \in offered : worth[a] > 0
             /\ \A i, j \in DOMAIN answer.runners :
                  i < j => Ahead(worth, answer.runners[i], answer.runners[j])
             /\ \A a \in Agent \ (offered \cup {answer.agent}) :
                  worth[a] > 0 => /\ Len(answer.runners) = 3
                                  /\ \A b \in offered : worth[b] >= worth[a]
<1> DEFINE worth == [a \in Agent |-> Worth(question, caps, a)]
           winner == Winner(worth)
           runners == RunnersUp(worth, winner)
           others == {a \in Agent \ {winner} : worth[a] > 0}
<1>1. \A a \in Agent : ScoreAgent(question, caps, a) = Worth(question, caps, a)
                       /\ Worth(question, caps, a) \in Nat
  BY ScoreIsWorth
<1>2. Scores(question, caps) = worth /\ worth \in [Agent -> Nat]
  BY <1>1 DEF Scores
<1>3. Route(question, caps) = [agent |-> winner, runners |-> runners]
  BY <1>2 DEF Route
<1> HIDE DEF worth
<1>4. winner \in Agent /\ \A a \in Agent \ {winner} : Better(worth, winner, a)
  BY <1>2, WinnerIsBest
<1> HIDE DEF winner
<1>5. /\ runners \in Seq(others) /\ Len(runners) <= 3
      /\ \A i, j \in 1..Len(runners) : i < j => Ahead(worth, runners[i], runners[j])
      /\ \A a \in others : \/ \E i \in 1..Len(runners) : runners[i] = a
                           \/ /\ Len(runners) = 3
                              /\ \A i \in 1..3 : Ahead(worth, runners[i], a)
  BY <1>2, <1>4, RunnersAreNext
<1> HIDE DEF runners, others
<1>6. /\ DOMAIN runners = 1..Len(runners) /\ ToSet(runners) = {runners[i] : i \in 1..Len(runners)}
      /\ \A i \in 1..Len(runners) : runners[i] \in others
  BY <1>5 DEF ToSet
<1>7. \A a \in others : a \in Agent /\ a # winner /\ worth[a] > 0
  BY DEF others
<1>8. \A a \in Agent : a \in Nat /\ worth[a] \in Nat
  BY <1>2, AgentsAreListed
<1>9. \A a \in Agent \ {winner} :
         \/ worth[a] < worth[winner]
         \/ /\ worth[a] = worth[winner]
            /\ a \in Coordinators => winner \in Coordinators
            /\ (a \in Coordinators <=> winner \in Coordinators) => winner < a
  BY <1>4, <1>8 DEF Better
<1>10. runners \in Seq(Agent)
  <2>1. others \subseteq Agent
    BY <1>7
  <2>2. \A S, T, s : s \in Seq(S) /\ S \subseteq T => s \in Seq(T)
    OBVIOUS
  <2>3. QED
    BY <1>5, <2>1, <2>2
<1>11. winner \notin ToSet(runners) /\ \A a \in ToSet(runners) : worth[a] > 0
  BY <1>6, <1>7
<1>12. ASSUME NEW a \in Agent \ (ToSet(runners) \cup {winner}), worth[a] > 0
       PROVE  Len(runners) = 3 /\ \A b \in ToSet(runners) : worth[b] >= worth[a]
  <2>1. a \in others
    BY <1>12 DEF others
  <2>2. Len(runners) = 3 /\ \A i \in 1..3 : Ahead(worth, runners[i], a)
    BY <1>5, <1>6, <1>12, <2>1
  <2>3. \A i \in 1..3 : worth[runners[i]] >= worth[a]
    BY <1>6, <1>7, <1>8, <2>2 DEF Ahead
  <2>4. QED
    BY <1>6, <2>2, <2>3
<1>13. Route(question, caps).agent = winner /\ Route(question, caps).runners = runners
  BY <1>3
<1>14. worth = [a \in Agent |-> Worth(question, caps, a)]
  BY DEF worth
<1>15. \A i, j \in DOMAIN runners : i < j => Ahead(worth, runners[i], runners[j])
  BY <1>5, <1>6
<1> HIDE DEF worth
<1>16. QED
  BY ONLY <1>4, <1>9, <1>10, <1>11, <1>12, <1>13, <1>14, <1>15

\* The page opens with three different questions that route back.
LEMMA StartersAreGood ==
  ASSUME NEW caps \in Declarations
  PROVE  LET items == StarterItems(caps)
             own(j) == ToSet(Pool(caps, items[j].agent, FALSE))
         IN
         /\ Len(items) = 3 /\ DOMAIN items = 1..3
         /\ \A i \in DOMAIN items : items[i].kind = "derived" =>
              /\ Route(QuestionOf[items[i].of], caps).agent = items[i].agent
              /\ items[i].of \in caps[items[i].agent]
              /\ items[i].of \notin own(i) =>
                   \A j \in DOMAIN items : j > i /\ items[j].kind = "derived" =>
                      items[j].of \notin own(j)
         /\ \A i, j \in DOMAIN items : i # j => items[i].of # items[j].of
<1> DEFINE items == StarterItems(caps)
<1>1. PICK chosen \in Picks(caps, TRUE) :
         /\ items \in Seq(Item) /\ Len(items) = 3
         /\ \A i \in 1..3 :
              \/ i <= Len(chosen) /\ items[i] = chosen[i]
              \/ /\ i > Len(chosen)
                 /\ items[i] = [kind |-> "generic", of |-> Backstops[i - Len(chosen)],
                                agent |-> NoAgent]
  BY StartersAreChoices
<1> HIDE DEF items
<1>2. chosen \in Seq(Item) /\ Sound(caps, chosen) /\ OwnFirst(caps, chosen) /\ Len(chosen) \in Nat
  BY <1>1 DEF Picks
<1>3. DOMAIN items = 1..3
  BY <1>1
<1>4. \A i \in 1..3 : items[i].kind = "derived" => i \in 1..Len(chosen) /\ items[i] = chosen[i]
  BY <1>1, <1>2
<1>5. \A i \in 1..3 :
        \/ i \in 1..Len(chosen) /\ items[i] = chosen[i]
           /\ chosen[i].of \in Capability \cup ToSet(Methods)
        \/ i > Len(chosen) /\ i - Len(chosen) \in 1..3 /\ items[i].of = Backstops[i - Len(chosen)]
           /\ items[i].of \in ToSet(Backstops)
  <2>1. \A i \in 1..3 : Backstops[i] \in ToSet(Backstops)
    <3>1. Backstops \in Seq(ToSet(Backstops)) /\ Len(Backstops) = 3
      BY QuestionsAssumption DEF IsSeq
    <3>2. QED
      BY <3>1
  <2>2. ASSUME NEW i \in 1..3, i <= Len(chosen), items[i] = chosen[i]
        PROVE  i \in 1..Len(chosen) /\ chosen[i].of \in Capability \cup ToSet(Methods)
    BY <1>2, <2>2 DEF Sound
  <2>3. ASSUME NEW i \in 1..3, i > Len(chosen),
               items[i] = [kind |-> "generic", of |-> Backstops[i - Len(chosen)], agent |-> NoAgent]
        PROVE  /\ i - Len(chosen) \in 1..3 /\ items[i].of = Backstops[i - Len(chosen)]
               /\ items[i].of \in ToSet(Backstops)
    <3>1. i - Len(chosen) \in 1..3
      BY <1>2, <2>3
    <3>2. QED
      BY <2>1, <2>3, <3>1
  <2>4. QED
    BY <1>1, <2>2, <2>3
<1>6. ASSUME NEW i \in 1..3, NEW j \in 1..3, i # j  PROVE items[i].of # items[j].of
  <2>1. \A b, c \in 1..3 : b # c => Backstops[b] # Backstops[c]
    <3>1. Backstops \in Seq(ToSet(Backstops)) /\ Len(Backstops) = 3
      BY QuestionsAssumption DEF IsSeq
    <3>2. DOMAIN Backstops = 1..3
      BY <3>1
    <3>3. QED
      BY <3>2, QuestionsAssumption
  <2>2. (Capability \cup ToSet(Methods)) \cap ToSet(Backstops) = {}
    BY QuestionsAssumption
  <2>3. CASE i \in 1..Len(chosen) /\ j \in 1..Len(chosen)
    BY <1>2, <1>5, <1>6, <2>3 DEF Sound
  <2>4. CASE i > Len(chosen) /\ j > Len(chosen)
    <3>1. i - Len(chosen) # j - Len(chosen)
      BY <1>2, <1>6
    <3>2. /\ i - Len(chosen) \in 1..3 /\ items[i].of = Backstops[i - Len(chosen)]
          /\ j - Len(chosen) \in 1..3 /\ items[j].of = Backstops[j - Len(chosen)]
      BY <1>2, <1>5, <2>4
    <3>3. QED
      BY <2>1, <3>1, <3>2
  <2>5. QED
    BY <1>2, <1>5, <2>2, <2>3, <2>4
<1>7. ASSUME NEW i \in 1..3, items[i].kind = "derived"
      PROVE  /\ Route(QuestionOf[items[i].of], caps).agent = items[i].agent
             /\ items[i].of \in caps[items[i].agent]
             /\ items[i].of \notin ToSet(Pool(caps, items[i].agent, FALSE)) =>
                   \A j \in 1..3 : j > i /\ items[j].kind = "derived" =>
                      items[j].of \notin ToSet(Pool(caps, items[j].agent, FALSE))
  <2>1. i \in 1..Len(chosen) /\ items[i] = chosen[i]
    BY <1>4, <1>7
  <2>2. /\ Route(QuestionOf[chosen[i].of], caps).agent = chosen[i].agent
        /\ chosen[i].of \in caps[chosen[i].agent]
    BY <1>2, <1>7, <2>1 DEF Sound
  <2>3. \A j \in 1..3 : j > i /\ items[j].kind = "derived"
                          /\ items[i].of \notin OwnPool(caps, items[i].agent)
                        => items[j].of \notin OwnPool(caps, items[j].agent)
    BY <1>2, <1>4, <1>7, <2>1 DEF OwnFirst
  <2>4. QED
    BY <2>1, <2>2, <2>3 DEF OwnPool
<1>8. QED
  BY <1>1, <1>3, <1>6, <1>7 DEF items

\* Before the page opens nothing is asked.
LEMMA InitRouterInv == RouterInit => RouterInv
<1> SUFFICES ASSUME RouterInit PROVE RouterInv
  OBVIOUS
<1>1. DOMAIN starters = {}
  BY DEF RouterInit
<1>2. RouterTypeOK
  BY DEF RouterInit, RouterTypeOK, NotAsked
<1>3. StartersRouteBack
  BY <1>1 DEF StartersRouteBack
<1>4. QED
  BY <1>2, <1>3 DEF RouterInit, RouterInv, PickIsBest

\* Opening the page and asking keep the invariant, one branch for each action.
LEMMA NextRouterInv == RouterInv /\ [RouterNext]_routerVars => RouterInv'
<1> SUFFICES ASSUME RouterInv, [RouterNext]_routerVars PROVE RouterInv'
  OBVIOUS
<1> USE DEF RouterInv
<1>1. ASSUME NEW caps \in Catalogues, OpenRole(caps)  PROVE RouterInv'
  <2>1. caps \in Declarations
    BY CataloguesAssumption DEF Declarations
  <2>2. /\ declared' = caps /\ starters' = StarterItems(caps)
        /\ UNCHANGED <<spoken, routed>> /\ routed' = NotAsked
    BY <1>1 DEF OpenRole
  <2>3. Len(starters') = 3 /\ DOMAIN starters' = 1..3
    BY <2>1, <2>2, StartersAreGood
  <2>4. RouterTypeOK'
    BY <2>1, <2>2, <2>3 DEF RouterTypeOK, Declarations
  <2>5. StartersRouteBack'
    BY <2>1, <2>2, StartersAreGood DEF StartersRouteBack
  <2>6. PickIsBest'
    BY <2>2 DEF PickIsBest
  <2>7. QED
    BY <2>2, <2>4, <2>5, <2>6
<1>2. ASSUME NEW question \in SUBSET Word, AskRole(question)  PROVE RouterInv'
  <2>1. declared \in Declarations
    BY DEF RouterTypeOK, Declarations
  <2>2. /\ spoken' = question /\ routed' = Route(question, declared)
        /\ UNCHANGED <<declared, starters>> /\ starters # <<>>
    BY <1>2 DEF AskRole
  <2>3. RouterTypeOK'
    <3>1. routed'.agent \in Agent /\ routed'.runners \in Seq(Agent)
      BY <2>1, <2>2, RouteIsBest
    <3>2. QED
      BY <2>2, <3>1 DEF RouterTypeOK
  <2>4. PickIsBest'
    BY <2>1, <2>2, RouteIsBest DEF PickIsBest
  <2>5. StartersRouteBack'
    BY <2>2 DEF StartersRouteBack
  <2>6. QED
    BY <2>2, <2>3, <2>4, <2>5
<1>3. CASE UNCHANGED routerVars
  BY <1>3 DEF routerVars, RouterTypeOK, PickIsBest, StartersRouteBack
<1>4. QED
  BY <1>1, <1>2, <1>3 DEF RouterNext

\* Put together.
LEMMA RouterHolds == RouterSpec => []RouterInv
  BY InitRouterInv, NextRouterInv, PTL DEF RouterSpec

\* What the role page holds has the shape the code gives it, for every catalogue.
THEOREM RouterTypes == RouterSpec => []RouterTypeOK
  BY RouterHolds, PTL DEF RouterInv

\* route() picks the agent a question is worth most to, the first of equals, and offers
\* as buttons the ones that follow, for any agents, capabilities, words and weights.
THEOREM PicksAreBest == RouterSpec => []PickIsBest
  BY RouterHolds, PTL DEF RouterInv

\* The three questions a role page opens with are different, and each that was taken from
\* a capability of an agent is answered by that agent when it is asked.
THEOREM AllStartersRouteBack == RouterSpec => []StartersRouteBack
  BY RouterHolds, PTL DEF RouterInv

-----------------------------------------------------------------------------
(* The answer: _cutFailures, _markdown and plainAnswer.                    *)

\* Between j and the next line that is filled all lines are blank.
LEMMA NextFilledIs ==
  ASSUME NEW ls \in Seq(Kind), NEW j \in 1..Len(ls)
  PROVE  LET k == NextFilled(ls, j) IN
         /\ k \in j..(Len(ls) + 1) /\ \A l \in j..(k - 1) : ls[l] = "blank"
         /\ ls[j] = "blank" => k > j
         /\ k <= Len(ls) => ls[k] # "blank"
<1> DEFINE n == Len(ls)
           T == Filled(ls, j)
<1>1. n \in Nat
  OBVIOUS
<1>2. T \in SUBSET Nat /\ \A k : k \in T <=> k \in j..n /\ ls[k] # "blank"
  BY DEF Filled
<1> HIDE DEF T
<1>3. CASE T = {}
  <2>1. NextFilled(ls, j) = n + 1
    BY <1>3 DEF NextFilled, T
  <2>2. \A l \in j..n : ls[l] = "blank"
    BY <1>2, <1>3
  <2>3. QED
    BY <1>1, <2>1, <2>2
<1>4. CASE T # {}
  <2>1. \E k \in T : \A l \in T : k <= l
    BY <1>2, <1>4, Least
  <2>2. NextFilled(ls, j) = CHOOSE k \in T : \A l \in T : k <= l
    BY <1>4 DEF NextFilled, T
  <2> DEFINE k == NextFilled(ls, j)
  <2> HIDE DEF k
  <2>3. k \in T /\ \A l \in T : k <= l
    BY <2>1, <2>2 DEF k
  <2>4. \A l \in j..(k - 1) : l \in j..n /\ l \notin T
    BY <1>1, <1>2, <2>3
  <2>5. QED
    BY <1>1, <1>2, <2>3, <2>4 DEF k
<1>5. QED
  BY <1>3, <1>4

\* The numbers of lines rise.
Rising(s) == \A i, j \in 1..Len(s) : i < j => s[i] < s[j]

\* A line in front of later ones.
LEMMA Prepended ==
  ASSUME NEW s \in Seq(Nat), Rising(s), NEW j \in Nat, \A i \in 1..Len(s) : j < s[i]
  PROVE  LET t == <<j>> \o s IN
         t \in Seq(Nat) /\ Rising(t) /\ ToSet(t) = {j} \cup ToSet(s) /\ t # <<>> /\ t[1] = j
<1> DEFINE t == <<j>> \o s
<1>1. /\ t \in Seq(Nat) /\ Len(t) = Len(s) + 1 /\ t[1] = j
      /\ \A i \in 1..Len(s) : t[i + 1] = s[i]
      /\ \A i \in 2..(Len(s) + 1) : t[i] = s[i - 1] /\ i - 1 \in 1..Len(s)
  OBVIOUS
<1>2. Len(s) \in Nat /\ DOMAIN s = 1..Len(s) /\ DOMAIN t = 1..(Len(s) + 1)
  OBVIOUS
<1> HIDE DEF t
<1>3. Rising(t)
  <2>1. ASSUME NEW a \in 1..Len(t), NEW b \in 1..Len(t), a < b  PROVE t[a] < t[b]
    <3>1. b \in 2..(Len(s) + 1) /\ t[b] = s[b - 1] /\ b - 1 \in 1..Len(s)
      BY <1>1, <1>2, <2>1
    <3>2. CASE a = 1
      BY <1>1, <3>1, <3>2
    <3>3. CASE a # 1
      <4>1. t[a] = s[a - 1] /\ a - 1 \in 1..Len(s) /\ a - 1 < b - 1
        BY <1>1, <1>2, <2>1, <3>3
      <4>2. QED
        BY <3>1, <4>1 DEF Rising
    <3>4. QED
      BY <3>2, <3>3
  <2>2. QED
    BY <2>1 DEF Rising
<1>4. ToSet(t) = {j} \cup ToSet(s)
  <2>1. \A x \in ToSet(t) : x \in {j} \cup ToSet(s)
    <3>1. ASSUME NEW i \in 1..(Len(s) + 1)  PROVE t[i] \in {j} \cup ToSet(s)
      <4>1. CASE i = 1
        BY <1>1, <4>1
      <4>2. CASE i # 1
        <5>1. t[i] = s[i - 1] /\ i - 1 \in 1..Len(s)
          BY <1>1, <1>2, <4>2
        <5>2. QED
          BY <1>2, <5>1 DEF ToSet
      <4>3. QED
        BY <4>1, <4>2
    <3>2. QED
      BY <1>2, <3>1 DEF ToSet
  <2>2. j \in ToSet(t)
    <3>1. 1 \in DOMAIN t /\ t[1] = j
      BY <1>1, <1>2
    <3>2. QED
      BY <3>1 DEF ToSet
  <2>3. \A x \in ToSet(s) : x \in ToSet(t)
    <3>1. \A i \in 1..Len(s) : i + 1 \in 1..(Len(s) + 1) /\ t[i + 1] = s[i]
      BY <1>1, <1>2
    <3>2. QED
      BY <1>2, <3>1 DEF ToSet
  <2>4. QED
    BY <2>1, <2>2, <2>3
<1>5. t # <<>>
  BY <1>1, <1>2
<1>6. QED
  BY <1>1, <1>3, <1>4, <1>5 DEF t

\* From k on no more of a passage follows.
Ends(ls, k) ==
    \A m \in k..Len(ls) :
       (\A l \in k..(m - 1) : ls[l] = "blank") /\ ls[m] \in FailLine => ls[m] \in Announcement

\* What the inner loop returns.
Passages == [lines : Seq(Nat), next : Nat]

\* The rest of a passage, from j to before r.next: it has the fail lines on its way,
\* which has nothing else but blank lines and no other announcement, and begins with j
\* if that is one of them.
Gathers(ls, j, r) == ToSet(r.lines) = {l \in j..(r.next - 1) : ls[l] \in FailLine}
Spans(ls, from, j, r) ==
    \A l \in j..(r.next - 1) : /\ ls[l] \in FailLine \cup {"blank"}
                               /\ l > from => ls[l] \notin Announcement
Starts(ls, from, j, r) ==
    j <= Len(ls) /\ ls[j] \in FailLine /\ (j > from => ls[j] \notin Announcement)
      => r.next > j /\ r.lines # <<>> /\ r.lines[1] = j
IsRest(ls, from, j, r) ==
    /\ r \in Passages /\ Rising(r.lines) /\ r.next \in j..(Len(ls) + 1)
    /\ Gathers(ls, j, r) /\ Spans(ls, from, j, r) /\ Ends(ls, r.next) /\ Starts(ls, from, j, r)

\* _cutFailures' inner loop takes exactly one passage.
LEMMA PassageIsOne ==
  ASSUME NEW ls \in Seq(Kind), NEW from \in 1..Len(ls)
  PROVE  IsRest(ls, from, from, Passage(ls, from))
<1> DEFINE n == Len(ls)
           D == Passages
           
           goes(j) == j <= n /\ ls[j] \in FailLine /\ (j > from => ls[j] \notin Announcement)
           skips(j) == j <= n /\ ls[j] = "blank" /\ Follows(ls, NextFilled(ls, j))
           base(j) == [lines |-> <<>>, next |-> j]
           pass(j, r) == IF goes(j) THEN [r EXCEPT !.lines = <<j>> \o @]
                         ELSE IF skips(j) THEN r ELSE base(j)
           jump == [j \in from..n |-> IF goes(j) THEN j + 1
                                      ELSE IF skips(j) THEN NextFilled(ls, j) ELSE j + 1]
           step == [j \in from..n |-> [r \in D |-> pass(j, r)]]
           taken[j \in from..(n + 1)] ==
             IF j <= Len(ls) /\ ls[j] \in FailLine /\ (j > from => ls[j] \notin Announcement)
             THEN LET rest == taken[j + 1] IN [rest EXCEPT !.lines = <<j>> \o @]
             ELSE IF j <= Len(ls) /\ ls[j] = "blank" /\ Follows(ls, NextFilled(ls, j))
             THEN taken[NextFilled(ls, j)]
             ELSE [lines |-> <<>>, next |-> j]
           unrolled(g) == [j \in from..(n + 1) |->
             IF goes(j) THEN [g[j + 1] EXCEPT !.lines = <<j>> \o @]
             ELSE IF skips(j) THEN g[NextFilled(ls, j)] ELSE base(j)]
<1>1. n \in Nat /\ from \in Nat /\ from >= 1 /\ from <= n + 1
  OBVIOUS
<1>2. Passage(ls, from) = taken[from]
  BY DEF Passage
<1>3. \A j \in from..n : skips(j) => NextFilled(ls, j) \in (j + 1)..n
  <2>1. ASSUME NEW j \in from..n, skips(j)  PROVE NextFilled(ls, j) \in (j + 1)..n
    <3>1. j \in 1..Len(ls)
      BY <1>1
    <3>2. /\ NextFilled(ls, j) \in j..(Len(ls) + 1) /\ NextFilled(ls, j) > j
          /\ NextFilled(ls, j) <= Len(ls)
      BY <2>1, <3>1, NextFilledIs DEF Follows
    <3>3. QED
      BY <1>1, <3>2
  <2> HIDE DEF skips
  <2>2. QED
    BY <2>1
<1>4. jump \in Jumps(from, n)
  <2> HIDE DEF goes, skips, n
  <2>1. ASSUME NEW j \in from..n  PROVE jump[j] \in (j + 1)..(n + 1) /\ jump[j] \in Nat
    BY <1>1, <1>3
  <2>2. jump = [j \in from..n |-> jump[j]]
    OBVIOUS
  <2> HIDE DEF jump
  <2>3. jump \in [from..n -> Nat]
    BY <2>1, <2>2
  <2>4. QED
    BY <2>1, <2>3 DEF Jumps
<1>5. step \in Leaps(from, n, D)
  <2>1. ASSUME NEW j \in from..n, NEW r \in D  PROVE pass(j, r) \in D
    <3>1. j \in Nat
      BY <1>1
    <3>2. <<j>> \o r.lines \in Seq(Nat)
      BY <3>1 DEF Passages
    <3>3. [r EXCEPT !.lines = <<j>> \o @] \in D
      BY <3>2 DEF Passages
    <3>4. base(j) \in D
      BY <3>1 DEF Passages
    <3> HIDE DEF goes, skips, D, base
    <3>5. QED
      BY <3>3, <3>4
  <2> HIDE DEF pass, D, n
  <2>2. QED
    BY <2>1 DEF Leaps
<1>6. base(n + 1) \in D
  BY <1>1 DEF Passages
<1>7. \E f : IsWalk(f, jump, step, from, n, base(n + 1), D)
  <2> HIDE DEF jump, step, n, D, base
  <2>1. QED
    BY <1>1, <1>4, <1>5, <1>6, WalkExists
<1>8. PICK f : /\ f \in [from..(n + 1) -> D] /\ f[n + 1] = base(n + 1)
               /\ \A j \in from..n : f[j] = step[j][f[jump[j]]]
  <2> HIDE DEF jump, step, n, D, base
  <2>1. QED
    BY <1>7 DEF IsWalk
<1>9. f = unrolled(f)
  <2>1. ~ goes(n + 1) /\ ~ skips(n + 1)
    BY <1>1
  <2> HIDE DEF goes, skips, n
  <2>2. ASSUME NEW j \in from..n
        PROVE  f[j] = IF goes(j) THEN [f[j + 1] EXCEPT !.lines = <<j>> \o @]
                      ELSE IF skips(j) THEN f[NextFilled(ls, j)] ELSE base(j)
    <3>1. jump[j] \in from..(n + 1) /\ jump[j] = IF goes(j) THEN j + 1
                                      ELSE IF skips(j) THEN NextFilled(ls, j) ELSE j + 1
      BY <1>1, <1>3
    <3>2. f[jump[j]] \in D
      BY <1>8, <3>1
    <3>3. f[j] = pass(j, f[jump[j]])
      <4> HIDE DEF pass, jump, D
      <4>1. QED
        BY <1>8, <3>2
    <3> HIDE DEF jump, D, base, step
    <3>4. QED
      BY <3>1, <3>3
  <2>3. \A j \in from..(n + 1) : j = n + 1 \/ j \in from..n
    BY <1>1
  <2>4. n + 1 \in from..(n + 1)
    BY <1>1
  <2>5. ASSUME NEW j \in from..(n + 1)
        PROVE  f[j] = IF goes(j) THEN [f[j + 1] EXCEPT !.lines = <<j>> \o @]
                      ELSE IF skips(j) THEN f[NextFilled(ls, j)] ELSE base(j)
    <3> HIDE DEF jump, D, base, step
    <3>1. QED
      BY <1>8, <2>1, <2>2, <2>3
  <2>6. f = [j \in from..(n + 1) |-> f[j]]
    BY <1>8
  <2> HIDE DEF jump, D, base, step
  <2>7. QED
    BY <2>5, <2>6
<1>10. taken = unrolled(taken)
  <2>1. \E g : g = unrolled(g)
    BY <1>9
  <2>2. QED
    BY <2>1
<1> HIDE DEF taken, step, jump
<1>11. \A j \in from..(n + 1) :
          taken[j] = IF goes(j) THEN [taken[j + 1] EXCEPT !.lines = <<j>> \o @]
                     ELSE IF skips(j) THEN taken[NextFilled(ls, j)] ELSE base(j)
  <2> HIDE DEF goes, skips, base, n
  <2>1. QED
    BY <1>10
<1> DEFINE P == {j \in from..(n + 1) : IsRest(ls, from, j, taken[j])}
<1>12. \A j \in from..(n + 1) : ~ goes(j) /\ ~ skips(j) => IsRest(ls, from, j, base(j))
  <2> SUFFICES ASSUME NEW j \in from..(n + 1), ~ goes(j), ~ skips(j)
               PROVE  IsRest(ls, from, j, base(j))
    OBVIOUS
  <2>1. base(j).lines = <<>> /\ base(j).next = j /\ j \in Nat /\ j >= 1 /\ j <= n + 1
    BY <1>1
  <2>2. <<>> \in Seq(Nat) /\ Rising(<<>>) /\ ToSet(<<>>) = {} /\ j..(j - 1) = {}
    BY <2>1 DEF Rising, ToSet
  <2>3. Ends(ls, j)
    <3>1. SUFFICES ASSUME NEW m \in j..n, \A l \in j..(m - 1) : ls[l] = "blank", ls[m] \in FailLine,
                          ls[m] \notin Announcement
                   PROVE  FALSE
      BY DEF Ends
    <3>2. CASE m = j
      BY <2>1, <3>1, <3>2
    <3>3. CASE m # j
      <4>1. j \in 1..n /\ j \in j..(m - 1) /\ ls[j] = "blank" /\ m \in Nat
        BY <1>1, <2>1, <3>1, <3>3
      <4> DEFINE k == NextFilled(ls, j)
      <4>2. /\ k \in j..(n + 1) /\ \A l \in j..(k - 1) : ls[l] = "blank"
            /\ k <= n => ls[k] # "blank"
        BY <4>1, NextFilledIs
      <4> HIDE DEF k
      <4>3. ls[m] # "blank"
        BY <3>1 DEF FailLine, Announcement
      <4>4. ~ m < k
        BY <2>1, <4>1, <4>2, <4>3
      <4>5. ~ k < m
        BY <2>1, <3>1, <4>1, <4>2
      <4>6. k = m
        BY <4>1, <4>2, <4>4, <4>5
      <4>7. Follows(ls, k)
        BY <3>1, <4>6 DEF Follows
      <4>8. QED
        BY <4>1, <4>7 DEF k
    <3>4. QED
      BY <3>2, <3>3
  <2> HIDE DEF base
  <2>4. base(j) \in Passages
    BY <2>1, <2>2 DEF base, Passages
  <2>5. Gathers(ls, j, base(j)) /\ Spans(ls, from, j, base(j))
    BY <2>1, <2>2 DEF Gathers, Spans
  <2>6. Starts(ls, from, j, base(j))
    BY <2>1 DEF Starts
  <2>7. QED
    BY <2>1, <2>2, <2>3, <2>4, <2>5, <2>6 DEF IsRest
<1>13. n + 1 \in P
  <2>1. ~ goes(n + 1) /\ ~ skips(n + 1) /\ n + 1 \in from..(n + 1)
    BY <1>1
  <2> HIDE DEF goes, skips, base, n
  <2>2. QED
    BY <1>11, <1>12, <2>1
<1>14. ASSUME NEW j \in from..n, (j + 1)..(n + 1) \subseteq P  PROVE j \in P
  <2> SUFFICES IsRest(ls, from, j, taken[j])
    BY <1>1
  <2>1. j \in Nat /\ j >= 1 /\ j <= n /\ j \in from..(n + 1) /\ j + 1 \in (j + 1)..(n + 1)
    BY <1>1
  <2>2. CASE goes(j)
    <3> DEFINE r == taken[j + 1]
               q == taken[j]
    <3>1. IsRest(ls, from, j + 1, r)
      BY <1>14, <2>1
    <3>2. q = [r EXCEPT !.lines = <<j>> \o @]
      <4> HIDE DEF goes, skips, base
      <4>1. QED
        BY <1>11, <2>1, <2>2
    <3> HIDE DEF r, q
    <3>3. /\ r \in Passages /\ Rising(r.lines)
          /\ r.next \in (j + 1)..(n + 1)
          /\ ToSet(r.lines) = {l \in (j + 1)..(r.next - 1) : ls[l] \in FailLine}
          /\ \A l \in (j + 1)..(r.next - 1) : /\ ls[l] \in FailLine \cup {"blank"}
                                              /\ l > from => ls[l] \notin Announcement
          /\ Ends(ls, r.next)
      BY <3>1 DEF IsRest, Gathers, Spans
    <3>4. q.lines = <<j>> \o r.lines /\ q.next = r.next
      BY <3>2, <3>3 DEF Passages
    <3>5. \A i \in 1..Len(r.lines) : j < r.lines[i]
      <4>1. \A i \in 1..Len(r.lines) : r.lines[i] \in ToSet(r.lines)
        BY <3>3 DEF ToSet, Passages
      <4>2. QED
        BY <2>1, <3>3, <4>1
    <3>6. /\ q.lines \in Seq(Nat) /\ Rising(q.lines) /\ q.lines # <<>> /\ q.lines[1] = j
          /\ ToSet(q.lines) = {j} \cup ToSet(r.lines)
      <4> DEFINE rest == r.lines
      <4>1. rest \in Seq(Nat) /\ Rising(rest) /\ \A i \in 1..Len(rest) : j < rest[i]
        BY <3>3, <3>5 DEF Passages
      <4> HIDE DEF rest
      <4>2. LET t == <<j>> \o rest IN
            t \in Seq(Nat) /\ Rising(t) /\ ToSet(t) = {j} \cup ToSet(rest) /\ t # <<>> /\ t[1] = j
        BY <2>1, <4>1, Prepended
      <4>3. q.lines = <<j>> \o rest /\ ToSet(rest) = ToSet(r.lines)
        BY <3>4 DEF rest
      <4>4. QED
        BY <4>2, <4>3
    <3>7. q \in Passages
      <4>1. <<j>> \o r.lines \in Seq(Nat)
        BY <3>4, <3>6
      <4>2. QED
        BY <3>2, <3>3, <4>1 DEF Passages
    <3>8. q.next \in j..(n + 1) /\ q.next > j
          /\ \A l \in j..(q.next - 1) : l = j \/ l \in (j + 1)..(r.next - 1)
      BY <2>1, <3>3, <3>4
    <3>9. ToSet(q.lines) = {l \in j..(q.next - 1) : ls[l] \in FailLine}
      BY <2>1, <2>2, <3>3, <3>4, <3>6, <3>8
    <3>10. \A l \in j..(q.next - 1) : /\ ls[l] \in FailLine \cup {"blank"}
                                      /\ l > from => ls[l] \notin Announcement
      BY <2>2, <3>3, <3>4, <3>8
    <3>11. IsRest(ls, from, j, q)
      <4>1. Ends(ls, q.next) /\ Rising(q.lines)
        BY <3>3, <3>4, <3>6
      <4>2. q.next \in j..(n + 1) /\ q.next > j /\ q.lines # <<>> /\ q.lines[1] = j
        BY <3>6, <3>8
      <4>3. Gathers(ls, j, q)
        BY <3>9 DEF Gathers
      <4>4. Spans(ls, from, j, q)
        <5>1. ASSUME NEW l \in j..(q.next - 1)
              PROVE  ls[l] \in FailLine \cup {"blank"} /\ (l > from => ls[l] \notin Announcement)
          BY <3>10
        <5>2. QED
          BY <5>1 DEF Spans
      <4>5. Starts(ls, from, j, q)
        BY <4>2 DEF Starts
      <4>6. QED
        BY <3>7, <4>1, <4>2, <4>3, <4>4, <4>5 DEF IsRest
    <3>12. QED
      BY <3>11 DEF q
  <2>3. CASE ~ goes(j) /\ skips(j)
    <3> DEFINE k == NextFilled(ls, j)
               r == taken[k]
    <3>1. taken[j] = r
      <4> HIDE DEF goes, skips, base
      <4>1. QED
        BY <1>11, <2>1, <2>3
    <3>2. k \in (j + 1)..n /\ \A l \in j..(k - 1) : ls[l] = "blank"
      BY <1>1, <1>3, <2>1, <2>3, NextFilledIs
    <3>3. IsRest(ls, from, k, r)
      BY <1>1, <1>14, <2>1, <3>2
    <3> HIDE DEF k, r
    <3>4. /\ r \in Passages /\ Rising(r.lines)
          /\ r.next \in k..(n + 1)
          /\ ToSet(r.lines) = {l \in k..(r.next - 1) : ls[l] \in FailLine}
          /\ \A l \in k..(r.next - 1) : /\ ls[l] \in FailLine \cup {"blank"}
                                        /\ l > from => ls[l] \notin Announcement
          /\ Ends(ls, r.next)
      BY <3>3 DEF IsRest, Gathers, Spans
    <3>5. /\ r.next \in j..(n + 1)
          /\ \A l \in j..(r.next - 1) : l \in j..(k - 1) \/ l \in k..(r.next - 1)
          /\ \A l \in k..(r.next - 1) : l \in j..(r.next - 1)
      BY <2>1, <3>2, <3>4
    <3>6. \A l \in j..(k - 1) : ls[l] \notin FailLine
      BY <3>2 DEF FailLine, Announcement
    <3>7. ToSet(r.lines) = {l \in j..(r.next - 1) : ls[l] \in FailLine}
      BY <3>4, <3>5, <3>6
    <3>8. \A l \in j..(r.next - 1) : /\ ls[l] \in FailLine \cup {"blank"}
                                     /\ l > from => ls[l] \notin Announcement
      BY <3>2, <3>4, <3>5, <3>6 DEF FailLine
    <3>9. IsRest(ls, from, j, r)
      <4>1. Ends(ls, r.next) /\ Rising(r.lines) /\ r \in Passages
        BY <3>4
      <4>2. r.next \in j..(n + 1)
        BY <3>5
      <4>3. Gathers(ls, j, r)
        BY <3>7 DEF Gathers
      <4>6. Spans(ls, from, j, r)
        <5>1. ASSUME NEW l \in j..(r.next - 1)
              PROVE  ls[l] \in FailLine \cup {"blank"} /\ (l > from => ls[l] \notin Announcement)
          BY <3>8
        <5>2. QED
          BY <5>1 DEF Spans
      <4>4. Starts(ls, from, j, r)
        BY <2>3 DEF Starts
      <4>5. QED
        BY <4>1, <4>2, <4>3, <4>4, <4>6 DEF IsRest
    <3>10. QED
      BY <3>1, <3>9
  <2>4. CASE ~ goes(j) /\ ~ skips(j)
    <3> HIDE DEF goes, skips, base
    <3>1. QED
      BY <1>11, <1>12, <2>1, <2>4
  <2>5. QED
    BY <2>2, <2>3, <2>4
<1> HIDE DEF P
<1>15. from..(n + 1) \subseteq P
  <2> HIDE DEF n
  <2>1. QED
    BY <1>1, <1>13, <1>14, Backwards
<1>16. QED
  BY <1>1, <1>2, <1>15 DEF P

\* What _cutFailures meets at line i when it is not in a passage: the next line that is
\* not blank, if it is about a failure, begins one.
Clear(ls, i) ==
    \A k \in i..Len(ls) :
       (\A l \in i..(k - 1) : ls[l] = "blank") /\ ls[k] \in FailLine => Begins(ls, k)

\* The first line is not in a passage.
LEMMA ClearAtFirst == ASSUME NEW ls \in Seq(Kind) PROVE Clear(ls, 1)
<1>1. SUFFICES ASSUME NEW k \in 1..Len(ls), \A l \in 1..(k - 1) : ls[l] = "blank",
                      ls[k] \in FailLine
               PROVE  Begins(ls, k)
  BY DEF Clear
<1>2. \A l \in 1..(k - 1) : ls[l] \notin FailLine
  BY <1>1 DEF FailLine, Announcement
<1>3. QED
  BY <1>1, <1>2 DEF Begins

\* Nor is the line after one that is not about a failure.
LEMMA ClearAfterOther ==
  ASSUME NEW ls \in Seq(Kind), NEW i \in 1..Len(ls), ls[i] \notin FailLine, Clear(ls, i)
  PROVE  Clear(ls, i + 1)
<1>1. SUFFICES ASSUME NEW k \in (i + 1)..Len(ls), \A l \in (i + 1)..(k - 1) : ls[l] = "blank",
                      ls[k] \in FailLine
               PROVE  Begins(ls, k)
  BY DEF Clear
<1>2. i \in Nat /\ k \in Nat /\ i >= 1 /\ k > i /\ k \in i..Len(ls)
  OBVIOUS
<1>3. CASE ls[i] = "blank"
  <2>1. \A l \in i..(k - 1) : l = i \/ l \in (i + 1)..(k - 1)
    BY <1>2
  <2>2. \A l \in i..(k - 1) : ls[l] = "blank"
    BY <1>1, <1>3, <2>1
  <2>3. QED
    BY <1>1, <1>2, <2>2 DEF Clear
<1>4. CASE ls[i] # "blank"
  <2>1. ASSUME NEW q \in 1..(k - 1), \A l \in (q + 1)..(k - 1) : ls[l] = "blank"
        PROVE  ls[q] \notin FailLine
    <3>1. CASE q < i
      <4>1. i \in (q + 1)..(k - 1)
        BY <1>2, <3>1
      <4>2. QED
        BY <1>4, <2>1, <4>1
    <3>2. CASE q = i
      BY <3>2
    <3>3. CASE q > i
      <4>1. q \in (i + 1)..(k - 1)
        BY <1>2, <3>3
      <4>2. QED
        BY <1>1, <4>1 DEF FailLine, Announcement
    <3>4. QED
      BY <1>2, <3>1, <3>2, <3>3
  <2>2. QED
    BY <1>1, <2>1 DEF Begins
<1>5. QED
  BY <1>3, <1>4

\* Nor is the line that a passage ends before.
LEMMA ClearAfterPassage ==
  ASSUME NEW ls \in Seq(Kind), NEW j \in 1..(Len(ls) + 1), Ends(ls, j)
  PROVE  Clear(ls, j)
<1>1. SUFFICES ASSUME NEW k \in j..Len(ls), \A l \in j..(k - 1) : ls[l] = "blank",
                      ls[k] \in FailLine
               PROVE  Begins(ls, k)
  BY DEF Clear
<1>2. ls[k] \in Announcement
  BY <1>1 DEF Ends
<1>3. QED
  BY <1>1, <1>2 DEF Begins

\* Of the lines of a passage only the first begins one.
LEMMA OneBegins ==
  ASSUME NEW ls \in Seq(Kind), NEW i \in 1..Len(ls), NEW r, IsRest(ls, i, i, r),
         ls[i] \in FailLine, Clear(ls, i)
  PROVE  /\ r.next \in (i + 1)..(Len(ls) + 1)
         /\ \A l \in i..(r.next - 1) : Begins(ls, l) <=> l = i
<1>1. i \in Nat /\ i >= 1 /\ i <= Len(ls) /\ i \in i..Len(ls)
  OBVIOUS
<1>2. r.next \in i..(Len(ls) + 1) /\ Spans(ls, i, i, r) /\ r.next > i
  BY <1>1 DEF IsRest, Starts
<1>3. Begins(ls, i)
  <2>1. \A l \in i..(i - 1) : ls[l] = "blank"
    BY <1>1
  <2>2. QED
    BY <1>1, <2>1 DEF Clear
<1>4. ASSUME NEW l \in i..(r.next - 1), l # i, Begins(ls, l)  PROVE FALSE
  <2>1. l \in (i + 1)..(r.next - 1) /\ l \in Nat /\ l > i
    BY <1>1, <1>2, <1>4
  <2>2. ls[l] \notin Announcement
    BY <1>4, <2>1, <1>2 DEF Spans
  <2>3. \A k \in 1..(l - 1) : (\A m \in (k + 1)..(l - 1) : ls[m] = "blank") => ls[k] \notin FailLine
    BY <1>4, <2>2 DEF Begins
  <2> DEFINE T == {d \in Nat : d <= l - 1 - i /\ ls[l - 1 - d] # "blank"}
  <2>4. l - 1 - i \in T
    <3>1. l - 1 - i \in Nat /\ l - 1 - (l - 1 - i) = i
      BY <1>1, <2>1
    <3>2. ls[i] # "blank"
      BY DEF FailLine, Announcement
    <3>3. QED
      BY <3>1, <3>2
  <2>5. PICK d \in T : \A e \in T : d <= e
    <3>1. T \in SUBSET Nat
      OBVIOUS
    <3> HIDE DEF T
    <3>2. QED
      BY <2>4, <3>1, Least
  <2> DEFINE k == l - 1 - d
  <2>6. d \in Nat /\ k \in i..(l - 1) /\ k \in Nat /\ ls[k] # "blank" /\ k = l - 1 - d
    BY <1>1, <2>1, <2>5
  <2>7. ASSUME NEW m \in (k + 1)..(l - 1)  PROVE ls[m] = "blank"
    <3>1. l - 1 - m \in Nat /\ l - 1 - m < d /\ l - 1 - m <= l - 1 - i /\ l - 1 - (l - 1 - m) = m
      BY <1>1, <2>1, <2>6
    <3>2. l - 1 - m \notin T
      <4> HIDE DEF T, k
      <4>1. \A e \in T : d <= e
        BY <2>5
      <4>2. ~ d <= l - 1 - m
        BY <2>6, <3>1
      <4>3. QED
        BY <4>1, <4>2
    <3>3. QED
      BY <3>1, <3>2
  <2> HIDE DEF k, T
  <2>8. k \in i..(r.next - 1) /\ k \in 1..(l - 1)
    BY <1>1, <1>2, <2>1, <2>6
  <2>9. ls[k] \in FailLine
    BY <1>2, <2>6, <2>8 DEF Spans
  <2>10. QED
    BY <2>3, <2>7, <2>8, <2>9
<1>5. QED
  BY <1>1, <1>2, <1>3, <1>4

\* A line of the cut answer, and whether it says anything.
Line == [kind : Kind \cup {"failure"}, of : Seq(Nat)]
Says(line) == line.kind \notin Wordless

\* What the lines of the cut answer say: the numbers in K once each and in order, and
\* the passages in T.
Rises(s) == \A a, b \in 1..Len(s) : a < b /\ Says(s[a]) /\ Says(s[b]) => s[a].of[1] < s[b].of[1]
Tells(K, s) == \A k : k \in K <=> \E a \in 1..Len(s) : Says(s[a]) /\ s[a].of[1] = k
Reports(T, s) == \A p : p \in T <=> \E a \in 1..Len(s) : s[a].kind = "failure" /\ s[a].of = p
Apart(s) == \A a \in 1..Len(s) : s[a].kind = "failure" =>
                a > 1 /\ a < Len(s) /\ s[a - 1].kind = "blank" /\ s[a + 1].kind = "blank"

\* A line in front that comes before what the others say.
LEMMA FrontRises ==
  ASSUME NEW s \in Seq(Line), Rises(s), NEW x \in Line, NEW K, Tells(K, s),
         Says(x) => \A k \in K : x.of[1] < k
  PROVE  Rises(<<x>> \o s)
<1> DEFINE t == <<x>> \o s
<1>1. /\ Len(t) = Len(s) + 1 /\ Len(s) \in Nat /\ t[1] = x
      /\ \A i \in 1..Len(t) : i = 1 \/ (i - 1 \in 1..Len(s) /\ t[i] = s[i - 1])
  OBVIOUS
<1> HIDE DEF t
<1>2. SUFFICES ASSUME NEW a \in 1..Len(t), NEW b \in 1..Len(t), a < b, Says(t[a]), Says(t[b])
               PROVE  t[a].of[1] < t[b].of[1]
  BY DEF Rises, t
<1>3. b - 1 \in 1..Len(s) /\ t[b] = s[b - 1]
  BY <1>1, <1>2
<1>4. CASE a = 1
  <2>1. s[b - 1].of[1] \in K
    BY <1>2, <1>3 DEF Tells
  <2>2. QED
    BY <1>1, <1>2, <1>3, <1>4, <2>1
<1>5. CASE a # 1
  <2>1. a - 1 \in 1..Len(s) /\ t[a] = s[a - 1]
    BY <1>1, <1>5
  <2>2. a - 1 < b - 1
    BY <1>2
  <2>3. QED
    BY <1>2, <1>3, <2>1, <2>2 DEF Rises
<1>6. QED
  BY <1>4, <1>5

\* A line in front adds its own number if it says something.
LEMMA FrontTells ==
  ASSUME NEW s \in Seq(Line), NEW x \in Line, NEW K, Tells(K, s), NEW M,
         \A k : k \in M <=> k \in K \/ (Says(x) /\ k = x.of[1])
  PROVE  Tells(M, <<x>> \o s)
<1> DEFINE t == <<x>> \o s
<1>1. /\ Len(t) = Len(s) + 1 /\ Len(s) \in Nat /\ t[1] = x
      /\ \A i \in 1..Len(s) : i + 1 \in 1..Len(t) /\ t[i + 1] = s[i]
      /\ \A i \in 1..Len(t) : i = 1 \/ (i - 1 \in 1..Len(s) /\ t[i] = s[i - 1])
  OBVIOUS
<1>2. 1 \in 1..Len(t)
  BY <1>1
<1> HIDE DEF t
<1>3. SUFFICES ASSUME NEW k
               PROVE  k \in M <=> \E a \in 1..Len(t) : Says(t[a]) /\ t[a].of[1] = k
  BY DEF Tells, t
<1>4. ASSUME k \in M  PROVE \E a \in 1..Len(t) : Says(t[a]) /\ t[a].of[1] = k
  <2>1. CASE Says(x) /\ k = x.of[1]
    BY <1>1, <1>2, <2>1
  <2>2. CASE k \in K
    <3>1. PICK a \in 1..Len(s) : Says(s[a]) /\ s[a].of[1] = k
      BY <2>2 DEF Tells
    <3>2. QED
      BY <1>1, <3>1
  <2>3. QED
    BY <1>4, <2>1, <2>2
<1>5. ASSUME NEW a \in 1..Len(t), Says(t[a]), t[a].of[1] = k  PROVE k \in M
  <2>1. CASE a = 1
    BY <1>1, <1>5, <2>1
  <2>2. CASE a # 1
    <3>1. a - 1 \in 1..Len(s) /\ t[a] = s[a - 1]
      BY <1>1, <2>2
    <3>2. k \in K
      BY <1>5, <3>1 DEF Tells
    <3>3. QED
      BY <3>2
  <2>3. QED
    BY <2>1, <2>2
<1>6. QED
  BY <1>4, <1>5

\* A line in front adds its passage if it is a sentence for one.
LEMMA FrontReports ==
  ASSUME NEW s \in Seq(Line), NEW x \in Line, NEW T, Reports(T, s), NEW U,
         \A p : p \in U <=> p \in T \/ (x.kind = "failure" /\ p = x.of)
  PROVE  Reports(U, <<x>> \o s)
<1> DEFINE t == <<x>> \o s
<1>1. /\ Len(t) = Len(s) + 1 /\ Len(s) \in Nat /\ t[1] = x
      /\ \A i \in 1..Len(s) : i + 1 \in 1..Len(t) /\ t[i + 1] = s[i]
      /\ \A i \in 1..Len(t) : i = 1 \/ (i - 1 \in 1..Len(s) /\ t[i] = s[i - 1])
  OBVIOUS
<1>2. 1 \in 1..Len(t)
  BY <1>1
<1> HIDE DEF t
<1>3. SUFFICES ASSUME NEW p
               PROVE  p \in U <=> \E a \in 1..Len(t) : t[a].kind = "failure" /\ t[a].of = p
  BY DEF Reports, t
<1>4. ASSUME p \in U  PROVE \E a \in 1..Len(t) : t[a].kind = "failure" /\ t[a].of = p
  <2>1. CASE x.kind = "failure" /\ p = x.of
    BY <1>1, <1>2, <2>1
  <2>2. CASE p \in T
    <3>1. PICK a \in 1..Len(s) : s[a].kind = "failure" /\ s[a].of = p
      BY <2>2 DEF Reports
    <3>2. QED
      BY <1>1, <3>1
  <2>3. QED
    BY <1>4, <2>1, <2>2
<1>5. ASSUME NEW a \in 1..Len(t), t[a].kind = "failure", t[a].of = p  PROVE p \in U
  <2>1. CASE a = 1
    BY <1>1, <1>5, <2>1
  <2>2. CASE a # 1
    <3>1. a - 1 \in 1..Len(s) /\ t[a] = s[a - 1]
      BY <1>1, <2>2
    <3>2. p \in T
      BY <1>5, <3>1 DEF Reports
    <3>3. QED
      BY <3>2
  <2>3. QED
    BY <2>1, <2>2
<1>6. QED
  BY <1>4, <1>5

\* Any other line in front leaves the sentences apart.
LEMMA FrontApart ==
  ASSUME NEW s \in Seq(Line), Apart(s), NEW x \in Line, x.kind # "failure"
  PROVE  Apart(<<x>> \o s)
<1> DEFINE t == <<x>> \o s
<1>1. /\ Len(t) = Len(s) + 1 /\ Len(s) \in Nat /\ t[1] = x
      /\ \A i \in 1..Len(s) : i + 1 \in 1..Len(t) /\ t[i + 1] = s[i]
      /\ \A i \in 1..Len(t) : i = 1 \/ (i - 1 \in 1..Len(s) /\ t[i] = s[i - 1])
  OBVIOUS
<1> HIDE DEF t
<1>2. SUFFICES ASSUME NEW a \in 1..Len(t), t[a].kind = "failure"
               PROVE  a > 1 /\ a < Len(t) /\ t[a - 1].kind = "blank" /\ t[a + 1].kind = "blank"
  BY DEF Apart, t
<1>3. a # 1 /\ a - 1 \in 1..Len(s) /\ t[a] = s[a - 1]
  BY <1>1, <1>2
<1>4. /\ a - 1 > 1 /\ a - 1 < Len(s)
      /\ s[(a - 1) - 1].kind = "blank" /\ s[(a - 1) + 1].kind = "blank"
  BY <1>2, <1>3 DEF Apart
<1>5. (a - 1) - 1 \in 1..Len(s) /\ ((a - 1) - 1) + 1 = a - 1 /\ (a - 1) + 1 = a /\ a \in 1..Len(s)
  BY <1>1, <1>3, <1>4
<1>6. t[a - 1] = s[(a - 1) - 1] /\ t[a + 1] = s[a]
  BY <1>1, <1>5
<1>7. QED
  BY <1>1, <1>3, <1>4, <1>5, <1>6

\* The passages of the drawer: each rising, in order, with the lines in F.
Orderly(t) ==
    /\ \A a \in 1..Len(t) : Rising(t[a])
    /\ \A a, b \in 1..Len(t) : a < b => \A x \in ToSet(t[a]), y \in ToSet(t[b]) : x < y
Files(F, t) == \A k : k \in F <=> \E a \in 1..Len(t) : k \in ToSet(t[a])

\* One set of lines above another, and two put together.
Below(S, F) == \A x \in S, y \in F : x < y
Together(G, F, S) == \A k : k \in G <=> k \in F \/ k \in S

\* A passage in front of later ones.
LEMMA FrontFiles ==
  ASSUME NEW t \in Seq(Seq(Nat)), Orderly(t), NEW F, Files(F, t), NEW p \in Seq(Nat), Rising(p),
         Below(ToSet(p), F), NEW G, Together(G, F, ToSet(p))
  PROVE  /\ <<p>> \o t \in Seq(Seq(Nat)) /\ Orderly(<<p>> \o t) /\ Files(G, <<p>> \o t)
         /\ Together(ToSet(<<p>> \o t), ToSet(t), {p})
<1> DEFINE u == <<p>> \o t
<1>1. /\ u \in Seq(Seq(Nat)) /\ Len(u) = Len(t) + 1 /\ Len(t) \in Nat /\ u[1] = p
      /\ \A i \in 1..Len(t) : i + 1 \in 1..Len(u) /\ u[i + 1] = t[i]
      /\ \A i \in 1..Len(u) : i = 1 \/ (i - 1 \in 1..Len(t) /\ u[i] = t[i - 1])
  OBVIOUS
<1>2. 1 \in 1..Len(u) /\ DOMAIN u = 1..Len(u) /\ DOMAIN t = 1..Len(t)
  BY <1>1
<1> HIDE DEF u
<1>3. Orderly(u)
  <2>1. \A a \in 1..Len(u) : Rising(u[a])
    BY <1>1 DEF Orderly
  <2>2. ASSUME NEW a \in 1..Len(u), NEW b \in 1..Len(u), a < b,
               NEW x \in ToSet(u[a]), NEW y \in ToSet(u[b])
        PROVE  x < y
    <3>1. b - 1 \in 1..Len(t) /\ u[b] = t[b - 1]
      BY <1>1, <2>2
    <3>2. CASE a = 1
      <4>1. y \in F
        BY <2>2, <3>1 DEF Files
      <4>2. QED
        BY <1>1, <2>2, <3>2, <4>1 DEF Below
    <3>3. CASE a # 1
      <4>1. a - 1 \in 1..Len(t) /\ u[a] = t[a - 1] /\ a - 1 < b - 1
        BY <1>1, <2>2, <3>3
      <4>2. QED
        BY <2>2, <3>1, <4>1 DEF Orderly
    <3>4. QED
      BY <3>2, <3>3
  <2>3. QED
    BY <2>1, <2>2 DEF Orderly
<1>4. Files(G, u)
  <2>1. ASSUME NEW k, k \in G  PROVE \E a \in 1..Len(u) : k \in ToSet(u[a])
    <3>1. CASE k \in ToSet(p)
      BY <1>1, <1>2, <3>1
    <3>2. CASE k \in F
      <4>1. PICK a \in 1..Len(t) : k \in ToSet(t[a])
        BY <3>2 DEF Files
      <4>2. QED
        BY <1>1, <4>1
    <3>3. QED
      BY <2>1, <3>1, <3>2 DEF Together
  <2>2. ASSUME NEW k, NEW a \in 1..Len(u), k \in ToSet(u[a])  PROVE k \in G
    <3>1. CASE a = 1
      BY <1>1, <2>2, <3>1 DEF Together
    <3>2. CASE a # 1
      <4>1. a - 1 \in 1..Len(t) /\ u[a] = t[a - 1]
        BY <1>1, <3>2
      <4>2. k \in F
        BY <2>2, <4>1 DEF Files
      <4>3. QED
        BY <4>2 DEF Together
    <3>3. QED
      BY <3>1, <3>2
  <2>3. QED
    BY <2>1, <2>2 DEF Files
<1>5. ASSUME NEW q  PROVE q \in ToSet(u) <=> q \in ToSet(t) \/ q = p
  <2>1. ASSUME q \in ToSet(u)  PROVE q \in ToSet(t) \/ q = p
    <3>1. PICK a \in 1..Len(u) : q = u[a]
      BY <1>2, <2>1 DEF ToSet
    <3>2. CASE a = 1
      BY <1>1, <3>1, <3>2
    <3>3. CASE a # 1
      <4>1. a - 1 \in 1..Len(t) /\ u[a] = t[a - 1]
        BY <1>1, <3>3
      <4>2. QED
        BY <1>2, <3>1, <4>1 DEF ToSet
    <3>4. QED
      BY <3>2, <3>3
  <2>2. ASSUME q \in ToSet(t)  PROVE q \in ToSet(u)
    <3>1. PICK a \in 1..Len(t) : q = t[a]
      BY <1>2, <2>2 DEF ToSet
    <3>2. a + 1 \in 1..Len(u) /\ u[a + 1] = t[a]
      BY <1>1
    <3>3. QED
      BY <1>2, <3>1, <3>2 DEF ToSet
  <2>3. p \in ToSet(u)
    BY <1>1, <1>2 DEF ToSet
  <2>4. QED
    BY <2>1, <2>2, <2>3
<1>6. QED
  BY <1>1, <1>3, <1>4, <1>5 DEF u, Together

\* The lines of the answer from i on that the body is to say something for, and those
\* about a failure.
Kept(ls, i) == {k \in i..Len(ls) : Begins(ls, k) \/ ls[k] \notin FailLine \cup Wordless}
Failed(ls, i) == {k \in i..Len(ls) : ls[k] \in FailLine}

\* What _cutFailures returns.
Cuts == [lines : Seq(Line), technical : Seq(Seq(Nat))]

\* What _cutFailures makes of the lines from i on.
IsCut(ls, i, c) ==
    /\ c \in Cuts /\ Orderly(c.technical) /\ Files(Failed(ls, i), c.technical)
    /\ Rises(c.lines) /\ Tells(Kept(ls, i), c.lines)
    /\ Reports(ToSet(c.technical), c.lines) /\ Apart(c.lines)

\* Nothing is made of nothing.
LEMMA CutNothing ==
  ASSUME NEW ls \in Seq(Kind)
  PROVE  IsCut(ls, Len(ls) + 1, [lines |-> <<>>, technical |-> <<>>])
<1> DEFINE c == [lines |-> <<>>, technical |-> <<>>]
<1>1. (Len(ls) + 1)..Len(ls) = {}
  OBVIOUS
<1>2. /\ c.lines = <<>> /\ c.technical = <<>> /\ 1..Len(<<>>) = {} /\ DOMAIN <<>> = {}
      /\ Failed(ls, Len(ls) + 1) = {} /\ Kept(ls, Len(ls) + 1) = {} /\ c \in Cuts
  BY <1>1 DEF Failed, Kept, Cuts
<1> HIDE DEF c
<1>3. Orderly(c.technical) /\ Files(Failed(ls, Len(ls) + 1), c.technical)
  BY <1>2 DEF Orderly, Files
<1>4. Rises(c.lines) /\ Tells(Kept(ls, Len(ls) + 1), c.lines) /\ Apart(c.lines)
  BY <1>2 DEF Rises, Tells, Apart
<1>5. Reports(ToSet(c.technical), c.lines)
  BY <1>2 DEF Reports, ToSet
<1>6. QED
  BY <1>2, <1>3, <1>4, <1>5 DEF IsCut, c

\* A line that is not about a failure stays where it is.
LEMMA CutOther ==
  ASSUME NEW ls \in Seq(Kind), NEW i \in 1..Len(ls), ls[i] \notin FailLine,
         NEW c, IsCut(ls, i + 1, c)
  PROVE  IsCut(ls, i, [c EXCEPT !.lines = <<Own(ls, i)>> \o @])
<1> DEFINE x == Own(ls, i)
           d == [c EXCEPT !.lines = <<Own(ls, i)>> \o @]
<1>1. /\ c \in Cuts /\ Orderly(c.technical) /\ Files(Failed(ls, i + 1), c.technical)
      /\ Rises(c.lines) /\ Tells(Kept(ls, i + 1), c.lines)
      /\ Reports(ToSet(c.technical), c.lines) /\ Apart(c.lines)
  BY DEF IsCut
<1>2. c.lines \in Seq(Line) /\ c.technical \in Seq(Seq(Nat))
  BY <1>1 DEF Cuts
<1>3. /\ i \in Nat /\ i >= 1 /\ i <= Len(ls) /\ ls[i] \in Kind
      /\ \A k : k \in i..Len(ls) <=> k = i \/ k \in (i + 1)..Len(ls)
  OBVIOUS
<1>4. x \in Line /\ x.kind = ls[i] /\ x.of = <<i>> /\ x.of[1] = i /\ x.kind # "failure"
  <2>1. x.kind = ls[i] /\ x.of = <<i>> /\ x.of[1] = i
    BY DEF Own
  <2>2. ls[i] # "failure"
    BY <1>3 DEF Kind, FailLine, Announcement
  <2>3. <<i>> \in Seq(Nat)
    BY <1>3
  <2>4. x \in Line
    BY <1>3, <2>3 DEF Own, Line
  <2>5. QED
    BY <2>1, <2>2, <2>4
<1>5. <<x>> \o c.lines \in Seq(Line)
  BY <1>2, <1>4
<1>6. d.lines = <<x>> \o c.lines /\ d.technical = c.technical /\ d \in Cuts
  BY <1>1, <1>2, <1>5 DEF Cuts
<1>7. Failed(ls, i) = Failed(ls, i + 1)
  BY <1>3 DEF Failed
<1>8. \A k : k \in Kept(ls, i) <=> k \in Kept(ls, i + 1) \/ (Says(x) /\ k = x.of[1])
  <2>1. ~ Begins(ls, i)
    BY DEF Begins
  <2>2. QED
    BY <1>3, <1>4, <2>1 DEF Kept, Says, Wordless
<1>9. \A k \in Kept(ls, i + 1) : x.of[1] < k
  BY <1>3, <1>4 DEF Kept
<1> HIDE DEF x, d
<1>10. Rises(d.lines) /\ Tells(Kept(ls, i), d.lines)
  BY <1>1, <1>2, <1>4, <1>6, <1>8, <1>9, FrontRises, FrontTells
<1>11. Reports(ToSet(d.technical), d.lines) /\ Apart(d.lines)
  BY <1>1, <1>2, <1>4, <1>6, FrontReports, FrontApart
<1>12. QED
  BY <1>1, <1>6, <1>7, <1>10, <1>11 DEF IsCut, d

\* A sentence between blank lines.
LEMMA SentenceApart ==
  ASSUME NEW s \in Seq(Line), Apart(s), NEW x \in Line, Blank \in Line,
         s # <<>>, s[1].kind = "blank"
  PROVE  Apart(<<Blank>> \o (<<x>> \o s))
<1> DEFINE u == <<x>> \o s
           t == <<Blank>> \o u
<1>1. /\ u \in Seq(Line) /\ Len(u) = Len(s) + 1 /\ Len(s) \in Nat /\ u[1] = x
      /\ \A i \in 1..Len(s) : i + 1 \in 1..Len(u) /\ u[i + 1] = s[i]
  OBVIOUS
<1> HIDE DEF u
<1>2. /\ t \in Seq(Line) /\ Len(t) = Len(u) + 1 /\ Len(u) \in Nat /\ t[1] = Blank
      /\ \A i \in 1..Len(u) : i + 1 \in 1..Len(t) /\ t[i + 1] = u[i]
  BY <1>1
<1>3. Len(s) >= 1 /\ 1 \in 1..Len(s) /\ 1 \in 1..Len(u)
  BY <1>1
<1> HIDE DEF t
<1>4. ASSUME NEW i \in 1..Len(s)  PROVE i + 2 \in 1..Len(t) /\ t[i + 2] = s[i]
  <2>1. i + 1 \in 1..Len(u) /\ u[i + 1] = s[i]
    BY <1>1
  <2>2. (i + 1) + 1 \in 1..Len(t) /\ t[(i + 1) + 1] = u[i + 1]
    BY <1>2, <2>1
  <2>3. (i + 1) + 1 = i + 2
    OBVIOUS
  <2>4. QED
    BY <2>1, <2>2, <2>3
<1>5. t[1].kind = "blank" /\ t[3].kind = "blank" /\ Len(t) = Len(s) + 2
  <2>1. 1 + 2 = 3
    OBVIOUS
  <2>2. t[1 + 2] = s[1]
    BY <1>3, <1>4
  <2>3. t[1].kind = "blank"
    BY <1>2 DEF Blank
  <2>4. QED
    BY <1>1, <1>2, <2>1, <2>2, <2>3
<1>6. SUFFICES ASSUME NEW a \in 1..Len(t), t[a].kind = "failure"
               PROVE  a > 1 /\ a < Len(t) /\ t[a - 1].kind = "blank" /\ t[a + 1].kind = "blank"
  BY DEF Apart, t, u
<1>7. a # 1 /\ a # 3
  BY <1>5, <1>6
<1>8. CASE a = 2
  BY <1>1, <1>3, <1>5, <1>8
<1>9. CASE a > 3
  <2> DEFINE b == a - 2
  <2>1. b \in 1..Len(s) /\ b + 2 = a
    BY <1>1, <1>5, <1>9
  <2>2. s[b].kind = "failure"
    BY <1>4, <1>6, <2>1
  <2>3. b > 1 /\ b < Len(s) /\ s[b - 1].kind = "blank" /\ s[b + 1].kind = "blank"
    BY <2>1, <2>2 DEF Apart
  <2>4. b - 1 \in 1..Len(s) /\ b + 1 \in 1..Len(s) /\ (b - 1) + 2 = a - 1 /\ (b + 1) + 2 = a + 1
    BY <1>1, <2>1, <2>3
  <2> HIDE DEF b
  <2>5. t[a - 1] = s[b - 1] /\ t[a + 1] = s[b + 1]
    BY <1>4, <2>4
  <2>6. QED
    BY <1>1, <1>5, <1>9, <2>1, <2>3, <2>4, <2>5
<1>10. QED
  BY <1>7, <1>8, <1>9

\* A passage becomes a sentence in the body and an entry of the drawer.
LEMMA CutPassage ==
  ASSUME NEW ls \in Seq(Kind), NEW i \in 1..Len(ls), ls[i] \in FailLine, Clear(ls, i),
         NEW r, IsRest(ls, i, i, r), NEW c, IsCut(ls, r.next, c)
  PROVE  IsCut(ls, i, [lines |-> <<Blank, Sentence(r.lines), Blank>> \o c.lines,
                       technical |-> <<r.lines>> \o c.technical])
<1> DEFINE p == r.lines
           j == r.next
           t == c.technical
           x == Sentence(r.lines)
           d == [lines |-> <<Blank, Sentence(r.lines), Blank>> \o c.lines,
                 technical |-> <<r.lines>> \o c.technical]
<1>1. /\ c \in Cuts /\ Orderly(t) /\ Files(Failed(ls, j), t)
      /\ Rises(c.lines) /\ Tells(Kept(ls, j), c.lines)
      /\ Reports(ToSet(t), c.lines) /\ Apart(c.lines)
  BY DEF IsCut
<1>2. c.lines \in Seq(Line) /\ t \in Seq(Seq(Nat))
  BY <1>1 DEF Cuts
<1>3. /\ r \in Passages /\ Rising(p) /\ Gathers(ls, i, r) /\ Spans(ls, i, i, r)
      /\ Starts(ls, i, i, r)
  BY DEF IsRest
<1>4. j \in (i + 1)..(Len(ls) + 1) /\ \A l \in i..(j - 1) : Begins(ls, l) <=> l = i
  BY OneBegins
<1>5. i \in Nat /\ i >= 1 /\ i <= Len(ls) /\ j \in Nat /\ Len(ls) \in Nat
  BY <1>4
<1>6. p \in Seq(Nat) /\ p # <<>> /\ p[1] = i
  BY <1>3, <1>5 DEF Starts, Passages
<1>7. \A l : l \in ToSet(p) <=> l \in i..(j - 1) /\ ls[l] \in FailLine
  BY <1>3 DEF Gathers
<1>8. \A l \in i..(j - 1) : ls[l] \in FailLine \cup {"blank"}
  BY <1>3 DEF Spans
<1>9. \A k : k \in i..Len(ls) <=> k \in i..(j - 1) \/ k \in j..Len(ls)
  BY <1>4, <1>5
<1>10. \A k : k \in Failed(ls, i) <=> k \in Failed(ls, j) \/ k \in ToSet(p)
  BY <1>7, <1>9 DEF Failed
<1>11. \A k : k \in Kept(ls, i) <=> k \in Kept(ls, j) \/ k = i
  <2>1. i \in i..(j - 1)
    BY <1>4, <1>5
  <2>2. \A k \in i..(j - 1) : k \in Kept(ls, i) <=> k = i
    BY <1>4, <1>8, <1>9 DEF Kept, Wordless
  <2>3. \A k \in j..Len(ls) : k \in Kept(ls, i) <=> k \in Kept(ls, j)
    BY <1>9 DEF Kept
  <2>4. \A k : (k \in Kept(ls, i) => k \in i..Len(ls)) /\ (k \in Kept(ls, j) => k \in j..Len(ls))
    BY DEF Kept
  <2>5. QED
    BY <1>9, <2>1, <2>2, <2>3, <2>4
<1>12. \A y \in ToSet(p), z \in Failed(ls, j) : y < z
  BY <1>5, <1>7 DEF Failed
<1>13. \A k \in Kept(ls, j) : i < k
  BY <1>4, <1>5 DEF Kept
<1> HIDE DEF p, j, t
<1>14. /\ <<p>> \o t \in Seq(Seq(Nat)) /\ Orderly(<<p>> \o t) /\ Files(Failed(ls, i), <<p>> \o t)
       /\ \A q : q \in ToSet(<<p>> \o t) <=> q \in ToSet(t) \/ q = p
  <2> DEFINE F == Failed(ls, j)
             G == Failed(ls, i)
  <2>1. /\ t \in Seq(Seq(Nat)) /\ Orderly(t) /\ Files(F, t) /\ p \in Seq(Nat) /\ Rising(p)
        /\ Below(ToSet(p), F) /\ Together(G, F, ToSet(p))
    BY <1>1, <1>2, <1>3, <1>6, <1>10, <1>12 DEF Below, Together
  <2> HIDE DEF F, G
  <2>2. /\ <<p>> \o t \in Seq(Seq(Nat)) /\ Orderly(<<p>> \o t) /\ Files(G, <<p>> \o t)
        /\ Together(ToSet(<<p>> \o t), ToSet(t), {p})
    BY <2>1, FrontFiles
  <2>3. QED
    BY <2>2 DEF G, Together
<1>15. x = [kind |-> "failure", of |-> p] /\ x.kind = "failure" /\ x.of = p /\ x \in Line
  BY <1>6 DEF Sentence, Line, p
<1>16. Says(x) /\ x.of[1] = i
  BY <1>6, <1>15 DEF Says, Wordless
<1>17. Blank \in Line /\ ~ Says(Blank) /\ Blank.kind = "blank" /\ Blank.kind # "failure"
  <2>1. "blank" \in Kind /\ <<>> \in Seq(Nat)
    BY DEF Kind
  <2>2. QED
    BY <2>1 DEF Blank, Line, Says, Wordless
<1> HIDE DEF x
<1> DEFINE s == c.lines
           s1 == <<Blank>> \o s
           s2 == <<x>> \o s1
           s3 == <<Blank>> \o s2
<1> HIDE DEF s
<1>18. s \in Seq(Line) /\ s1 \in Seq(Line) /\ s1 # <<>> /\ s1[1] = Blank
  BY <1>2, <1>17 DEF s
<1>19. s2 \in Seq(Line)
  <2> HIDE DEF s1
  <2>1. QED
    BY <1>15, <1>18
<1>20. s3 \in Seq(Line)
  <2> HIDE DEF s2
  <2>1. QED
    BY <1>17, <1>19
<1>21. s3 = <<Blank, x, Blank>> \o s
  <2> DEFINE u == <<Blank, x, Blank>> \o s
  <2>1. /\ u \in Seq(Line) /\ Len(u) = Len(s) + 3 /\ Len(s) \in Nat
        /\ u[1] = Blank /\ u[2] = x /\ u[3] = Blank
        /\ \A a \in 4..(Len(s) + 3) : u[a] = s[a - 3]
    BY <1>15, <1>17, <1>18
  <2> HIDE DEF u
  <2>2. Len(s1) = Len(s) + 1 /\ s1[1] = Blank /\ \A a \in 2..(Len(s) + 1) : s1[a] = s[a - 1]
    BY <1>17, <1>18
  <2> HIDE DEF s1
  <2>3. Len(s2) = Len(s) + 2 /\ s2[1] = x /\ \A a \in 2..(Len(s) + 2) : s2[a] = s1[a - 1]
    BY <1>15, <1>18, <2>1, <2>2
  <2> HIDE DEF s2
  <2>4. Len(s3) = Len(s) + 3 /\ s3[1] = Blank /\ \A a \in 2..(Len(s) + 3) : s3[a] = s2[a - 1]
    BY <1>17, <1>19, <2>1, <2>3
  <2> HIDE DEF s3
  <2>5. ASSUME NEW a \in 1..(Len(s) + 3)  PROVE s3[a] = u[a]
    <3>1. CASE a = 1
      BY <2>1, <2>4, <3>1
    <3>2. CASE a = 2
      <4>1. 2 \in 2..(Len(s) + 3) /\ 2 - 1 = 1
        BY <2>1
      <4>2. QED
        BY <2>1, <2>3, <2>4, <3>2, <4>1
    <3>3. CASE a >= 3
      <4>1. s3[a] = s2[a - 1] /\ a - 1 \in 2..(Len(s) + 2) /\ (a - 1) - 1 = a - 2
        BY <2>1, <2>4, <3>3
      <4>2. s3[a] = s1[a - 2]
        BY <2>3, <4>1
      <4>3. CASE a = 3
        <5>1. a - 2 = 1
          BY <4>3
        <5>2. QED
          BY <2>1, <2>2, <4>2, <4>3, <5>1
      <4>4. CASE a > 3
        <5>1. a - 2 \in 2..(Len(s) + 1) /\ (a - 2) - 1 = a - 3 /\ a \in 4..(Len(s) + 3)
          BY <2>1, <4>4
        <5>2. QED
          BY <2>1, <2>2, <4>2, <5>1
      <4>5. QED
        BY <3>3, <4>3, <4>4
    <3>4. QED
      BY <3>1, <3>2, <3>3
  <2>6. s3 = u
    BY <1>20, <2>1, <2>4, <2>5, SeqEqual
  <2>7. QED
    BY <2>6 DEF u
<1>22. Rises(s1) /\ Tells(Kept(ls, j), s1) /\ Reports(ToSet(t), s1) /\ Apart(s1)
  BY <1>1, <1>17, <1>18, FrontRises, FrontTells, FrontReports, FrontApart DEF s
<1>23. Apart(s3)
  BY <1>15, <1>17, <1>18, <1>22, SentenceApart
<1> HIDE DEF s1
<1>24. Rises(s2)
  BY <1>13, <1>15, <1>16, <1>18, <1>22, FrontRises
<1>25. Tells(Kept(ls, i), s2)
  BY <1>11, <1>15, <1>16, <1>18, <1>22, FrontTells
<1>26. Reports(ToSet(<<p>> \o t), s2)
  BY <1>14, <1>15, <1>18, <1>22, FrontReports
<1> HIDE DEF s2
<1>27. Rises(s3) /\ Tells(Kept(ls, i), s3) /\ Reports(ToSet(<<p>> \o t), s3)
  BY <1>17, <1>19, <1>24, <1>25, <1>26, FrontRises, FrontTells, FrontReports
<1> HIDE DEF s3
<1>28. d = [lines |-> s3, technical |-> <<p>> \o t]
  BY <1>21 DEF s, x, p, t
<1>29. d.lines = s3 /\ d.technical = <<p>> \o t /\ d \in Cuts
  BY <1>14, <1>20, <1>28 DEF Cuts
<1> HIDE DEF d
<1>30. IsCut(ls, i, d)
  BY <1>14, <1>23, <1>27, <1>29 DEF IsCut
<1>31. QED
  BY <1>30 DEF d

\* _cutFailures cuts the whole answer.
LEMMA CutIsWhole ==
  ASSUME NEW ls \in Seq(Kind)
  PROVE  IsCut(ls, 1, CutFailures(ls))
<1> DEFINE n == Len(ls)
           D == Cuts
           none == [lines |-> <<>>, technical |-> <<>>]
           other(i) == ls[i] \notin FailLine
           past(i) == Passage(ls, i).next
           keep(i, c) == [c EXCEPT !.lines = <<Own(ls, i)>> \o @]
           file(i, c) ==
             [lines |-> <<Blank, Sentence(Passage(ls, i).lines), Blank>> \o c.lines,
              technical |-> <<Passage(ls, i).lines>> \o c.technical]
           pass(i, c) == IF other(i) THEN keep(i, c) ELSE file(i, c)
           jump == [i \in 1..n |-> IF other(i) THEN i + 1 ELSE past(i)]
           step == [i \in 1..n |-> [c \in D |-> pass(i, c)]]
           cut[i \in 1..(n + 1)] ==
             IF i > Len(ls) THEN [lines |-> <<>>, technical |-> <<>>]
             ELSE IF ls[i] \notin FailLine
                  THEN LET rest == cut[i + 1] IN [rest EXCEPT !.lines = <<Own(ls, i)>> \o @]
             ELSE LET passage == Passage(ls, i)
                      rest == cut[passage.next]
                  IN  [lines |-> <<Blank, Sentence(passage.lines), Blank>> \o rest.lines,
                       technical |-> <<passage.lines>> \o rest.technical]
           unrolled(g) == [i \in 1..(n + 1) |->
             IF i > n THEN none
             ELSE IF other(i) THEN keep(i, g[i + 1]) ELSE file(i, g[past(i)])]
<1>1. n \in Nat /\ 1 \in Nat /\ 1 <= n + 1
  OBVIOUS
<1>2. CutFailures(ls) = cut[1]
  BY DEF CutFailures
<1>3. ASSUME NEW i \in 1..n, ~ other(i)
      PROVE  past(i) \in (i + 1)..(n + 1) /\ Passage(ls, i).lines \in Seq(Nat)
  <2>1. IsRest(ls, i, i, Passage(ls, i))
    BY PassageIsOne
  <2>2. /\ past(i) \in i..(n + 1) /\ past(i) > i
        /\ Passage(ls, i) \in Passages
    BY <1>1, <1>3, <2>1 DEF IsRest, Starts
  <2>3. QED
    BY <1>1, <2>2 DEF Passages
<1>4. jump \in Jumps(1, n)
  <2> HIDE DEF other, past, n
  <2>1. ASSUME NEW i \in 1..n  PROVE jump[i] \in (i + 1)..(n + 1) /\ jump[i] \in Nat
    BY <1>1, <1>3
  <2>2. jump = [i \in 1..n |-> jump[i]]
    OBVIOUS
  <2> HIDE DEF jump
  <2>3. jump \in [1..n -> Nat]
    BY <2>1, <2>2
  <2>4. QED
    BY <2>1, <2>3 DEF Jumps
<1>5. step \in Leaps(1, n, D)
  <2>1. ASSUME NEW i \in 1..n, NEW c \in D  PROVE pass(i, c) \in D
    <3>1. c.lines \in Seq(Line) /\ c.technical \in Seq(Seq(Nat))
      BY DEF Cuts
    <3>2. CASE other(i)
      <4>1. Own(ls, i) \in Line
        <5>1. ls[i] \in Kind /\ <<i>> \in Seq(Nat)
          OBVIOUS
        <5>2. QED
          BY <5>1 DEF Own, Line
      <4>2. <<Own(ls, i)>> \o c.lines \in Seq(Line)
        BY <3>1, <4>1
      <4>3. keep(i, c) \in D
        BY <3>1, <4>2 DEF Cuts
      <4> HIDE DEF keep, D, other, file
      <4>4. QED
        BY <3>2, <4>3
    <3>3. CASE ~ other(i)
      <4> DEFINE p == Passage(ls, i).lines
      <4>1. p \in Seq(Nat)
        BY <1>3, <3>3
      <4> HIDE DEF p
      <4>2. Blank \in Line /\ Sentence(p) \in Line
        <5>1. "blank" \in Kind /\ <<>> \in Seq(Nat)
          BY DEF Kind
        <5>2. QED
          BY <4>1, <5>1 DEF Blank, Sentence, Line
      <4>3. <<Blank, Sentence(p), Blank>> \o c.lines \in Seq(Line)
        BY <3>1, <4>2
      <4>4. <<p>> \o c.technical \in Seq(Seq(Nat))
        BY <3>1, <4>1
      <4>5. file(i, c) \in D
        BY <4>3, <4>4 DEF Cuts, p
      <4> HIDE DEF keep, D, other, file
      <4>6. QED
        BY <3>3, <4>5
    <3> HIDE DEF other, D, pass
    <3>4. QED
      BY <3>2, <3>3
  <2> HIDE DEF pass, D, n
  <2>2. QED
    BY <2>1 DEF Leaps
<1>6. none \in D
  BY DEF Cuts
<1>7. \E f : IsWalk(f, jump, step, 1, n, none, D)
  <2> HIDE DEF jump, step, n, D, none
  <2>1. QED
    BY <1>1, <1>4, <1>5, <1>6, WalkExists
<1>8. PICK f : /\ f \in [1..(n + 1) -> D] /\ f[n + 1] = none
               /\ \A i \in 1..n : f[i] = step[i][f[jump[i]]]
  <2> HIDE DEF jump, step, n, D, none
  <2>1. QED
    BY <1>7 DEF IsWalk
<1>9. f = unrolled(f)
  <2> HIDE DEF other, past, n, D, none, keep, file
  <2>1. ASSUME NEW i \in 1..n
        PROVE  f[i] = IF other(i) THEN keep(i, f[i + 1]) ELSE file(i, f[past(i)])
    <3>1. jump[i] \in 1..(n + 1) /\ jump[i] = IF other(i) THEN i + 1 ELSE past(i)
      BY <1>1, <1>3
    <3>2. f[jump[i]] \in D
      BY <1>8, <3>1
    <3>3. f[i] = pass(i, f[jump[i]])
      <4> HIDE DEF pass, jump, D
      <4>1. QED
        BY <1>8, <3>2
    <3> HIDE DEF jump, step
    <3>4. QED
      BY <3>1, <3>3
  <2>2. \A i \in 1..(n + 1) : (i > n /\ i = n + 1) \/ (~ i > n /\ i \in 1..n)
    BY <1>1
  <2> HIDE DEF jump, step
  <2>3. ASSUME NEW i \in 1..(n + 1)
        PROVE  f[i] = IF i > n THEN none
                      ELSE IF other(i) THEN keep(i, f[i + 1]) ELSE file(i, f[past(i)])
    BY <1>8, <2>1, <2>2
  <2>4. f = [i \in 1..(n + 1) |-> f[i]]
    BY <1>8
  <2>5. QED
    BY <2>3, <2>4
<1>10. cut = unrolled(cut)
  <2>1. \E g : g = unrolled(g)
    BY <1>9
  <2>2. QED
    BY <2>1
<1> HIDE DEF cut, step, jump
<1>11. \A i \in 1..(n + 1) :
          cut[i] = IF i > n THEN none
                   ELSE IF other(i) THEN keep(i, cut[i + 1]) ELSE file(i, cut[past(i)])
  <2> HIDE DEF other, past, keep, file, none, n
  <2>1. QED
    BY <1>10
<1> DEFINE P == {i \in 1..(n + 1) : Clear(ls, i) => IsCut(ls, i, cut[i])}
<1>12. n + 1 \in P
  <2>1. n + 1 > n /\ n + 1 \in 1..(n + 1)
    BY <1>1
  <2>2. cut[n + 1] = none
    <3> HIDE DEF other, past, keep, file, none, n
    <3>1. QED
      BY <1>11, <2>1
  <2>3. QED
    BY <2>1, <2>2, CutNothing
<1>13. ASSUME NEW i \in 1..n, (i + 1)..(n + 1) \subseteq P  PROVE i \in P
  <2> SUFFICES ASSUME Clear(ls, i)  PROVE IsCut(ls, i, cut[i])
    BY <1>1
  <2>1. ~ i > n /\ i \in 1..(n + 1) /\ i + 1 \in (i + 1)..(n + 1)
    BY <1>1
  <2>2. CASE other(i)
    <3>1. IsCut(ls, i + 1, cut[i + 1])
      BY <1>13, <2>1, <2>2, ClearAfterOther
    <3>2. cut[i] = keep(i, cut[i + 1])
      <4> HIDE DEF other, past, keep, file, none, n
      <4>1. QED
        BY <1>11, <2>1, <2>2
    <3> DEFINE c == cut[i + 1]
    <3> HIDE DEF c
    <3>3. IsCut(ls, i, [c EXCEPT !.lines = <<Own(ls, i)>> \o @])
      BY <2>2, <3>1, CutOther DEF c
    <3>4. QED
      BY <3>2, <3>3 DEF c
  <2>3. CASE ~ other(i)
    <3> DEFINE j == past(i)
    <3>1. j \in (i + 1)..(n + 1) /\ j \in 1..(n + 1)
      BY <1>1, <1>3, <2>3
    <3>2. IsRest(ls, i, i, Passage(ls, i))
      BY PassageIsOne
    <3>3. Clear(ls, j)
      BY <3>1, <3>2, ClearAfterPassage DEF IsRest
    <3>4. IsCut(ls, j, cut[j])
      <4> HIDE DEF j
      <4>1. QED
        BY <1>13, <3>1, <3>3
    <3>5. cut[i] = file(i, cut[j])
      <4> HIDE DEF other, past, keep, file, none, n
      <4>1. QED
        BY <1>11, <2>1, <2>3
    <3>6. IsCut(ls, i, file(i, cut[j]))
      BY <2>3, <3>2, <3>4, CutPassage
    <3> DEFINE c == file(i, cut[j])
    <3>7. cut[i] = c /\ IsCut(ls, i, c)
      BY <3>5, <3>6
    <3> HIDE DEF c
    <3>8. QED
      BY <3>7
  <2>4. QED
    BY <2>2, <2>3
<1> HIDE DEF P
<1>14. 1..(n + 1) \subseteq P
  <2> HIDE DEF n
  <2>1. QED
    BY <1>1, <1>12, <1>13, Backwards
<1>15. IsCut(ls, 1, cut[1])
  BY <1>1, <1>14, ClearAtFirst DEF P
<1>16. QED
  BY <1>2, <1>15

\* A block of the pane, and the state of the loop over the lines.
HtmlBlock == [tag : {"h", "p", "ul"}, lines : Seq(Line)]
Rendering == [html : Seq(HtmlBlock), para : Seq(Line), list : Seq(Line)]

\* What the blocks B show: no empty block, the lines in order and exactly those in L, a
\* failure alone in a paragraph.
NoneEmpty(B) == \A b \in 1..Len(B) : B[b].lines # <<>>
InPlace(B) ==
    \A b, c \in 1..Len(B) : \A j \in 1..Len(B[b].lines), k \in 1..Len(B[c].lines) :
       b < c \/ (b = c /\ j < k) => B[b].lines[j].of[1] < B[c].lines[k].of[1]
Carries(L, B) ==
    \A x : x \in L <=> \E b \in 1..Len(B) : \E j \in 1..Len(B[b].lines) : B[b].lines[j] = x
Lone(B) ==
    \A b \in 1..Len(B) : \A j \in 1..Len(B[b].lines) :
       B[b].lines[j].kind = "failure" => B[b].tag = "p" /\ Len(B[b].lines) = 1
Fine(B, L) ==
    B \in Seq(HtmlBlock) /\ NoneEmpty(B) /\ InPlace(B) /\ Carries(L, B) /\ Lone(B)

\* A line after those in L, and with them.
Before(L, x) == \A y \in L : y.of[1] < x.of[1]
With(L, x) == L \cup {x}

\* A block with one line at the end.
LEMMA NewBlock ==
  ASSUME NEW B, NEW L, Fine(B, L), NEW x \in Line, Before(L, x), NEW tag \in {"h", "p", "ul"},
         x.kind = "failure" => tag = "p"
  PROVE  Fine(Append(B, [tag |-> tag, lines |-> <<x>>]), With(L, x))
<1> DEFINE e == [tag |-> tag, lines |-> <<x>>]
           C == Append(B, e)
           n == Len(B) + 1
<1>1. B \in Seq(HtmlBlock) /\ NoneEmpty(B) /\ InPlace(B) /\ Carries(L, B) /\ Lone(B)
  BY DEF Fine
<1>2. /\ e \in HtmlBlock /\ e.tag = tag /\ e.lines = <<x>> /\ Len(e.lines) = 1 /\ e.lines[1] = x
      /\ e.lines # <<>>
  BY DEF HtmlBlock
<1> HIDE DEF e
<1>3. /\ C \in Seq(HtmlBlock) /\ Len(C) = n /\ n \in Nat /\ C[n] = e
      /\ \A b \in 1..Len(B) : C[b] = B[b] /\ b \in 1..Len(C) /\ b < n
      /\ n \in 1..Len(C)
      /\ \A b \in 1..Len(C) : b \in 1..Len(B) \/ b = n
  BY <1>1, <1>2
<1>4. \A b \in 1..Len(B) : \A j \in 1..Len(B[b].lines) : B[b].lines[j] \in L
  BY <1>1 DEF Carries
<1> HIDE DEF C, n
<1>10. C[n].lines = <<x>> /\ Len(C[n].lines) = 1 /\ C[n].lines[1] = x /\ C[n].tag = tag
  BY <1>2, <1>3
<1>5. NoneEmpty(C)
  BY <1>1, <1>2, <1>3, <1>10 DEF NoneEmpty
<1>6. InPlace(C)
  <2> SUFFICES ASSUME NEW b \in 1..Len(C), NEW c \in 1..Len(C),
                      NEW j \in 1..Len(C[b].lines), NEW k \in 1..Len(C[c].lines),
                      b < c \/ (b = c /\ j < k)
               PROVE  C[b].lines[j].of[1] < C[c].lines[k].of[1]
    BY DEF InPlace
  <2>1. CASE c = n
    <3>1. k = 1 /\ C[c].lines[k] = x
      <4>1. C[c] = C[n]
        BY <2>1
      <4>2. k \in 1..1
        BY <1>10, <4>1
      <4>3. QED
        BY <1>10, <4>1, <4>2
    <3>2. b # c
      <4>1. SUFFICES ASSUME b = c  PROVE FALSE
        OBVIOUS
      <4>2. j \in 1..1 /\ j < 1
        BY <1>10, <2>1, <3>1, <4>1
      <4>3. QED
        BY <4>2
    <3>3. b \in 1..Len(B) /\ C[b] = B[b]
      BY <1>3, <2>1, <3>2
    <3>4. C[b].lines[j] \in L
      BY <1>4, <3>3
    <3>5. QED
      BY <3>1, <3>4 DEF Before
  <2>2. CASE c # n
    <3>1. c \in 1..Len(B) /\ b \in 1..Len(B)
      BY <1>3, <2>2
    <3>2. C[c] = B[c] /\ C[b] = B[b]
      BY <1>3, <3>1
    <3>3. QED
      BY <1>1, <3>1, <3>2 DEF InPlace
  <2>3. QED
    BY <2>1, <2>2
<1>7. Carries(With(L, x), C)
  <2>1. ASSUME NEW y, y \in With(L, x)
        PROVE  \E b \in 1..Len(C) : \E j \in 1..Len(C[b].lines) : C[b].lines[j] = y
    <3>1. CASE y = x
      <4>1. 1 \in 1..Len(C[n].lines) /\ C[n].lines[1] = y
        BY <1>10, <3>1
      <4>2. QED
        BY <1>3, <4>1
    <3>2. CASE y \in L
      <4>1. PICK b \in 1..Len(B) : \E j \in 1..Len(B[b].lines) : B[b].lines[j] = y
        BY <1>1, <3>2 DEF Carries
      <4>2. QED
        BY <1>3, <4>1
    <3>3. QED
      BY <2>1, <3>1, <3>2 DEF With
  <2>2. ASSUME NEW b \in 1..Len(C), NEW j \in 1..Len(C[b].lines)
        PROVE  C[b].lines[j] \in With(L, x)
    <3>1. CASE b = n
      <4>1. j = 1
        <5>1. C[b] = C[n]
          BY <3>1
        <5>2. j \in 1..1
          BY <1>10, <5>1
        <5>3. QED
          BY <5>2
      <4>2. QED
        BY <1>10, <3>1, <4>1 DEF With
    <3>2. CASE b # n
      <4>1. b \in 1..Len(B) /\ C[b] = B[b]
        BY <1>3, <3>2
      <4>2. QED
        BY <1>4, <4>1 DEF With
    <3>3. QED
      BY <3>1, <3>2
  <2>3. QED
    BY <2>1, <2>2 DEF Carries
<1>8. Lone(C)
  <2> SUFFICES ASSUME NEW b \in 1..Len(C), NEW j \in 1..Len(C[b].lines),
                      C[b].lines[j].kind = "failure"
               PROVE  C[b].tag = "p" /\ Len(C[b].lines) = 1
    BY DEF Lone
  <2>1. CASE b = n
    <3>1. j = 1
      BY <1>10, <2>1
    <3>2. QED
      BY <1>10, <2>1, <3>1
  <2>2. CASE b # n
    <3>1. b \in 1..Len(B) /\ C[b] = B[b]
      BY <1>3, <2>2
    <3>2. QED
      BY <1>1, <3>1 DEF Lone
  <2>3. QED
    BY <2>1, <2>2
<1>9. QED
  BY <1>3, <1>5, <1>6, <1>7, <1>8 DEF Fine, C, e

\* A line more in the last block.
LEMMA LongerBlock ==
  ASSUME NEW A \in Seq(HtmlBlock), NEW tag \in {"h", "p", "ul"}, NEW q \in Seq(Line), NEW L,
         Fine(Append(A, [tag |-> tag, lines |-> q]), L), NEW x \in Line, Before(L, x),
         x.kind # "failure", \A j \in 1..Len(q) : q[j].kind # "failure"
  PROVE  Fine(Append(A, [tag |-> tag, lines |-> Append(q, x)]), With(L, x))
<1> DEFINE e == [tag |-> tag, lines |-> q]
           f == [tag |-> tag, lines |-> Append(q, x)]
           B == Append(A, e)
           C == Append(A, f)
           n == Len(A) + 1
<1>1. B \in Seq(HtmlBlock) /\ NoneEmpty(B) /\ InPlace(B) /\ Carries(L, B) /\ Lone(B)
  BY DEF Fine
<1>2. /\ e.lines = q /\ f \in HtmlBlock /\ f.tag = tag /\ f.lines = Append(q, x)
      /\ f.lines \in Seq(Line) /\ e \in HtmlBlock
  BY DEF HtmlBlock
<1>3. /\ Len(f.lines) = Len(q) + 1 /\ Len(q) \in Nat /\ f.lines[Len(q) + 1] = x
      /\ \A j \in 1..Len(q) : f.lines[j] = q[j] /\ j \in 1..Len(f.lines)
      /\ \A j \in 1..Len(f.lines) : j \in 1..Len(q) \/ j = Len(q) + 1
      /\ f.lines # <<>> /\ Len(q) + 1 \in 1..Len(f.lines)
  BY <1>2
<1> HIDE DEF e, f
<1>4. /\ Len(B) = n /\ n \in Nat /\ B[n] = e
      /\ C \in Seq(HtmlBlock) /\ Len(C) = n /\ C[n] = f
      /\ \A b \in 1..n : b = n \/ C[b] = B[b]
      /\ n \in 1..n
  BY <1>2
<1> HIDE DEF B, C, n
<1>5. \A b \in 1..n : \A j \in 1..Len(B[b].lines) : B[b].lines[j] \in L
  BY <1>1, <1>4 DEF Carries
<1>6. \A b \in 1..n : \A j \in 1..Len(C[b].lines) :
         \/ b = n /\ j = Len(q) + 1 /\ C[b].lines[j] = x
         \/ /\ ~ (b = n /\ j = Len(q) + 1)
            /\ j \in 1..Len(B[b].lines) /\ B[b].lines[j] = C[b].lines[j]
  <2> SUFFICES ASSUME NEW b \in 1..n, NEW j \in 1..Len(C[b].lines)
               PROVE  \/ b = n /\ j = Len(q) + 1 /\ C[b].lines[j] = x
                      \/ /\ ~ (b = n /\ j = Len(q) + 1)
                         /\ j \in 1..Len(B[b].lines) /\ B[b].lines[j] = C[b].lines[j]
    OBVIOUS
  <2>1. CASE b = n
    <3>1. C[b].lines = f.lines /\ B[b].lines = q
      BY <1>2, <1>4, <2>1
    <3>2. QED
      BY <1>3, <2>1, <3>1
  <2>2. CASE b # n
    BY <1>4, <2>2
  <2>3. QED
    BY <2>1, <2>2
<1>7. NoneEmpty(C)
  BY <1>1, <1>3, <1>4 DEF NoneEmpty
<1>8. InPlace(C)
  <2> SUFFICES ASSUME NEW b \in 1..n, NEW c \in 1..n,
                      NEW j \in 1..Len(C[b].lines), NEW k \in 1..Len(C[c].lines),
                      b < c \/ (b = c /\ j < k)
               PROVE  C[b].lines[j].of[1] < C[c].lines[k].of[1]
    BY <1>4 DEF InPlace
  <2>1. ~ (b = n /\ j = Len(q) + 1)
    <3>1. SUFFICES ASSUME b = n, j = Len(q) + 1  PROVE FALSE
      OBVIOUS
    <3>2. c = n
      BY <1>4, <3>1
    <3>3. k \in 1..Len(f.lines) /\ k > Len(q) + 1
      BY <1>3, <1>4, <3>1, <3>2
    <3>4. QED
      BY <1>3, <3>3
  <2>2. j \in 1..Len(B[b].lines) /\ B[b].lines[j] = C[b].lines[j]
    BY <1>6, <2>1
  <2>3. CASE c = n /\ k = Len(q) + 1
    <3>1. C[c].lines[k] = x
      BY <1>6, <2>3
    <3>2. B[b].lines[j] \in L
      BY <1>5, <2>2
    <3>3. QED
      BY <2>2, <3>1, <3>2 DEF Before
  <2>4. CASE ~ (c = n /\ k = Len(q) + 1)
    <3>1. k \in 1..Len(B[c].lines) /\ B[c].lines[k] = C[c].lines[k]
      BY <1>6, <2>4
    <3>2. B[b].lines[j].of[1] < B[c].lines[k].of[1]
      BY <1>1, <1>4, <2>2, <3>1 DEF InPlace
    <3>3. QED
      BY <2>2, <3>1, <3>2
  <2>5. QED
    BY <2>3, <2>4
<1>9. Carries(With(L, x), C)
  <2>1. ASSUME NEW y, y \in With(L, x)
        PROVE  \E b \in 1..n : \E j \in 1..Len(C[b].lines) : C[b].lines[j] = y
    <3>1. CASE y = x
      <4>1. Len(q) + 1 \in 1..Len(C[n].lines) /\ C[n].lines[Len(q) + 1] = y
        BY <1>3, <1>4, <3>1
      <4>2. QED
        BY <1>4, <4>1
    <3>2. CASE y \in L
      <4>1. PICK b \in 1..n : \E j \in 1..Len(B[b].lines) : B[b].lines[j] = y
        BY <1>1, <1>4, <3>2 DEF Carries
      <4>2. PICK j \in 1..Len(B[b].lines) : B[b].lines[j] = y
        BY <4>1
      <4>3. CASE b = n
        <5>1. j \in 1..Len(q) /\ q[j] = y
          BY <1>2, <1>4, <4>2, <4>3
        <5>2. j \in 1..Len(C[n].lines) /\ C[n].lines[j] = y
          BY <1>3, <1>4, <5>1
        <5>3. QED
          BY <1>4, <5>2
      <4>4. CASE b # n
        BY <1>4, <4>2, <4>4
      <4>5. QED
        BY <4>3, <4>4
    <3>3. QED
      BY <2>1, <3>1, <3>2 DEF With
  <2>2. ASSUME NEW b \in 1..n, NEW j \in 1..Len(C[b].lines)
        PROVE  C[b].lines[j] \in With(L, x)
    BY <1>5, <1>6 DEF With
  <2>3. \A y : y \in With(L, x)
              <=> \E b \in 1..n : \E j \in 1..Len(C[b].lines) : C[b].lines[j] = y
    BY <2>1, <2>2
  <2>4. QED
    BY <1>4, <2>3 DEF Carries
<1>10. Lone(C)
  <2> SUFFICES ASSUME NEW b \in 1..n, NEW j \in 1..Len(C[b].lines),
                      C[b].lines[j].kind = "failure"
               PROVE  C[b].tag = "p" /\ Len(C[b].lines) = 1
    BY <1>4 DEF Lone
  <2>1. b # n
    <3>1. ASSUME b = n  PROVE FALSE
      <4>1. j \in 1..Len(f.lines) /\ f.lines[j].kind = "failure"
        BY <1>4, <3>1
      <4>2. QED
        BY <1>3, <4>1
    <3>2. QED
      BY <3>1
  <2>2. C[b] = B[b]
    BY <1>4, <2>1
  <2>3. QED
    BY <1>1, <1>4, <2>2 DEF Lone
<1>11. Fine(C, With(L, x))
  BY <1>4, <1>7, <1>8, <1>9, <1>10 DEF Fine
<1>12. QED
  BY <1>11 DEF C, f

\* The body that the loop would return if the lines ended here.
Html(m) == Flush(m).html

\* _markdown after some lines of which it has shown those in L, and the last of which
\* was `last`.
IsPage(m, L) == m \in Rendering /\ (m.para = <<>> \/ m.list = <<>>) /\ Fine(Html(m), L)
Opened(m, last) ==
    /\ last.kind = "blank" => m.para = <<>> /\ m.list = <<>>
    /\ \A j \in 1..Len(m.para) : m.para[j].kind = "failure" => last.kind = "failure"
    /\ \A j \in 1..Len(m.list) : m.list[j].kind # "failure"

\* flush() adds the one block that is open.
LEMMA ShownIs ==
  ASSUME NEW m \in Rendering, m.para = <<>> \/ m.list = <<>>
  PROVE  /\ m.para = <<>> /\ m.list = <<>> => Html(m) = m.html
         /\ m.para # <<>> => Html(m) = Append(m.html, [tag |-> "p", lines |-> m.para])
         /\ m.list # <<>> => Html(m) = Append(m.html, [tag |-> "ul", lines |-> m.list])
<1> DEFINE P == [tag |-> "p", lines |-> m.para]
           U == [tag |-> "ul", lines |-> m.list]
<1>1. m.html \in Seq(HtmlBlock) /\ P \in HtmlBlock /\ U \in HtmlBlock
  BY DEF Rendering, HtmlBlock
<1>2. Html(m) = m.html \o Closed("p", m.para) \o Closed("ul", m.list)
  BY DEF Html, Flush
<1>3. Closed("p", m.para) = IF m.para = <<>> THEN <<>> ELSE <<P>>
  BY DEF Closed
<1>4. Closed("ul", m.list) = IF m.list = <<>> THEN <<>> ELSE <<U>>
  BY DEF Closed
<1> DEFINE h == m.html
<1>5. h \o <<>> = h /\ h \o <<>> \o <<>> = h
  BY <1>1
<1>6. h \o <<P>> \o <<>> = Append(h, P)
  <2> HIDE DEF P, h
  <2>1. h \o <<P>> = Append(h, P) /\ Append(h, P) \in Seq(HtmlBlock)
    BY <1>1 DEF h
  <2>2. Append(h, P) \o <<>> = Append(h, P)
    BY <2>1
  <2>3. QED
    BY <2>1, <2>2
<1>7. h \o <<>> \o <<U>> = Append(h, U)
  <2> HIDE DEF U, h
  <2>1. h \o <<U>> = Append(h, U)
    BY <1>1 DEF h
  <2>2. QED
    BY <1>5, <2>1
<1> HIDE DEF P, U
<1>8. m.para = <<>> /\ m.list = <<>> => Html(m) = m.html
  BY <1>2, <1>3, <1>4, <1>5
<1>9. m.para # <<>> => Html(m) = Append(m.html, P)
  BY <1>2, <1>3, <1>4, <1>6
<1>10. m.list # <<>> => Html(m) = Append(m.html, U)
  BY <1>2, <1>3, <1>4, <1>7
<1>11. QED
  BY <1>8, <1>9, <1>10 DEF P, U

\* One turn of _markdown's loop.
LEMMA RenderStep ==
  ASSUME NEW m, NEW L, IsPage(m, L), NEW last \in Line, Opened(m, last),
         NEW x \in Line, x.kind # "code", Says(x) => Before(L, x),
         last.kind = "failure" => x.kind = "blank", x.kind = "failure" => last.kind = "blank"
  PROVE  /\ IsPage(Render(m, x), IF Says(x) THEN With(L, x) ELSE L)
         /\ Opened(Render(m, x), x)
<1> DEFINE r == Render(m, x)
           B == Html(m)
           fl == [html |-> B, para |-> <<>>, list |-> <<>>]
<1>1. m \in Rendering /\ (m.para = <<>> \/ m.list = <<>>) /\ Fine(B, L)
  BY DEF IsPage
<1>2. m.html \in Seq(HtmlBlock) /\ m.para \in Seq(Line) /\ m.list \in Seq(Line) /\ B \in Seq(HtmlBlock)
  BY <1>1 DEF Rendering, Fine
<1>3. Flush(m) = fl
  BY DEF Html, Flush
<1>4. /\ m.para = <<>> /\ m.list = <<>> => B = m.html
      /\ m.para # <<>> => B = Append(m.html, [tag |-> "p", lines |-> m.para])
      /\ m.list # <<>> => B = Append(m.html, [tag |-> "ul", lines |-> m.list])
  BY <1>1, ShownIs
<1> HIDE DEF B
<1>5. CASE x.kind \in {"blank", "rule"}
  <2>1. r = fl
    BY <1>3, <1>5 DEF Render
  <2> HIDE DEF r
  <2>2. r \in Rendering /\ r.para = <<>> /\ r.list = <<>> /\ r.html = B
    BY <1>2, <2>1 DEF Rendering
  <2>3. Html(r) = B
    BY <2>2, ShownIs
  <2>4. IsPage(r, L)
    BY <1>1, <2>2, <2>3 DEF IsPage
  <2>5. Opened(r, x)
    BY <2>2 DEF Opened
  <2>6. ~ Says(x)
    BY <1>5 DEF Says, Wordless
  <2>7. QED
    BY <2>4, <2>5, <2>6 DEF r
<1>6. CASE x.kind = "heading"
  <2> DEFINE e == [tag |-> "h", lines |-> <<x>>]
  <2>1. Closed("h", <<x>>) = <<e>>
    BY DEF Closed
  <2>2. r = [html |-> B \o <<e>>, para |-> <<>>, list |-> <<>>]
    <3>1. r = [Flush(m) EXCEPT !.html = @ \o Closed("h", <<x>>)]
      BY <1>6 DEF Render
    <3> HIDE DEF r, e
    <3>2. r = [fl EXCEPT !.html = @ \o <<e>>]
      <4> HIDE DEF fl
      <4>1. QED
        BY <1>3, <2>1, <3>1
    <3>3. fl.html = B
      OBVIOUS
    <3>4. r = [fl EXCEPT !.html = B \o <<e>>]
      <4> HIDE DEF fl
      <4>1. QED
        BY <3>2, <3>3
    <3>5. QED
      BY <3>4
  <2>3. e \in HtmlBlock
    BY DEF HtmlBlock
  <2> HIDE DEF r
  <2>4. Fine(Append(B, e), With(L, x)) /\ Says(x)
    BY <1>1, <1>6, NewBlock DEF Says, Wordless
  <2> HIDE DEF e
  <2>5. B \o <<e>> = Append(B, e) /\ Append(B, e) \in Seq(HtmlBlock)
    BY <1>2, <2>3
  <2>6. r \in Rendering /\ r.para = <<>> /\ r.list = <<>> /\ r.html = Append(B, e)
    BY <2>2, <2>5 DEF Rendering
  <2>7. Html(r) = Append(B, e)
    BY <2>6, ShownIs
  <2>8. IsPage(r, With(L, x))
    BY <2>4, <2>6, <2>7 DEF IsPage
  <2>9. Opened(r, x)
    BY <2>6 DEF Opened
  <2>10. QED
    BY <2>4, <2>8, <2>9 DEF r
<1>7. CASE x.kind = "item"
  <2> DEFINE h == m.html \o Closed("p", m.para)
             q == Append(m.list, x)
             e == [tag |-> "ul", lines |-> q]
  <2>1. r = [html |-> h, para |-> <<>>, list |-> q]
    BY <1>7 DEF Render
  <2>2. /\ q \in Seq(Line) /\ q # <<>> /\ Len(q) = Len(m.list) + 1 /\ q[Len(m.list) + 1] = x
        /\ \A j \in 1..Len(m.list) : q[j] = m.list[j]
        /\ \A j \in 1..Len(q) : j \in 1..Len(m.list) \/ j = Len(m.list) + 1
    BY <1>2
  <2>3. Says(x) /\ Before(L, x) /\ x.kind # "failure" /\ x.kind # "blank"
    BY <1>7 DEF Says, Wordless
  <2>4. h \in Seq(HtmlBlock) /\ h = IF m.para = <<>> THEN m.html
                                ELSE Append(m.html, [tag |-> "p", lines |-> m.para])
    <3>1. [tag |-> "p", lines |-> m.para] \in HtmlBlock
      BY <1>2 DEF HtmlBlock
    <3> DEFINE P == [tag |-> "p", lines |-> m.para]
    <3>2. Closed("p", m.para) = IF m.para = <<>> THEN <<>> ELSE <<P>>
      BY DEF Closed
    <3> HIDE DEF P
    <3>3. m.html \o <<>> = m.html /\ m.html \o <<P>> = Append(m.html, P)
      BY <1>2, <3>1 DEF P
    <3>4. Append(m.html, P) \in Seq(HtmlBlock)
      BY <1>2, <3>1 DEF P
    <3>5. h = IF m.para = <<>> THEN m.html ELSE Append(m.html, P)
      BY <3>2, <3>3
    <3> HIDE DEF h
    <3>6. QED
      BY <1>2, <3>4, <3>5 DEF P
  <2> HIDE DEF r, h
  <2>5. Fine(Append(h, e), With(L, x))
    <3>1. CASE m.list = <<>>
      <4>1. h = B
        BY <1>4, <2>4, <3>1
      <4>2. q = <<x>>
        BY <3>1
      <4> HIDE DEF q
      <4>3. e = [tag |-> "ul", lines |-> <<x>>]
        BY <4>2
      <4>4. Fine(Append(B, [tag |-> "ul", lines |-> <<x>>]), With(L, x))
        BY <1>1, <2>3, NewBlock
      <4>5. QED
        BY <4>1, <4>3, <4>4
    <3>2. CASE m.list # <<>>
      <4>1. h = m.html
        BY <1>1, <2>4, <3>2
      <4>2. Fine(Append(m.html, [tag |-> "ul", lines |-> m.list]), L)
        BY <1>1, <1>4, <3>2
      <4>3. \A j \in 1..Len(m.list) : m.list[j].kind # "failure"
        BY DEF Opened
      <4>4. Fine(Append(m.html, [tag |-> "ul", lines |-> Append(m.list, x)]), With(L, x))
        BY <1>2, <2>3, <4>2, <4>3, LongerBlock
      <4>5. QED
        BY <4>1, <4>4
    <3>3. QED
      BY <3>1, <3>2
  <2> HIDE DEF q
  <2>6. r \in Rendering /\ r.para = <<>> /\ r.list = q /\ r.html = h
    BY <2>1, <2>2, <2>4 DEF Rendering
  <2>7. Html(r) = Append(h, e)
    BY <2>2, <2>6, ShownIs
  <2>8. IsPage(r, With(L, x))
    BY <2>5, <2>6, <2>7 DEF IsPage
  <2>9. \A j \in 1..Len(q) : q[j].kind # "failure"
    BY <2>2, <2>3 DEF Opened
  <2>10. Opened(r, x)
    BY <2>3, <2>6, <2>9 DEF Opened
  <2>11. QED
    BY <2>3, <2>8, <2>10 DEF r
<1>8. CASE x.kind \notin {"blank", "rule", "heading", "item"}
  <2>1. Says(x) /\ Before(L, x)
    BY <1>8 DEF Says, Wordless
  <2>2. CASE m.list # <<>> \/ m.para = <<>>
    <3> DEFINE e == [tag |-> "p", lines |-> <<x>>]
    <3>1. r = [html |-> B, para |-> <<x>>, list |-> <<>>]
      <4>1. CASE m.list # <<>>
        <5>1. r = [fl EXCEPT !.para = Append(@, x)]
          BY <1>3, <1>8, <4>1 DEF Render
        <5>2. Append(<<>>, x) = <<x>>
          OBVIOUS
        <5>3. QED
          BY <5>1, <5>2
      <4>2. CASE m.list = <<>> /\ m.para = <<>>
        <5>1. r = [m EXCEPT !.para = Append(@, x)]
          BY <1>8, <4>2 DEF Render
        <5>2. m = [html |-> B, para |-> <<>>, list |-> <<>>]
          BY <1>1, <1>4, <4>2 DEF Rendering
        <5>3. Append(<<>>, x) = <<x>>
          OBVIOUS
        <5>4. QED
          BY <5>1, <5>2, <5>3
      <4>3. QED
        BY <2>2, <4>1, <4>2
    <3> HIDE DEF r
    <3>2. Fine(Append(B, e), With(L, x))
      BY <1>1, <2>1, NewBlock
    <3>3. r \in Rendering /\ r.para = <<x>> /\ r.list = <<>> /\ r.html = B /\ <<x>> # <<>>
      BY <1>2, <3>1 DEF Rendering
    <3>4. Html(r) = Append(B, e)
      BY <3>3, ShownIs
    <3>5. IsPage(r, With(L, x))
      BY <3>2, <3>3, <3>4 DEF IsPage
    <3>6. \A j \in 1..Len(<<x>>) : <<x>>[j] = x
      OBVIOUS
    <3>7. Opened(r, x)
      BY <1>8, <3>3, <3>6 DEF Opened
    <3>8. QED
      BY <2>1, <3>5, <3>7 DEF r
  <2>3. CASE m.list = <<>> /\ m.para # <<>>
    <3> DEFINE q == Append(m.para, x)
    <3>1. r = [m EXCEPT !.para = Append(@, x)]
      BY <1>8, <2>3 DEF Render
    <3>2. /\ q \in Seq(Line) /\ q # <<>> /\ Len(q) = Len(m.para) + 1 /\ q[Len(m.para) + 1] = x
          /\ \A j \in 1..Len(m.para) : q[j] = m.para[j]
          /\ \A j \in 1..Len(q) : j \in 1..Len(m.para) \/ j = Len(m.para) + 1
      <4> DEFINE s == m.para
      <4>1. s \in Seq(Line)
        BY <1>2
      <4> HIDE DEF s
      <4>2. LET u == Append(s, x) IN
            /\ u \in Seq(Line) /\ u # <<>> /\ Len(u) = Len(s) + 1 /\ u[Len(s) + 1] = x
            /\ \A j \in 1..Len(s) : u[j] = s[j]
            /\ \A j \in 1..Len(u) : j \in 1..Len(s) \/ j = Len(s) + 1
        BY <4>1
      <4>3. QED
        BY <4>2 DEF s
    <3>3. last.kind # "blank"
      BY <2>3 DEF Opened
    <3>4. x.kind # "failure" /\ last.kind # "failure"
      BY <1>8, <3>3
    <3>5. \A j \in 1..Len(m.para) : m.para[j].kind # "failure"
      BY <3>4 DEF Opened
    <3>6. Fine(Append(m.html, [tag |-> "p", lines |-> m.para]), L)
      BY <1>1, <1>4, <2>3
    <3>7. Fine(Append(m.html, [tag |-> "p", lines |-> q]), With(L, x))
      BY <1>2, <2>1, <3>4, <3>5, <3>6, LongerBlock
    <3>8. \A j \in 1..Len(q) : q[j].kind # "failure"
      BY <3>2, <3>4, <3>5
    <3> HIDE DEF r, q
    <3>9. r \in Rendering /\ r.para = q /\ r.list = <<>> /\ r.html = m.html
      BY <1>1, <2>3, <3>1, <3>2 DEF Rendering, q
    <3>10. Html(r) = Append(m.html, [tag |-> "p", lines |-> q])
      BY <3>2, <3>9, ShownIs
    <3>11. IsPage(r, With(L, x))
      BY <3>7, <3>9, <3>10 DEF IsPage
    <3>12. Opened(r, x)
      BY <1>8, <3>8, <3>9 DEF Opened
    <3>13. QED
      BY <2>1, <3>11, <3>12 DEF r
  <2>4. QED
    BY <2>2, <2>3
<1>9. QED
  BY <1>5, <1>6, <1>7, <1>8

\* A turn of the loop leaves its state in shape.
LEMMA RenderIsPage == ASSUME NEW m \in Rendering, NEW x \in Line PROVE Render(m, x) \in Rendering
<1>1. m.html \in Seq(HtmlBlock) /\ m.para \in Seq(Line) /\ m.list \in Seq(Line)
  BY DEF Rendering
<1> DEFINE P == Closed("p", m.para)
           U == Closed("ul", m.list)
           H == Closed("h", <<x>>)
           h == m.html
<1>2. P \in Seq(HtmlBlock) /\ U \in Seq(HtmlBlock) /\ H \in Seq(HtmlBlock)
  <2>1. \A tag \in {"h", "p", "ul"}, q \in Seq(Line) : <<[tag |-> tag, lines |-> q]>> \in Seq(HtmlBlock)
    BY DEF HtmlBlock
  <2>2. <<x>> \in Seq(Line) /\ <<>> \in Seq(HtmlBlock)
    OBVIOUS
  <2>3. QED
    BY <1>1, <2>1, <2>2 DEF Closed
<1> HIDE DEF P, U, H
<1>3. h \in Seq(HtmlBlock)
  BY <1>1
<1>4. h \o P \in Seq(HtmlBlock) /\ h \o P \o U \in Seq(HtmlBlock) /\ h \o P \o U \o H \in Seq(HtmlBlock)
  <2> HIDE DEF h
  <2>1. h \o P \in Seq(HtmlBlock)
    BY <1>2, <1>3
  <2>2. h \o P \o U \in Seq(HtmlBlock)
    BY <1>2, <2>1
  <2>3. QED
    BY <1>2, <2>1, <2>2
<1>5. Flush(m) = [html |-> h \o P \o U, para |-> <<>>, list |-> <<>>]
  BY DEF Flush, P, U
<1>6. Append(m.para, x) \in Seq(Line) /\ Append(m.list, x) \in Seq(Line) /\ Append(<<>>, x) \in Seq(Line)
  BY <1>1
<1> DEFINE a == h \o P
           b == h \o P \o U
           c == h \o P \o U \o H
           fl == Flush(m)
<1>7. fl \in Rendering /\ fl.html = b /\ fl.para = <<>> /\ fl.list = <<>>
  BY <1>4, <1>5 DEF Rendering
<1>8. /\ [fl EXCEPT !.html = @ \o H] \in Rendering
      /\ [fl EXCEPT !.para = Append(@, x)] \in Rendering
      /\ [m EXCEPT !.para = Append(@, x)] \in Rendering
      /\ [html |-> a, para |-> <<>>, list |-> Append(m.list, x)] \in Rendering
  <2>1. [fl EXCEPT !.html = @ \o H] \in Rendering
    <3> HIDE DEF fl, b
    <3>1. b \o H \in Seq(HtmlBlock)
      BY <1>4 DEF b
    <3>2. QED
      BY <1>7, <3>1 DEF Rendering
  <2>2. [fl EXCEPT !.para = Append(@, x)] \in Rendering
    <3> HIDE DEF fl
    <3>1. QED
      BY <1>6, <1>7 DEF Rendering
  <2>3. [m EXCEPT !.para = Append(@, x)] \in Rendering
    BY <1>6 DEF Rendering
  <2>4. [html |-> a, para |-> <<>>, list |-> Append(m.list, x)] \in Rendering
    BY <1>4, <1>6 DEF Rendering
  <2>5. QED
    BY <2>1, <2>2, <2>3, <2>4
<1>9. CASE x.kind \in {"blank", "rule"}
  BY <1>7, <1>9 DEF Render
<1>10. CASE x.kind = "heading"
  <2>1. Render(m, x) = [fl EXCEPT !.html = @ \o H]
    BY <1>10 DEF Render, H
  <2>2. QED
    BY <1>8, <2>1
<1>11. CASE x.kind = "item"
  <2>1. Render(m, x) = [html |-> a, para |-> <<>>, list |-> Append(m.list, x)]
    BY <1>11 DEF Render, P
  <2>2. QED
    BY <1>8, <2>1
<1>12. CASE x.kind \notin {"blank", "rule", "heading", "item"}
  <2>1. \/ Render(m, x) = [m EXCEPT !.para = Append(@, x)]
        \/ Render(m, x) = [fl EXCEPT !.para = Append(@, x)]
    BY <1>12 DEF Render
  <2>2. QED
    BY <1>8, <2>1
<1>13. QED
  BY <1>9, <1>10, <1>11, <1>12

\* The first i lines, those that say something.
SaidBy(s, i) == {s[a] : a \in {a \in 1..i : Says(s[a])}}

\* What _dejargon leaves: lines that say what they said, and none of machine text.
Plain(s) == \A a \in 1..Len(s) : s[a].kind # "code"

LEMMA DejargonKeeps ==
  ASSUME NEW s \in Seq(Line), Rises(s), Apart(s), NEW K, Tells(K, s), NEW T, Reports(T, s)
  PROVE  LET d == Dejargoned(s)
         IN  d \in Seq(Line) /\ Rises(d) /\ Apart(d) /\ Tells(K, d) /\ Reports(T, d) /\ Plain(d)
<1> DEFINE d == Dejargoned(s)
<1>1. DOMAIN s = 1..Len(s) /\ Len(s) \in Nat /\ \A i \in 1..Len(s) : s[i] \in Line
  OBVIOUS
<1>2. ASSUME NEW x \in Line
      PROVE  /\ Dejargon(x) \in Line /\ Dejargon(x).of = x.of /\ Dejargon(x).kind # "code"
             /\ Says(Dejargon(x)) <=> Says(x)
             /\ Dejargon(x).kind = "failure" <=> x.kind = "failure"
             /\ x.kind = "blank" => Dejargon(x).kind = "blank"
  <2>1. CASE x.kind = "code"
    <3>1. Dejargon(x) = [kind |-> "blank", of |-> x.of] /\ x.of \in Seq(Nat)
      BY <2>1 DEF Dejargon, Line
    <3>2. "blank" \in Kind
      BY DEF Kind
    <3>3. QED
      BY <2>1, <3>1, <3>2 DEF Line, Says, Wordless
  <2>2. CASE x.kind # "code"
    BY <2>2 DEF Dejargon
  <2>3. QED
    BY <2>1, <2>2
<1>3. d = [i \in 1..Len(s) |-> Dejargon(s[i])]
  BY <1>1 DEF Dejargoned
<1> HIDE DEF d
<1>4. d \in Seq(Line) /\ Len(d) = Len(s) /\ \A i \in 1..Len(s) : d[i] = Dejargon(s[i])
  BY <1>1, <1>2, <1>3
<1>5. \A i \in 1..Len(s) :
         /\ d[i].of = s[i].of /\ d[i].kind # "code" /\ (Says(d[i]) <=> Says(s[i]))
         /\ d[i].kind = "failure" <=> s[i].kind = "failure"
         /\ s[i].kind = "blank" => d[i].kind = "blank"
  BY <1>1, <1>2, <1>4
<1>6. Rises(d)
  BY <1>4, <1>5 DEF Rises
<1>7. Tells(K, d)
  BY <1>4, <1>5 DEF Tells
<1>8. Reports(T, d)
  BY <1>4, <1>5 DEF Reports
<1>9. Apart(d)
  <2>1. ASSUME NEW a \in 1..Len(d), d[a].kind = "failure"
        PROVE  a > 1 /\ a < Len(d) /\ d[a - 1].kind = "blank" /\ d[a + 1].kind = "blank"
    <3>1. a > 1 /\ a < Len(s) /\ s[a - 1].kind = "blank" /\ s[a + 1].kind = "blank"
      BY <1>4, <1>5, <2>1 DEF Apart
    <3>2. a - 1 \in 1..Len(s) /\ a + 1 \in 1..Len(s)
      BY <1>1, <1>4, <3>1
    <3>3. QED
      BY <1>4, <1>5, <3>1, <3>2
  <2>2. QED
    BY <2>1 DEF Apart
<1>10. Plain(d)
  BY <1>4, <1>5 DEF Plain
<1>11. QED
  BY <1>4, <1>6, <1>7, <1>8, <1>9, <1>10 DEF d

\* _markdown shows each line that says something once and in order.
LEMMA MarkdownIsFine ==
  ASSUME NEW s \in Seq(Line), Rises(s), Apart(s), Plain(s)
  PROVE  Fine(Markdown(s), SaidBy(s, Len(s)))
<1> DEFINE n == Len(s)
           D == Rendering
           step == [i \in 1..n |-> [m \in D |-> Render(m, s[i])]]
           rendered[i \in 0..n] == IF i = 0 THEN Nothing ELSE Render(rendered[i - 1], s[i])
           unrolled(g) == [i \in 0..n |-> IF i = 0 THEN Nothing ELSE Render(g[i - 1], s[i])]
           prior(i) == IF i = 0 THEN Blank ELSE s[i]
<1>1. n \in Nat /\ \A i \in 1..n : s[i] \in Line
  OBVIOUS
<1>2. Markdown(s) = Html(rendered[n])
  BY DEF Markdown, Html
<1>3. Nothing \in D
  BY DEF Nothing, Rendering
<1>4. \A i \in 1..n, m \in D : Render(m, s[i]) \in D
  BY <1>1, RenderIsPage
<1> HIDE DEF n, D
<1>5. step \in Passes(n, D)
  BY <1>4 DEF Passes
<1>6. \E f : IsRun(f, step, n, Nothing, D)
  <2> HIDE DEF step
  <2>1. QED
    BY <1>1, <1>3, <1>5, LoopExists
<1>7. PICK f : f \in [0..n -> D] /\ f[0] = Nothing /\ \A i \in 1..n : f[i] = step[i][f[i - 1]]
  BY <1>6 DEF IsRun
<1>8. f = unrolled(f)
  <2>1. ASSUME NEW i \in 1..n  PROVE f[i] = unrolled(f)[i]
    <3>1. f[i - 1] \in D /\ i # 0 /\ i \in 0..n
      BY <1>1, <1>7
    <3>2. f[i] = Render(f[i - 1], s[i])
      BY <1>7, <3>1
    <3>3. QED
      BY <3>1, <3>2
  <2>2. f[0] = unrolled(f)[0]
    BY <1>1, <1>7
  <2>3. \A i \in 0..n : i = 0 \/ i \in 1..n
    BY <1>1
  <2> HIDE DEF step
  <2>4. QED
    BY <1>7, <2>1, <2>2, <2>3
<1>9. rendered = unrolled(rendered)
  <2>1. \E g : g = unrolled(g)
    BY <1>8
  <2>2. QED
    BY <2>1
<1> HIDE DEF rendered
<1>10. rendered[0] = Nothing /\ \A i \in 1..n : rendered[i] = Render(rendered[i - 1], s[i])
  <2>1. 0 \in 0..n /\ \A i \in 1..n : i # 0 /\ i \in 0..n
    BY <1>1
  <2>2. QED
    BY <1>9, <2>1
<1> DEFINE P == {i \in 0..n : /\ IsPage(rendered[i], SaidBy(s, i))
                              /\ Opened(rendered[i], prior(i)) /\ prior(i) \in Line}
<1>11. 0 \in P
  <2>1. SaidBy(s, 0) = {} /\ prior(0) = Blank
    BY DEF SaidBy
  <2>2. Blank \in Line
    <3>1. "blank" \in Kind /\ <<>> \in Seq(Nat)
      BY DEF Kind
    <3>2. QED
      BY <3>1 DEF Blank, Line
  <2>3. Nothing.html = <<>> /\ Nothing.para = <<>> /\ Nothing.list = <<>> /\ Nothing \in Rendering
    BY DEF Nothing, Rendering
  <2>4. Html(Nothing) = <<>>
    BY <2>3, ShownIs
  <2>5. Fine(<<>>, {})
    <3>1. <<>> \in Seq(HtmlBlock) /\ 1..Len(<<>>) = {}
      OBVIOUS
    <3>2. NoneEmpty(<<>>) /\ InPlace(<<>>) /\ Carries({}, <<>>) /\ Lone(<<>>)
      BY <3>1 DEF NoneEmpty, InPlace, Carries, Lone
    <3>3. QED
      BY <3>1, <3>2 DEF Fine
  <2>6. IsPage(Nothing, {})
    BY <2>3, <2>4, <2>5 DEF IsPage
  <2>7. Opened(Nothing, Blank)
    BY <2>3 DEF Opened
  <2> HIDE DEF prior
  <2>8. 0 \in 0..n /\ prior(0) \in Line
    BY <1>1, <2>1, <2>2
  <2>9. IsPage(rendered[0], SaidBy(s, 0))
    BY <1>10, <2>1, <2>6
  <2>10. Opened(rendered[0], prior(0))
    BY <1>10, <2>1, <2>7
  <2>11. QED
    BY <2>8, <2>9, <2>10
<1>12. ASSUME NEW i \in 1..n, i - 1 \in P  PROVE i \in P
  <2> DEFINE m == rendered[i - 1]
             L == SaidBy(s, i - 1)
             last == prior(i - 1)
             x == s[i]
  <2>1. /\ IsPage(m, L) /\ Opened(m, last) /\ last \in Line /\ x \in Line
        /\ rendered[i] = Render(m, x) /\ prior(i) = x /\ i \in 0..n /\ i - 1 \in Nat
    BY <1>1, <1>10, <1>12
  <2>8. x.kind # "code"
    BY DEF Plain, n
  <2>2. Says(x) => Before(L, x)
    <3>1. ASSUME Says(x), NEW a \in 1..(i - 1), Says(s[a])  PROVE s[a].of[1] < x.of[1]
      <4>1. a \in 1..Len(s) /\ i \in 1..Len(s) /\ a < i
        BY <1>1 DEF n
      <4>2. QED
        BY <3>1, <4>1 DEF Rises
    <3>2. QED
      BY <3>1 DEF Before, SaidBy
  <2>3. last.kind = "failure" => x.kind = "blank"
    <3>1. SUFFICES ASSUME last.kind = "failure"  PROVE x.kind = "blank"
      OBVIOUS
    <3>2. i - 1 # 0 /\ last = s[i - 1]
      <4>1. Blank.kind = "blank"
        BY DEF Blank
      <4>2. CASE i - 1 = 0
        BY <3>1, <4>1, <4>2
      <4>3. QED
        BY <4>2
    <3>3. i - 1 \in 1..Len(s) /\ (i - 1) + 1 = i
      BY <1>1, <3>2 DEF n
    <3>4. QED
      BY <3>1, <3>2, <3>3 DEF Apart
  <2>4. x.kind = "failure" => last.kind = "blank"
    <3>1. SUFFICES ASSUME x.kind = "failure"  PROVE last.kind = "blank"
      OBVIOUS
    <3>2. i > 1 /\ s[i - 1].kind = "blank"
      BY <3>1 DEF Apart, n
    <3>3. i - 1 # 0
      BY <3>2
    <3>4. QED
      BY <3>2, <3>3
  <2>5. SaidBy(s, i) = IF Says(x) THEN With(L, x) ELSE L
    <3>1. \A a : a \in 1..i <=> a = i \/ a \in 1..(i - 1)
      BY <1>1
    <3>2. QED
      BY <3>1 DEF SaidBy, With
  <2> HIDE DEF m, L, last, x, prior
  <2>6. /\ IsPage(Render(m, x), IF Says(x) THEN With(L, x) ELSE L)
        /\ Opened(Render(m, x), x)
    BY <2>1, <2>2, <2>3, <2>4, <2>8, RenderStep
  <2>7. QED
    BY <2>1, <2>5, <2>6
<1> HIDE DEF P
<1>13. 0..n \subseteq P
  BY <1>1, <1>11, <1>12, UpTo
<1>14. IsPage(rendered[n], SaidBy(s, n))
  BY <1>1, <1>13 DEF P
<1>15. QED
  BY <1>2, <1>14 DEF IsPage, n

\* The page after plainAnswer has been called on the whole text.
Answered ==
    /\ lines \in Seq(Kind)
    /\ body = Markdown(Dejargoned(CutFailures(lines).lines))
    /\ technical = CutFailures(lines).technical
Blocks == \A i \in DOMAIN body : body[i].tag \in {"h", "p", "ul"} /\ body[i].lines # <<>>

\* What one call of plainAnswer leaves on the page.
LEMMA AnswerIsWhole == Answered => Blocks /\ NoWordsAreDiscarded
<1> SUFFICES ASSUME Answered  PROVE Blocks /\ NoWordsAreDiscarded
  OBVIOUS
<1> USE DEF Answered
<1> DEFINE c == CutFailures(lines)
           s == Dejargoned(c.lines)
           L == SaidBy(s, Len(s))
<1>1. IsCut(lines, 1, c)
  BY CutIsWhole
<1> HIDE DEF c
<1>24. /\ c \in Cuts /\ Orderly(technical) /\ Files(Failed(lines, 1), technical)
       /\ Rises(c.lines) /\ Tells(Kept(lines, 1), c.lines)
       /\ Reports(ToSet(technical), c.lines) /\ Apart(c.lines)
  BY <1>1 DEF IsCut, c
<1>25. c.lines \in Seq(Line) /\ technical \in Seq(Seq(Nat))
  BY <1>24 DEF Cuts, c
<1>26. /\ s \in Seq(Line) /\ Rises(s) /\ Apart(s) /\ Tells(Kept(lines, 1), s)
       /\ Reports(ToSet(technical), s) /\ Plain(s)
  BY <1>24, <1>25, DejargonKeeps
<1>2. /\ Orderly(technical) /\ Files(Failed(lines, 1), technical)
      /\ Rises(s) /\ Tells(Kept(lines, 1), s) /\ Reports(ToSet(technical), s) /\ Apart(s)
      /\ Plain(s)
  BY <1>24, <1>26
<1>3. s \in Seq(Line) /\ technical \in Seq(Seq(Nat))
  BY <1>25, <1>26
<1>4. body = Markdown(s)
  BY DEF c
<1> HIDE DEF s
<1>5. Fine(body, L)
  BY <1>2, <1>3, <1>4, MarkdownIsFine
<1> HIDE DEF L
<1>6. /\ body \in Seq(HtmlBlock) /\ NoneEmpty(body) /\ InPlace(body) /\ Carries(L, body)
      /\ Lone(body)
  BY <1>5 DEF Fine
<1>7. /\ DOMAIN lines = 1..Len(lines) /\ DOMAIN technical = 1..Len(technical)
      /\ \A a \in 1..Len(technical) : DOMAIN technical[a] = 1..Len(technical[a])
  BY <1>3
<1>8. /\ DOMAIN body = 1..Len(body)
      /\ \A b \in 1..Len(body) : /\ body[b].tag \in {"h", "p", "ul"}
                                 /\ body[b].lines \in Seq(Line)
                                 /\ DOMAIN body[b].lines = 1..Len(body[b].lines)
  <2>1. \A b \in 1..Len(body) : body[b] \in HtmlBlock
    BY <1>6
  <2>2. \A e \in HtmlBlock : e.tag \in {"h", "p", "ul"} /\ e.lines \in Seq(Line)
    BY DEF HtmlBlock
  <2>3. DOMAIN body = 1..Len(body)
    BY <1>6
  <2>4. QED
    BY <2>1, <2>2, <2>3
<1>9. \A x : x \in L <=> \E a \in 1..Len(s) : Says(s[a]) /\ s[a] = x
  BY DEF L, SaidBy
<1>10. \A p : p \in Place <=>
          \E b \in 1..Len(body) : \E j \in 1..Len(body[b].lines) : p = <<b, j>>
  BY <1>8 DEF Place
<1>11. ASSUME NEW b \in 1..Len(body), NEW j \in 1..Len(body[b].lines)
       PROVE  /\ <<b, j>> \in Place /\ At(<<b, j>>) = body[b].lines[j]
              /\ <<b, j>>[1] = b /\ <<b, j>>[2] = j
  BY <1>10 DEF At
<1>23. ASSUME NEW p \in Place
       PROVE  /\ p[1] \in 1..Len(body) /\ p[2] \in 1..Len(body[p[1]].lines)
              /\ At(p) = body[p[1]].lines[p[2]]
  <2>1. PICK b \in 1..Len(body) : \E j \in 1..Len(body[b].lines) : p = <<b, j>>
    BY <1>10
  <2>2. QED
    BY <2>1 DEF At
<1>12. DrawerIsWhole
  <2>1. ASSUME NEW a \in 1..Len(technical), NEW i \in 1..Len(technical[a]),
               NEW j \in 1..Len(technical[a]), i < j
        PROVE  technical[a][i] < technical[a][j]
    BY <1>2, <2>1 DEF Orderly, Rising
  <2>2. \A a, b \in 1..Len(technical) : \A i \in ToSet(technical[a]), j \in ToSet(technical[b]) :
           a < b => i < j
    BY <1>2 DEF Orderly
  <2>3. UNION {ToSet(technical[a]) : a \in 1..Len(technical)}
          = {i \in 1..Len(lines) : lines[i] \in FailLine}
    <3>1. \A k : k \in Failed(lines, 1) <=> \E a \in 1..Len(technical) : k \in ToSet(technical[a])
      BY <1>2 DEF Files
    <3>2. QED
      BY <3>1 DEF Failed
  <2>4. \A a \in DOMAIN technical : \A i, j \in DOMAIN technical[a] :
           i < j => technical[a][i] < technical[a][j]
    BY <1>7, <2>1
  <2>5. \A a, b \in DOMAIN technical : \A i \in ToSet(technical[a]), j \in ToSet(technical[b]) :
           a < b => i < j
    BY <1>7, <2>2
  <2>6. UNION {ToSet(technical[a]) : a \in DOMAIN technical}
          = {i \in DOMAIN lines : lines[i] \in FailLine}
    BY <1>7, <2>3
  <2>7. QED
    BY <2>4, <2>5, <2>6 DEF DrawerIsWhole
<1>13. ASSUME NEW p \in Place, NEW q \in Place, Above(p, q)
       PROVE  At(p).of[1] < At(q).of[1]
  <2>1. body[p[1]].lines[p[2]].of[1] < body[q[1]].lines[q[2]].of[1]
    BY <1>6, <1>13, <1>23 DEF InPlace, Above
  <2>2. QED
    BY <1>23, <2>1
<1>14. \A k : k \in Kept(lines, 1) <=> \E p \in Place : At(p).of[1] = k
  <2>1. ASSUME NEW k \in Kept(lines, 1)  PROVE \E p \in Place : At(p).of[1] = k
    <3>1. PICK a \in 1..Len(s) : Says(s[a]) /\ s[a].of[1] = k
      BY <1>2 DEF Tells
    <3>2. s[a] \in L
      BY <1>9, <3>1
    <3>3. PICK b \in 1..Len(body) : \E j \in 1..Len(body[b].lines) : body[b].lines[j] = s[a]
      BY <1>6, <3>2 DEF Carries
    <3>4. PICK j \in 1..Len(body[b].lines) : body[b].lines[j] = s[a]
      BY <3>3
    <3>5. <<b, j>> \in Place /\ At(<<b, j>>) = s[a]
      BY <1>11, <3>4
    <3>6. QED
      BY <3>1, <3>5
  <2>2. ASSUME NEW p \in Place  PROVE At(p).of[1] \in Kept(lines, 1)
    <3>2. At(p) \in L
      BY <1>6, <1>23 DEF Carries
    <3>3. QED
      BY <1>2, <1>9, <3>2 DEF Tells
  <2>3. QED
    BY <2>1, <2>2
<1>15. \A t : t \in ToSet(technical) <=> \E p \in Place : At(p).kind = "failure" /\ At(p).of = t
  <2>1. ASSUME NEW t \in ToSet(technical)
        PROVE  \E p \in Place : At(p).kind = "failure" /\ At(p).of = t
    <3>1. PICK a \in 1..Len(s) : s[a].kind = "failure" /\ s[a].of = t
      BY <1>2 DEF Reports
    <3>2. s[a] \in L
      BY <1>9, <3>1 DEF Says, Wordless
    <3>3. PICK b \in 1..Len(body) : \E j \in 1..Len(body[b].lines) : body[b].lines[j] = s[a]
      BY <1>6, <3>2 DEF Carries
    <3>4. PICK j \in 1..Len(body[b].lines) : body[b].lines[j] = s[a]
      BY <3>3
    <3>5. <<b, j>> \in Place /\ At(<<b, j>>) = s[a]
      BY <1>11, <3>4
    <3>6. QED
      BY <3>1, <3>5
  <2>2. ASSUME NEW p \in Place, At(p).kind = "failure"  PROVE At(p).of \in ToSet(technical)
    <3>2. At(p) \in L
      BY <1>6, <1>23 DEF Carries
    <3>3. QED
      BY <1>2, <1>9, <2>2, <3>2 DEF Reports
  <2>3. QED
    BY <2>1, <2>2
<1>16. ASSUME NEW p \in Place, At(p).kind = "failure"
       PROVE  body[p[1]].tag = "p" /\ Len(body[p[1]].lines) = 1
  BY <1>6, <1>16, <1>23 DEF Lone
<1>17. Kept(lines, 1) = {i \in DOMAIN lines : \/ Begins(lines, i)
                                             \/ lines[i] \notin FailLine \cup Wordless}
  BY <1>7 DEF Kept
<1>18. {At(p).of[1] : p \in Place} = Kept(lines, 1)
  BY <1>14
<1>19. {At(p).of : p \in {p \in Place : At(p).kind = "failure"}} = ToSet(technical)
  BY <1>15
<1>20. NoWordsAreDiscarded
  BY <1>12, <1>13, <1>16, <1>17, <1>18, <1>19 DEF NoWordsAreDiscarded
<1>21. Blocks
  BY <1>6, <1>8 DEF NoneEmpty, Blocks
<1>22. QED
  BY <1>20, <1>21

\* The same of the state after a step.
LEMMA NextAnswerIsWhole == Answered' => Blocks' /\ NoWordsAreDiscarded'
<1>1. (Answered => Blocks /\ NoWordsAreDiscarded)'
  BY AnswerIsWhole, PTL
<1>2. QED
  BY <1>1

\* An empty answer.
LEMMA InitPlainAnswer == PlainAnswerInit => PlainAnswerTypeOK /\ NoWordsAreDiscarded
<1> SUFFICES ASSUME PlainAnswerInit  PROVE PlainAnswerTypeOK /\ NoWordsAreDiscarded
  OBVIOUS
<1>1. lines = <<>> /\ body = <<>> /\ technical = <<>>
  BY DEF PlainAnswerInit
<1>2. lines \in Seq(Kind) /\ Len(lines) = 0 /\ DOMAIN lines = {} /\ DOMAIN body = {}
      /\ DOMAIN technical = {}
  BY <1>1
<1>3. PlainAnswerTypeOK
  BY <1>2, MaxLinesAssumption DEF PlainAnswerTypeOK
<1>4. Place = {}
  BY <1>2 DEF Place
<1>5. DrawerIsWhole
  BY <1>2 DEF DrawerIsWhole
<1>6. ToSet(technical) = {}
  BY <1>2 DEF ToSet
<1>7. QED
  BY <1>2, <1>3, <1>4, <1>5, <1>6 DEF NoWordsAreDiscarded

\* Each line that arrives, and plainAnswer on all of them.
LEMMA NextPlainAnswer ==
  PlainAnswerTypeOK /\ NoWordsAreDiscarded /\ [PlainAnswerNext]_plainAnswerVars
    => PlainAnswerTypeOK' /\ NoWordsAreDiscarded'
<1> SUFFICES ASSUME PlainAnswerTypeOK, NoWordsAreDiscarded, [PlainAnswerNext]_plainAnswerVars
             PROVE  PlainAnswerTypeOK' /\ NoWordsAreDiscarded'
  OBVIOUS
<1>1. ASSUME NEW kind \in Kind, Arrive(kind)  PROVE PlainAnswerTypeOK' /\ NoWordsAreDiscarded'
  <2>1. /\ lines' \in Seq(Kind) /\ Len(lines') <= MaxLines
        /\ body' = Markdown(Dejargoned(CutFailures(lines').lines))
        /\ technical' = CutFailures(lines').technical
    BY <1>1, MaxLinesAssumption DEF PlainAnswerTypeOK, Arrive
  <2>2. Answered'
    BY <2>1 DEF Answered
  <2>3. Blocks' /\ NoWordsAreDiscarded'
    BY <2>2, NextAnswerIsWhole
  <2>4. QED
    BY <2>1, <2>3 DEF PlainAnswerTypeOK, Blocks
<1>2. CASE UNCHANGED plainAnswerVars
  BY <1>2 DEF plainAnswerVars, PlainAnswerTypeOK, NoWordsAreDiscarded, DrawerIsWhole, Place, At
<1>3. QED
  BY <1>1, <1>2 DEF PlainAnswerNext

\* Put together.
LEMMA PlainAnswerHolds == PlainAnswerSpec => [](PlainAnswerTypeOK /\ NoWordsAreDiscarded)
  BY InitPlainAnswer, NextPlainAnswer, PTL DEF PlainAnswerSpec

\* The body is blocks that show something, for an answer of any length.
THEOREM PlainAnswerTypes == PlainAnswerSpec => []PlainAnswerTypeOK
  BY PlainAnswerHolds, PTL

\* At every moment of the streaming plainAnswer has every line with words for the reader
\* once and in its place, in the body or in the drawer, and a sentence and a paragraph of
\* its own for each failure, for any lines in any order, lines of machine text among them.
THEOREM AnswersAreWhole == PlainAnswerSpec => []NoWordsAreDiscarded
  BY PlainAnswerHolds, PTL
=============================================================================
