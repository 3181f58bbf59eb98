------------------------ MODULE KnowledgeBase_proofs ------------------------
(***************************************************************************)
(* Proofs about the expert library, for any number of requests, files,     *)
(* versions, documents and failures.  The conversion: its functions, on    *)
(* any document and any budget, keep every block, word and row of the      *)
(* upload, and of a row the cells the header has columns for.  The         *)
(* ingestion: the answer agrees with both stores, and of one request's     *)
(* versions one is in force.  The conversion sessions: the meta file comes *)
(* last, says "confirmed" only of a document that is stored, and can be    *)
(* read only beside files that hold the upload.                            *)
(***************************************************************************)
EXTENDS KnowledgeBase, ExpertLibrary, FiniteSetTheorems, SequenceTheorems, WellFoundedInduction, TLAPS

-----------------------------------------------------------------------------
(* Numbers, and what a step computes again and again.                      *)
\* A nonempty set of naturals has a first one, which Min finds.
LEMMA MinOfPositions ==
    ASSUME NEW A, A \subseteq Nat, A # {}
    PROVE  Min(A) \in A /\ \A y \in A : Min(A) <= y
<1>1. PICK m \in A : \A y \in A : ~(<<y, m>> \in OpToRel(<, Nat))
  BY NatLessThanWellFounded, WFMin
<1>2. ASSUME NEW y \in A PROVE m <= y
  <2>1. m \in Nat /\ y \in Nat
    OBVIOUS
  <2>2. ~(y < m)
    BY <1>1, <2>1, Zenon DEF OpToRel
  <2>. QED
    BY <2>1, <2>2
<1>. QED
  BY <1>2 DEF Min

\* The larger of two numbers, and the smaller.
LEMMA MaxOfTwo ==
    ASSUME NEW a \in Int, NEW b \in Int
    PROVE  Max({a, b}) = IF a >= b THEN a ELSE b
<1>. PICK m \in {a, b} : m = (IF a >= b THEN a ELSE b) /\ \A y \in {a, b} : m >= y
  OBVIOUS
<1>1. \A x \in {a, b} : (\A y \in {a, b} : x >= y) => x = m
  OBVIOUS
<1>. QED
  BY <1>1 DEF Max

\* The smaller of two numbers.
LEMMA MinOfTwo ==
    ASSUME NEW a \in Int, NEW b \in Int
    PROVE  Min({a, b}) = IF a <= b THEN a ELSE b
<1>. PICK m \in {a, b} : m = (IF a <= b THEN a ELSE b) /\ \A y \in {a, b} : m <= y
  OBVIOUS
<1>1. \A x \in {a, b} : (\A y \in {a, b} : x <= y) => x = m
  OBVIOUS
<1>. QED
  BY <1>1 DEF Min

\* What zero is not, and no successor of what is not, nothing up to n is.
LEMMA CountingUp ==
    ASSUME NEW n \in Nat, NEW B, B \subseteq 0..n, 0 \notin B, \A k \in 1..n : k - 1 \notin B => k \notin B
    PROVE  B = {}
<1>. SUFFICES ASSUME B # {} PROVE FALSE
  OBVIOUS
<1>1. B \subseteq Nat
  OBVIOUS
<1>2. PICK m \in B : \A y \in B : m <= y
  BY <1>1, MinOfPositions
<1>3. m \in 1..n /\ m - 1 \in Int /\ ~(m <= m - 1)
  BY <1>2
<1>. QED
  BY <1>2, <1>3

\* The states a step leads through, from the first one on.
Follows(f, n, base, step) == f[0] = base /\ \A k \in 1..n : f[k] = step[<<k, f[k - 1]>>]

\* What is done step by step can be done up to any number.
LEMMA RunExists ==
    ASSUME NEW n \in Nat, NEW S, NEW base \in S, NEW step \in [(1..n) \X S -> S]
    PROVE  \E f \in [0..n -> S] : Follows(f, n, base, step)
<1>. DEFINE Runs(f, m) == f \in [0..m -> S] /\ f[0] = base /\ \A k \in 1..m : f[k] = step[<<k, f[k - 1]>>]
            B == {m \in 0..n : ~(\E f : Runs(f, m))}
<1>1. 0 \notin B
  <2>1. Runs([k \in 0..0 |-> base], 0)
    OBVIOUS
  <2>. QED
    BY <2>1
<1>2. ASSUME NEW m \in 1..n, m - 1 \notin B PROVE m \notin B
  <2>1. m - 1 \in 0..n
    OBVIOUS
  <2>2. PICK f : Runs(f, m - 1)
    BY <1>2, <2>1
  <2>3. PICK next \in S : next = step[<<m, f[m - 1]>>]
    BY <2>1, <2>2
  <2>. DEFINE h == [k \in 0..m |-> IF k = m THEN next ELSE f[k]]
  <2>4. ASSUME NEW k \in 1..m PROVE h[k] = step[<<k, h[k - 1]>>]
    <3>1. CASE k = m
      <4>1. h[k] = next /\ h[k - 1] = f[m - 1]
        BY <3>1
      <4>. QED
        BY <2>3, <3>1, <4>1
    <3>2. CASE k # m
      <4>1. k \in 1..(m - 1)
        BY <3>2
      <4>2. f[k] = step[<<k, f[k - 1]>>]
        BY <2>2, <4>1
      <4>3. h[k] = f[k] /\ h[k - 1] = f[k - 1]
        BY <3>2
      <4>. QED
        BY <4>2, <4>3
    <3>. QED
      BY <3>1, <3>2
  <2>5. h \in [0..m -> S]
    <3>1. \A k \in 0..m : k # m => k \in 0..(m - 1)
      OBVIOUS
    <3>. QED
      BY <2>2, <2>3, <3>1
  <2>6. h[0] = base
    BY <2>2
  <2>. HIDE DEF h
  <2>7. Runs(h, m)
    BY <2>4, <2>5, <2>6
  <2>. QED
    BY <2>7
<1>3. B = {}
  <2>. HIDE DEF B
  <2>1. B \subseteq 0..n
    BY DEF B
  <2>. QED
    BY <1>1, <1>2, <2>1, CountingUp
<1>4. n \notin B
  BY <1>3
<1>5. PICK f : Runs(f, n)
  BY <1>4
<1>6. f \in [0..n -> S] /\ Follows(f, n, base, step)
  BY <1>5 DEF Follows
<1>. QED
  BY <1>6, Zenon

-----------------------------------------------------------------------------
(* Lists: the sequences over a set, by a name of their own, for the provers *)
(* find a list of lists hard to read.                                      *)
Lists(S) == Seq(S)

\* The empty one.
Nothing == <<>>

\* A list has its items at 1, 2, ... up to its length.
LEMMA ListIs ==
    ASSUME NEW S
    PROVE  \A s \in Lists(S) : /\ Len(s) \in Nat /\ DOMAIN s = 1..Len(s)
                               /\ \A k \in 1..Len(s) : s[k] \in S
  BY SMT DEF Lists

\* A list is known by its items.
LEMMA ListByItems ==
    ASSUME NEW S
    PROVE  \A s, t \in Lists(S) : Len(s) = Len(t) /\ (\A k \in 1..Len(s) : s[k] = t[k]) => s = t
  BY SMT DEF Lists

\* The empty list is one of them, and adds nothing.
LEMMA NothingList ==
    ASSUME NEW S
    PROVE  /\ Nothing \in Lists(S) /\ Len(Nothing) = 0
           /\ \A s \in Lists(S) : /\ s \o Nothing = s /\ Nothing \o s = s
                                  /\ Len(s) = 0 <=> s = Nothing
<1>1. \A s \in Seq(S) : Len(s) = 0 <=> s = <<>>
  BY EmptySeq
<1>2. \A s \in Seq(S) : s \o <<>> = s /\ <<>> \o s = s
  BY ConcatEmptySeq
<1>3. <<>> \in Seq(S) /\ Len(<<>>) = 0
  BY EmptySeq
<1>. QED
  BY <1>1, <1>2, <1>3, Zenon DEF Nothing, Lists

\* Joining is associative.
LEMMA Associates ==
    ASSUME NEW S
    PROVE  \A s, t, u \in Lists(S) : s \o (t \o u) = (s \o t) \o u
  BY SMT DEF Lists

\* What two lists joined are.
LEMMA ListsJoin ==
    ASSUME NEW S
    PROVE  \A s, t \in Lists(S) :
             /\ s \o t \in Lists(S) /\ Len(s \o t) = Len(s) + Len(t)
             /\ \A k \in 1..(Len(s) + Len(t)) : (s \o t)[k] = IF k <= Len(s) THEN s[k] ELSE t[k - Len(s)]
  BY SMT DEF Lists

\* What a list with one item more is.
LEMMA ListsGrow ==
    ASSUME NEW S
    PROVE  \A s \in Lists(S), x \in S :
             /\ Append(s, x) \in Lists(S) /\ Len(Append(s, x)) = Len(s) + 1
             /\ Append(s, x)[Len(s) + 1] = x /\ \A k \in 1..Len(s) : Append(s, x)[k] = s[k]
  BY SMT DEF Lists

\* One item is a list.
LEMMA ListOfOne ==
    ASSUME NEW S
    PROVE  \A x \in S : <<x>> \in Lists(S) /\ Len(<<x>>) = 1 /\ <<x>>[1] = x
  BY SMT DEF Lists

\* One item more is a list of one, joined.
LEMMA GrowIsJoin == ASSUME NEW S PROVE \A s \in Lists(S), x \in S : Append(s, x) = s \o <<x>>
  BY SMT DEF Lists

\* What is kept of a list is a list of what may be kept.
LEMMA KeptIsKept ==
    ASSUME NEW S, NEW items \in Lists(S), NEW keep
    PROVE  Kept(items, keep) \in Lists({x \in S : x \in keep})
<1>. PICK n \in Nat : n = Len(items)
  BY ListIs
<1>. PICK K : K = {x \in S : x \in keep}
  OBVIOUS
<1>. DEFINE T == Lists(K)
            Next1(t, k) == IF items[k] \in keep THEN Append(t, items[k]) ELSE t
            Runs(f) == f = [k \in 0..n |-> IF k = 0 THEN Nothing
                                           ELSE IF items[k] \in keep THEN Append(f[k - 1], items[k]) ELSE f[k - 1]]
            step == [x \in (1..n) \X T |-> Next1(x[2], x[1])]
<1>1. \A k \in 1..n, t \in T : Next1(t, k) \in T
  <2>1. ASSUME NEW k \in 1..n, NEW t \in T PROVE Next1(t, k) \in T
    <3>1. items[k] \in S
      BY ListIs
    <3>2. items[k] \in keep => Append(t, items[k]) \in Lists(K)
      BY <3>1, ListsGrow
    <3>. QED
      BY <3>2
  <2>. QED
    BY <2>1
<1>2. Nothing \in T
  BY NothingList
<1>3. \E f : Runs(f)
  <2>. HIDE DEF T, Next1
  <2>1. step \in [(1..n) \X T -> T]
    BY <1>1
  <2>2. \A k \in 1..n, t \in T : step[<<k, t>>] = Next1(t, k)
    OBVIOUS
  <2>. HIDE DEF step
  <2>3. PICK f \in [0..n -> T] : Follows(f, n, Nothing, step)
    BY <1>2, <2>1, n \in Nat, RunExists, Zenon
  <2>4. \A k \in 0..n : f[k] = IF k = 0 THEN Nothing ELSE Next1(f[k - 1], k)
    <3>1. f[0] = Nothing
      BY <2>3 DEF Follows
    <3>2. ASSUME NEW k \in 0..n, k # 0 PROVE f[k] = Next1(f[k - 1], k)
      <4>1. k \in 1..n /\ f[k - 1] \in T
        BY <3>2
      <4>2. f[k] = step[<<k, f[k - 1]>>]
        BY <2>3, <4>1 DEF Follows
      <4>. QED
        BY <2>2, <4>1, <4>2
    <3>. QED
      BY <3>1, <3>2
  <2>5. f = [k \in 0..n |-> f[k]]
    OBVIOUS
  <2>6. f = [k \in 0..n |-> IF k = 0 THEN Nothing ELSE Next1(f[k - 1], k)]
    BY <2>4, <2>5
  <2>. QED
    BY <2>6 DEF Next1
<1>4. Kept(items, keep) = (CHOOSE f : Runs(f))[n]
  BY DEF Kept, Nothing
<1>5. PICK f : Runs(f) /\ Kept(items, keep) = f[n]
  BY <1>3, <1>4
<1>6. f[0] = Nothing
  BY <1>5
<1>7. \A k \in 1..n : f[k] = Next1(f[k - 1], k)
  <2>1. f = [j \in 0..n |-> IF j = 0 THEN Nothing ELSE Next1(f[j - 1], j)]
    BY <1>5
  <2>. HIDE DEF Next1, Runs, T
  <2>. SUFFICES ASSUME NEW k \in 1..n PROVE f[k] = Next1(f[k - 1], k)
    OBVIOUS
  <2>2. k \in 0..n /\ k # 0
    OBVIOUS
  <2>. QED
    BY <2>1, <2>2
<1>. HIDE DEF Runs, T, Next1
<1>. DEFINE B == {k \in 0..n : f[k] \notin T}
<1>8. B \subseteq 0..n /\ 0 \notin B
  BY <1>2, <1>6
<1>9. \A k \in 1..n : k - 1 \notin B => k \notin B
  <2>1. ASSUME NEW k \in 1..n, k - 1 \notin B PROVE k \notin B
    <3>1. f[k - 1] \in T
      BY <2>1
    <3>. QED
      BY <1>1, <1>7, <3>1
  <2>. QED
    BY <2>1
<1>10. \A k \in 0..n : k \notin B
  <2>. HIDE DEF B
  <2>. QED
    BY <1>8, <1>9, CountingUp
<1>11. f[n] \in T
  BY <1>10
<1>. QED
  BY <1>5, <1>11 DEF T

\* The lists joined so far, from none of them on.
Joins(f, seqs) == f[0] = Nothing /\ \A k \in 1..Len(seqs) : f[k] = f[k - 1] \o seqs[k]

\* Lists can be joined one after the other.
LEMMA JoinExists ==
    ASSUME NEW S, NEW seqs \in Lists(Lists(S))
    PROVE  \E f \in [0..Len(seqs) -> Lists(S)] : Joins(f, seqs)
<1>. PICK n \in Nat : n = Len(seqs)
  BY ListIs
<1>. DEFINE T == Lists(S)
            step == [x \in (1..n) \X T |-> x[2] \o seqs[x[1]]]
<1>1. \A k \in 1..n, t \in T : t \o seqs[k] \in T
  <2>1. \A k \in 1..n : seqs[k] \in Lists(S)
    BY ListIs
  <2>. QED
    BY <2>1, ListsJoin
<1>2. Nothing \in T
  BY NothingList
<1>. HIDE DEF T
<1>3. step \in [(1..n) \X T -> T]
  BY <1>1
<1>4. \A k \in 1..n, t \in T : step[<<k, t>>] = t \o seqs[k]
  OBVIOUS
<1>. HIDE DEF step
<1>5. PICK f \in [0..n -> T] : Follows(f, n, Nothing, step)
  BY <1>2, <1>3, n \in Nat, RunExists, Zenon
<1>6. ASSUME NEW k \in 1..n PROVE f[k] = f[k - 1] \o seqs[k]
  <2>1. f[k - 1] \in T
    OBVIOUS
  <2>. QED
    BY <1>4, <1>5, <2>1 DEF Follows
<1>7. Joins(f, seqs)
  BY <1>5, <1>6 DEF Joins, Follows
<1>. QED
  BY <1>7 DEF T

\* However they are joined, that is what FlattenSeq makes of them.
LEMMA FlattenIsJoin ==
    ASSUME NEW S, NEW seqs \in Lists(Lists(S)), NEW f, Joins(f, seqs)
    PROVE  FlattenSeq(seqs) = f[Len(seqs)]
<1>. PICK n \in Nat : n = Len(seqs)
  BY ListIs
<1>1. CASE n = 0
  <2>1. seqs = Nothing
    BY <1>1, NothingList
  <2>2. FlattenSeq(seqs) = seqs
    BY <1>1 DEF FlattenSeq
  <2>. QED
    BY <1>1, <2>1, <2>2 DEF Joins
<1>2. CASE n # 0
  <2>. DEFINE Flat(e) == e = [i \in 1..n |-> IF i = 1 THEN seqs[i] ELSE e[i - 1] \o seqs[i]]
              g == [i \in 1..n |-> f[i]]
  <2>. HIDE DEF Flat, g
  <2>1. (\A k \in 1..n : f[k] = f[k - 1] \o seqs[k]) /\ (\A k \in 1..n : seqs[k] \in Lists(S))
    <3>1. \A k \in 1..n : f[k] = f[k - 1] \o seqs[k]
      BY DEF Joins
    <3>2. \A k \in 1..n : seqs[k] \in Lists(S)
      BY ListIs
    <3>. QED
      BY <3>1, <3>2
  <2>2. 1 \in 1..n /\ Nothing \o seqs[1] = seqs[1]
    <3>1. 1 \in 1..n
      BY <1>2
    <3>. QED
      BY <2>1, <3>1, NothingList
  <2>3. f[1] = seqs[1]
    <3>1. f[1] = f[1 - 1] \o seqs[1]
      BY <2>1, <2>2
    <3>2. f[1 - 1] = Nothing
      BY DEF Joins
    <3>. QED
      BY <2>2, <3>1, <3>2
  <2>4. \A i \in 1..n : g[i] = IF i = 1 THEN seqs[i] ELSE g[i - 1] \o seqs[i]
    <3>1. ASSUME NEW i \in 1..n, i # 1 PROVE g[i] = g[i - 1] \o seqs[i]
      <4>1. i - 1 \in 1..n
        BY <3>1
      <4>. QED
        BY <2>1, <4>1 DEF g
    <3>. QED
      BY <2>2, <2>3, <3>1 DEF g
  <2>5. Flat(g)
    <3>1. g = [i \in 1..n |-> g[i]]
      BY DEF g
    <3>. QED
      BY <2>4, <3>1 DEF Flat
  <2>6. FlattenSeq(seqs) = (CHOOSE e : Flat(e))[n]
    BY <1>2 DEF FlattenSeq, Flat
  <2>7. PICK e : Flat(e) /\ FlattenSeq(seqs) = e[n]
    BY <2>5, <2>6
  <2>8. \A i \in 1..n : e[i] = IF i = 1 THEN seqs[i] ELSE e[i - 1] \o seqs[i]
    BY <2>7 DEF Flat
  <2>. DEFINE B == {k \in 0..n : k # 0 /\ e[k] # f[k]}
  <2>9. B \subseteq 0..n /\ 0 \notin B
    OBVIOUS
  <2>10. ASSUME NEW k \in 1..n, k - 1 \notin B PROVE k \notin B
    <3>1. CASE k = 1
      BY <2>2, <2>3, <2>8, <3>1
    <3>2. CASE k # 1
      <4>1. k - 1 \in 1..n /\ e[k - 1] = f[k - 1]
        BY <2>10, <3>2
      <4>2. e[k] = e[k - 1] \o seqs[k] /\ f[k] = f[k - 1] \o seqs[k]
        BY <2>1, <2>8, <3>2
      <4>. QED
        BY <4>1, <4>2
    <3>. QED
      BY <3>1, <3>2
  <2>11. \A k \in 0..n : k \notin B
    <3>. HIDE DEF B
    <3>. QED
      BY <2>9, <2>10, CountingUp
  <2>12. n \in 0..n /\ n \notin B
    BY <2>11
  <2>. QED
    BY <1>2, <2>7, <2>12
<1>. QED
  BY <1>1, <1>2

\* What is joined has the elements of what was joined.
LEMMA FlattenType == ASSUME NEW S, NEW seqs \in Lists(Lists(S)) PROVE FlattenSeq(seqs) \in Lists(S)
<1>1. PICK f \in [0..Len(seqs) -> Lists(S)] : Joins(f, seqs)
  BY JoinExists
<1>2. FlattenSeq(seqs) = f[Len(seqs)] /\ Len(seqs) \in 0..Len(seqs)
  BY <1>1, FlattenIsJoin, ListIs
<1>. QED
  BY <1>1, <1>2

\* Joining nothing, and joining one list more.
LEMMA FlattenNothing == ASSUME NEW S PROVE FlattenSeq(Nothing) = Nothing
  BY NothingList DEF FlattenSeq

\* One list more is joined last.
LEMMA FlattenAppend ==
    ASSUME NEW S, NEW seqs \in Lists(Lists(S)), NEW s \in Lists(S)
    PROVE  FlattenSeq(Append(seqs, s)) = FlattenSeq(seqs) \o s
<1>. PICK n \in Nat : n = Len(seqs)
  BY ListIs
<1>1. PICK f \in [0..n -> Lists(S)] : Joins(f, seqs)
  BY JoinExists
<1>2. PICK c \in Lists(Lists(S)) : /\ c = Append(seqs, s) /\ Len(c) = n + 1 /\ c[n + 1] = s
                                   /\ \A k \in 1..n : c[k] = seqs[k]
  <2>. PICK T : T = Lists(S)
    OBVIOUS
  <2>1. seqs \in Lists(T) /\ s \in T
    OBVIOUS
  <2>2. /\ Append(seqs, s) \in Lists(T) /\ Len(Append(seqs, s)) = n + 1 /\ Append(seqs, s)[n + 1] = s
        /\ \A k \in 1..n : Append(seqs, s)[k] = seqs[k]
    BY <2>1, ListsGrow
  <2>. QED
    BY <2>2
<1>. DEFINE h == [k \in 0..(n + 1) |-> IF k <= n THEN f[k] ELSE f[n] \o s]
<1>3. (\A k \in 0..n : h[k] = f[k]) /\ h[n + 1] = f[n] \o s
  OBVIOUS
<1>. HIDE DEF h
<1>4. \A k \in 1..n : h[k] = h[k - 1] \o c[k]
  <2>1. \A k \in 1..n : f[k] = f[k - 1] \o seqs[k]
    BY <1>1 DEF Joins
  <2>. SUFFICES ASSUME NEW k \in 1..n PROVE h[k] = h[k - 1] \o c[k]
    OBVIOUS
  <2>2. h[k] = f[k] /\ h[k - 1] = f[k - 1] /\ c[k] = seqs[k]
    BY <1>2, <1>3
  <2>. QED
    BY <2>1, <2>2
<1>5. h[n + 1] = h[(n + 1) - 1] \o c[n + 1]
  <2>1. (n + 1) - 1 = n /\ h[n] = f[n] /\ c[n + 1] = s
    BY <1>2, <1>3
  <2>. QED
    BY <1>3, <2>1
<1>6. \A k \in 1..(n + 1) : h[k] = h[k - 1] \o c[k]
  <2>1. \A k \in 1..(n + 1) : k \in 1..n \/ k = n + 1
    OBVIOUS
  <2>. QED
    BY <1>4, <1>5, <2>1
<1>7. h[0] = Nothing
  BY <1>1, <1>3 DEF Joins
<1>8. Joins(h, c)
  BY <1>2, <1>6, <1>7 DEF Joins
<1>9. FlattenSeq(c) = h[n + 1] /\ FlattenSeq(seqs) = f[n]
  BY <1>1, <1>2, <1>8, FlattenIsJoin
<1>. QED
  BY <1>2, <1>3, <1>9

\* A list alone is what it is.
LEMMA FlattenOne == ASSUME NEW S, NEW s \in Lists(S) PROVE FlattenSeq(<<s>>) = s
<1>. PICK T : T = Lists(S)
  OBVIOUS
<1>1. Nothing \in Lists(T) /\ Append(Nothing, s) = Nothing \o <<s>> /\ Nothing \o <<s>> = <<s>>
  <2>1. Nothing \in Lists(T)
    BY NothingList
  <2>2. Append(Nothing, s) = Nothing \o <<s>> /\ <<s>> \in Lists(T)
    BY <2>1, GrowIsJoin, ListOfOne
  <2>. QED
    BY <2>1, <2>2, NothingList
<1>2. FlattenSeq(Append(Nothing, s)) = Nothing \o s
  BY <1>1, FlattenAppend, FlattenNothing
<1>. QED
  BY <1>1, <1>2, NothingList

\* The list without its last item, and that item.
LEMMA ListEnds ==
    ASSUME NEW S, NEW s \in Lists(S), s # Nothing
    PROVE  /\ Front(s) \in Lists(S) /\ Last(s) \in S /\ s = Append(Front(s), Last(s))
           /\ Len(Front(s)) = Len(s) - 1 /\ Last(s) = s[Len(s)]
<1>1. s \in Seq(S) /\ s # <<>>
  BY DEF Lists, Nothing
<1>. PICK n \in Nat \ {0} : n = Len(s)
  BY <1>1, EmptySeq
<1>2. /\ SubSeq(s, 1, n - 1) \in Seq(S) /\ s[n] \in S
      /\ s = Append(SubSeq(s, 1, n - 1), s[n])
      /\ Len(SubSeq(s, 1, n - 1)) = n - 1
  BY <1>1, SMT
<1>3. Front(s) = SubSeq(s, 1, n - 1) /\ Last(s) = s[n]
  BY DEF Front, Last
<1>. QED
  BY <1>2, <1>3, Zenon DEF Lists

\* Joining what comes first, then the rest.
LEMMA FlattenConcat ==
    ASSUME NEW S, NEW a \in Lists(Lists(S)), NEW b \in Lists(Lists(S))
    PROVE  FlattenSeq(a \o b) = FlattenSeq(a) \o FlattenSeq(b)
<1>0. \A x, y, z \in Lists(S) : x \o (y \o z) = (x \o y) \o z
  BY Associates
<1>. PICK n \in Nat : n = Len(b)
  BY ListIs
<1>. DEFINE Till(k) == SubSeq(b, 1, k)
            B == {k \in 0..n : FlattenSeq(a \o Till(k)) # FlattenSeq(a) \o FlattenSeq(Till(k))}
<1>1. /\ \A k \in 0..n : Till(k) \in Lists(Lists(S))
      /\ \A k \in 1..n : Till(k) = Append(Till(k - 1), b[k]) /\ b[k] \in Lists(S)
      /\ Till(0) = Nothing /\ Till(n) = b
  <2>. PICK T : T = Lists(S)
    OBVIOUS
  <2>1. b \in Seq(T)
    BY DEF Lists
  <2>2. \A k \in 0..n : SubSeq(b, 1, k) \in Seq(T)
    BY <2>1
  <2>3. \A k \in 1..n : SubSeq(b, 1, k) = Append(SubSeq(b, 1, k - 1), b[k]) /\ b[k] \in T
    BY <2>1
  <2>4. SubSeq(b, 1, 0) = <<>> /\ SubSeq(b, 1, n) = b
    BY <2>1
  <2>. QED
    BY <2>2, <2>3, <2>4 DEF Lists, Nothing
<1>. HIDE DEF Till
<1>2. FlattenSeq(a) \in Lists(S)
  BY FlattenType
<1>3. 0 \notin B /\ B \subseteq 0..n
  <2>1. a \o Nothing = a /\ FlattenSeq(Nothing) = Nothing /\ FlattenSeq(a) \o Nothing = FlattenSeq(a)
    BY <1>2, NothingList, FlattenNothing
  <2>. QED
    BY <1>1, <2>1
<1>4. ASSUME NEW k \in 1..n, k - 1 \notin B PROVE k \notin B
  <2>1. k - 1 \in 0..n /\ Till(k - 1) \in Lists(Lists(S)) /\ b[k] \in Lists(S)
    BY <1>1
  <2>. PICK t \in Lists(Lists(S)), s \in Lists(S) : t = Till(k - 1) /\ s = b[k]
    BY <2>1
  <2>2. FlattenSeq(a \o t) = FlattenSeq(a) \o FlattenSeq(t)
    BY <1>4, <2>1
  <2>3. a \o Append(t, s) = Append(a \o t, s) /\ a \o t \in Lists(Lists(S))
    <3>1. <<s>> \in Lists(Lists(S)) /\ Append(t, s) = t \o <<s>>
      BY GrowIsJoin, ListOfOne
    <3>2. a \o t \in Lists(Lists(S))
      BY ListsJoin
    <3>. PICK u \in Lists(Lists(S)) : u = a \o t
      BY <3>2
    <3>. PICK one \in Lists(Lists(S)) : one = <<s>>
      BY <3>1
    <3>3. Append(u, s) = u \o one /\ Append(t, s) = t \o one
      BY <3>1, GrowIsJoin
    <3>4. a \o (t \o one) = (a \o t) \o one
      BY Associates
    <3>. QED
      BY <3>2, <3>3, <3>4
  <2>4. FlattenSeq(Append(a \o t, s)) = FlattenSeq(a \o t) \o s
    BY <2>3, FlattenAppend
  <2>5. FlattenSeq(Append(t, s)) = FlattenSeq(t) \o s /\ FlattenSeq(t) \in Lists(S)
    BY FlattenAppend, FlattenType
  <2>6. FlattenSeq(a) \o (FlattenSeq(t) \o s) = (FlattenSeq(a) \o FlattenSeq(t)) \o s
    <3>. PICK x \in Lists(S), y \in Lists(S) : x = FlattenSeq(a) /\ y = FlattenSeq(t)
      BY <1>2, <2>5
    <3>1. x \o (y \o s) = (x \o y) \o s
      BY ONLY <1>0, x \in Lists(S), y \in Lists(S), s \in Lists(S)
    <3>. QED
      BY <3>1
  <2>7. Till(k) = Append(t, s)
    BY <1>1
  <2>. QED
    BY <2>2, <2>3, <2>4, <2>5, <2>6, <2>7
<1>5. \A k \in 0..n : k \notin B
  <2>. HIDE DEF B
  <2>. QED
    BY <1>3, <1>4, CountingUp
<1>. QED
  BY <1>1, <1>5

\* What a list holds, and what two of them hold.
LEMMA WhatItHolds ==
    ASSUME NEW S, NEW s \in Lists(S)
    PROVE  /\ \A k \in 1..Len(s) : s[k] \in ToSet(s)
           /\ \A x \in ToSet(s) : \E k \in 1..Len(s) : x = s[k]
           /\ ToSet(s) \subseteq S
<1>1. ToSet(s) = {s[k] : k \in 1..Len(s)}
  BY ListIs DEF ToSet
<1>. QED
  BY <1>1, ListIs

\* Two lists joined hold what each holds.
LEMMA HoldsBoth ==
    ASSUME NEW S, NEW s \in Lists(S), NEW t \in Lists(S)
    PROVE  ToSet(s \o t) = ToSet(s) \cup ToSet(t)
<1>. PICK m \in Nat, n \in Nat : m = Len(s) /\ n = Len(t)
  BY ListIs
<1>. PICK c \in Lists(S) : c = s \o t
  BY ListsJoin
<1>1. /\ Len(c) = m + n
      /\ \A k \in 1..(m + n) : c[k] = IF k <= m THEN s[k] ELSE t[k - m]
  BY ListsJoin
<1>2. ASSUME NEW x \in ToSet(c) PROVE x \in ToSet(s) \cup ToSet(t)
  <2>0. \E k \in 1..Len(c) : x = c[k]
    BY WhatItHolds, Zenon
  <2>1. PICK k \in 1..(m + n) : x = c[k]
    BY <1>1, <2>0
  <2>2. CASE k <= m
    <3>1. x = s[k] /\ k \in 1..m
      BY <1>1, <2>1, <2>2
    <3>. QED
      BY <3>1, WhatItHolds
  <2>3. CASE ~(k <= m)
    <3>1. x = t[k - m] /\ k - m \in 1..n
      BY <1>1, <2>1, <2>3
    <3>. QED
      BY <3>1, WhatItHolds
  <2>. QED
    BY <2>2, <2>3
<1>3. ASSUME NEW x \in ToSet(s) PROVE x \in ToSet(c)
  <2>1. PICK k \in 1..m : x = s[k]
    BY WhatItHolds
  <2>2. k \in 1..(m + n) /\ c[k] = s[k]
    BY <1>1
  <2>. QED
    BY <1>1, <2>1, <2>2, WhatItHolds
<1>4. ASSUME NEW x \in ToSet(t) PROVE x \in ToSet(c)
  <2>1. PICK k \in 1..n : x = t[k]
    BY WhatItHolds
  <2>2. k + m \in 1..(m + n) /\ ~(k + m <= m) /\ (k + m) - m = k
    OBVIOUS
  <2>3. c[k + m] = t[k]
    BY <1>1, <2>2
  <2>. QED
    BY <1>1, <2>1, <2>2, <2>3, WhatItHolds
<1>. QED
  BY <1>2, <1>3, <1>4

\* Lists over fewer items are lists over more.
LEMMA ListsWithin == ASSUME NEW S, NEW T, S \subseteq T PROVE Lists(S) \subseteq Lists(T)
  BY SMT DEF Lists

\* A function on 1..n is a list.
LEMMA ListOf ==
    ASSUME NEW S, NEW n \in Nat, NEW g \in [1..n -> S]
    PROVE  g \in Lists(S) /\ Len(g) = n
<1>1. g \in Seq(S)
  BY SeqDef
<1>2. DOMAIN g = 1..Len(g) /\ Len(g) \in Nat
  BY <1>1
<1>. QED
  BY <1>1, <1>2 DEF Lists

\* To join a list with an item more is to join it, and add the item.
LEMMA JoinThenGrow ==
    ASSUME NEW S
    PROVE  \A s, t \in Lists(S), x \in S : s \o Append(t, x) = Append(s \o t, x)
<1>0. \A x, y, z \in Lists(S) : x \o (y \o z) = (x \o y) \o z
  BY Associates
<1>. SUFFICES ASSUME NEW s \in Lists(S), NEW t \in Lists(S), NEW x \in S
              PROVE  s \o Append(t, x) = Append(s \o t, x)
  OBVIOUS
<1>. PICK one \in Lists(S), st \in Lists(S) : one = <<x>> /\ st = s \o t
  BY ListOfOne, ListsJoin
<1>1. Append(t, x) = t \o one /\ Append(st, x) = st \o one
  BY GrowIsJoin
<1>2. s \o (t \o one) = (s \o t) \o one
  BY <1>0
<1>. QED
  BY <1>1, <1>2

-----------------------------------------------------------------------------
(* The structure holds the blocks.                                         *)
\* Words.  No prover knows that a string is in STRING: those the conversion says
\* itself are named.
Words == STRING \cup {"empty", "unrecognised", ""}

\* A block as the provers read it.
ReadBlocks == [type : {"text", "table"}, anchor : Words, page : Nat,
               words : Lists(Words), rows : Lists(Lists(Words))]

\* The blocks of a document are blocks of words.
LEMMA BlocksAreRead == Lists(Blocks) \subseteq Lists(ReadBlocks)
<1>1. Lists(STRING) \subseteq Lists(Words)
  BY ListsWithin DEF Words
<1>2. Lists(Lists(STRING)) \subseteq Lists(Lists(Words))
  BY <1>1, ListsWithin
<1>3. Blocks = [type : {"text", "table"}, anchor : STRING, page : Nat,
                words : Lists(STRING), rows : Lists(Lists(STRING))]
  BY DEF Blocks, Lists
<1>4. Blocks \subseteq ReadBlocks
  BY <1>1, <1>2, <1>3 DEF ReadBlocks, Words
<1>. QED
  BY <1>4, ListsWithin

\* A section of such blocks.
SectionRecords == [title : Words, first : Nat, last : Nat, blocks : Lists(ReadBlocks)]

\* The blocks of each section.
BlockLists(sections) == [i \in DOMAIN sections |-> sections[i].blocks]

\* Sections have a list of blocks each.
LEMMA BlockListsAre ==
    ASSUME NEW sections \in Lists(SectionRecords)
    PROVE  BlockLists(sections) \in Lists(Lists(ReadBlocks)) /\ Len(BlockLists(sections)) = Len(sections)
<1>. PICK n \in Nat : n = Len(sections) /\ DOMAIN sections = 1..n /\ \A k \in 1..n : sections[k] \in SectionRecords
  BY ListIs
<1>1. \A k \in 1..n : sections[k].blocks \in Lists(ReadBlocks)
  BY DEF SectionRecords
<1>2. BlockLists(sections) \in [1..n -> Lists(ReadBlocks)]
  BY <1>1 DEF BlockLists
<1>. QED
  BY <1>2, ListOf

\* One section more brings its blocks.
LEMMA BlockListsGrow ==
    ASSUME NEW sections \in Lists(SectionRecords), NEW s \in SectionRecords
    PROVE  BlocksIn(Append(sections, s)) = BlocksIn(sections) \o s.blocks
<1>. PICK n \in Nat : n = Len(sections)
  BY ListIs
<1>1. PICK more \in Lists(SectionRecords) : /\ more = Append(sections, s) /\ Len(more) = n + 1
                                            /\ more[n + 1] = s /\ \A k \in 1..n : more[k] = sections[k]
  <2>1. LET more == Append(sections, s)
        IN  /\ more \in Lists(SectionRecords) /\ Len(more) = n + 1 /\ more[n + 1] = s
            /\ \A k \in 1..n : more[k] = sections[k]
    BY ListsGrow
  <2>. QED
    BY <2>1
<1>2. s.blocks \in Lists(ReadBlocks)
  BY DEF SectionRecords
<1>. PICK a \in Lists(Lists(ReadBlocks)), b \in Lists(Lists(ReadBlocks)) :
       a = BlockLists(sections) /\ b = BlockLists(more)
  BY BlockListsAre
<1>3. PICK c \in Lists(Lists(ReadBlocks)) : /\ c = Append(a, s.blocks) /\ Len(c) = Len(a) + 1
                                        /\ c[Len(a) + 1] = s.blocks /\ \A k \in 1..Len(a) : c[k] = a[k]
  <2>. PICK T : T = Lists(ReadBlocks)
    OBVIOUS
  <2>1. a \in Lists(T) /\ s.blocks \in T
    BY <1>2
  <2>2. LET c == Append(a, s.blocks)
        IN  /\ c \in Lists(T) /\ Len(c) = Len(a) + 1 /\ c[Len(a) + 1] = s.blocks
            /\ \A k \in 1..Len(a) : c[k] = a[k]
    BY <2>1, ListsGrow
  <2>. QED
    BY <2>2
<1>4. Len(a) = n /\ Len(b) = n + 1
  BY <1>1, BlockListsAre
<1>5. DOMAIN sections = 1..n /\ DOMAIN more = 1..(n + 1)
  BY <1>1, ListIs
<1>6. \A k \in 1..(n + 1) : b[k] = c[k]
  <2>1. \A k \in 1..n : a[k] = sections[k].blocks
    BY <1>5 DEF BlockLists
  <2>2. \A k \in 1..(n + 1) : b[k] = more[k].blocks
    BY <1>5 DEF BlockLists
  <2>3. \A k \in 1..(n + 1) : k \in 1..n \/ k = n + 1
    OBVIOUS
  <2>. QED
    BY <1>1, <1>3, <1>4, <2>1, <2>2, <2>3
<1>7. b = c
  BY <1>3, <1>4, <1>6, ListByItems
<1>8. FlattenSeq(Append(a, s.blocks)) = FlattenSeq(a) \o s.blocks
  BY <1>2, FlattenAppend
<1>. QED
  BY <1>1, <1>3, <1>7, <1>8 DEF BlocksIn, BlockLists

\* The blocks of all sections are blocks.
LEMMA BlocksInType ==
    ASSUME NEW sections \in Lists(SectionRecords)
    PROVE  BlocksIn(sections) \in Lists(ReadBlocks)
<1>1. BlocksIn(sections) = FlattenSeq(BlockLists(sections))
  BY DEF BlocksIn, BlockLists
<1>. QED
  BY <1>1, BlockListsAre, FlattenType

\* A section grows by its block, and so do the sections.
LEMMA GrownByABlock ==
    ASSUME NEW sections \in Lists(SectionRecords), NEW block \in ReadBlocks
    PROVE  /\ Grow(sections, block) \in Lists(SectionRecords)
           /\ BlocksIn(Grow(sections, block)) = Append(BlocksIn(sections), block)
<1>0. block.anchor \in Words /\ block.page \in Nat
  BY DEF ReadBlocks
<1>1. CASE sections = Nothing \/ Last(sections).title # block.anchor
  <2>. DEFINE new == [title |-> block.anchor, first |-> block.page, last |-> block.page,
                      blocks |-> <<block>>]
  <2>1. <<block>> \in Lists(ReadBlocks)
    BY ListOfOne
  <2>2. new \in SectionRecords /\ new.blocks = <<block>>
    BY <1>0, <2>1 DEF SectionRecords
  <2>3. Grow(sections, block) = Append(sections, new)
    BY <1>1 DEF Grow, Nothing
  <2>. HIDE DEF new
  <2>4. Append(sections, new) \in Lists(SectionRecords)
    BY <2>2, ListsGrow
  <2>5. BlocksIn(Append(sections, new)) = BlocksIn(sections) \o <<block>>
    BY <2>2, BlockListsGrow
  <2>6. Append(BlocksIn(sections), block) = BlocksIn(sections) \o <<block>>
    BY BlocksInType, GrowIsJoin
  <2>. QED
    BY <2>3, <2>4, <2>5, <2>6
<1>2. CASE ~(sections = Nothing \/ Last(sections).title # block.anchor)
  <2>. PICK front \in Lists(SectionRecords), s \in SectionRecords :
         front = Front(sections) /\ s = Last(sections) /\ sections = Append(front, s)
    BY <1>2, ListEnds
  <2>. DEFINE new == [s EXCEPT !.last = Max({@, block.page}), !.blocks = Append(@, block)]
  <2>1. s.last \in Nat /\ s.blocks \in Lists(ReadBlocks)
    BY DEF SectionRecords
  <2>2. Max({s.last, block.page}) \in Nat
    BY <1>0, <2>1, MaxOfTwo
  <2>3. Append(s.blocks, block) \in Lists(ReadBlocks)
    BY <2>1, ListsGrow
  <2>4. new \in SectionRecords /\ new.blocks = Append(s.blocks, block)
    BY <2>2, <2>3 DEF SectionRecords
  <2>5. Grow(sections, block) = Append(front, new)
    BY <1>2 DEF Grow, Nothing
  <2>. HIDE DEF new
  <2>6. Append(front, new) \in Lists(SectionRecords)
    BY <2>4, ListsGrow
  <2>7. BlocksIn(Append(front, new)) = BlocksIn(front) \o new.blocks
    BY <2>4, BlockListsGrow
  <2>8. BlocksIn(sections) = BlocksIn(front) \o s.blocks
    BY BlockListsGrow
  <2>9. BlocksIn(front) \o Append(s.blocks, block) = Append(BlocksIn(front) \o s.blocks, block)
    <3>. PICK x \in Lists(ReadBlocks), y \in Lists(ReadBlocks) : x = BlocksIn(front) /\ y = s.blocks
      BY <2>1, BlocksInType
    <3>1. x \o Append(y, block) = Append(x \o y, block)
      BY JoinThenGrow
    <3>. QED
      BY <3>1
  <2>10. BlocksIn(Grow(sections, block)) = Append(BlocksIn(sections), block)
    BY <2>4, <2>5, <2>7, <2>8, <2>9, Zenon
  <2>. QED
    BY <2>5, <2>6, <2>10, Zenon
<1>. QED
  BY <1>1, <1>2

\* The blocks that are not empty are blocks.
LEMMA FilledIs == ASSUME NEW blocks \in Lists(ReadBlocks) PROVE Filled(blocks) \in Lists(ReadBlocks)
<1>. DEFINE keep == {b \in ToSet(blocks) : b.words # <<>> \/ b.rows # <<>>}
<1>1. Filled(blocks) = Kept(blocks, keep)
  BY DEF Filled
<1>. HIDE DEF keep
<1>2. Kept(blocks, keep) \in Lists({x \in ReadBlocks : x \in keep})
  BY KeptIsKept
<1>. QED
  BY <1>1, <1>2, ListsWithin

\* The section that says so of an empty document is a section.
LEMMA PlaceholderIs == /\ Placeholder \in SectionRecords /\ <<Placeholder>> \in Lists(SectionRecords)
<1>. PICK words \in Lists(Words) : words = <<"empty">>
  BY ListOfOne DEF Words
<1>. PICK rows \in Lists(Lists(Words)) : rows = <<>>
  BY NothingList, Zenon DEF Nothing
<1>. DEFINE b == [type |-> "text", anchor |-> "unrecognised", page |-> 1, words |-> words, rows |-> rows]
<1>1. b \in ReadBlocks
  BY DEF ReadBlocks, Words
<1>2. Placeholder = [title |-> "unrecognised", first |-> 1, last |-> 1, blocks |-> <<b>>]
  BY DEF Placeholder
<1>. HIDE DEF b
<1>3. <<b>> \in Lists(ReadBlocks)
  BY <1>1, ListOfOne
<1>4. Placeholder \in SectionRecords
  BY <1>2, <1>3 DEF SectionRecords, Words
<1>. QED
  BY <1>4, ListOfOne

\* The structure has the blocks that are not empty, in their order.
LEMMA StructureHoldsBlocks ==
    ASSUME NEW blocks \in Lists(ReadBlocks)
    PROVE  /\ build_structure_v1_from_blocks(blocks) \in Lists(SectionRecords)
           /\ HoldsBlocks(build_structure_v1_from_blocks(blocks), blocks)
<1>. PICK filled \in Lists(ReadBlocks) : filled = Filled(blocks)
  BY FilledIs
<1>. PICK n \in Nat : n = Len(filled)
  BY ListIs
<1>0. filled = Nothing <=> n = 0
  BY NothingList
<1>1. CASE n = 0
  <2>1. filled = <<>>
    BY <1>0, <1>1 DEF Nothing
  <2>2. build_structure_v1_from_blocks(blocks) = <<Placeholder>>
    BY <2>1 DEF build_structure_v1_from_blocks
  <2>. QED
    BY <2>1, <2>2, PlaceholderIs DEF HoldsBlocks
<1>2. CASE n # 0
  <2>. DEFINE T == Lists(SectionRecords)
              Runs(f) == f = [k \in 0..n |-> IF k = 0 THEN Nothing ELSE Grow(f[k - 1], filled[k])]
              step == [x \in (1..n) \X T |-> Grow(x[2], filled[x[1]])]
  <2>1. \A k \in 1..n : filled[k] \in ReadBlocks
    BY ListIs
  <2>2. step \in [(1..n) \X T -> T]
    <3>1. \A k \in 1..n, t \in T : Grow(t, filled[k]) \in T
      BY <2>1, GrownByABlock
    <3>. HIDE DEF T
    <3>. QED
      BY <3>1
  <2>3. \A k \in 1..n, t \in T : step[<<k, t>>] = Grow(t, filled[k])
    OBVIOUS
  <2>4. Nothing \in T
    BY NothingList
  <2>. HIDE DEF T, step
  <2>5. PICK f \in [0..n -> T] : Follows(f, n, Nothing, step)
    BY <2>2, <2>4, n \in Nat, RunExists, Zenon
  <2>6. Runs(f)
    <3>1. f[0] = Nothing
      BY <2>5 DEF Follows
    <3>2. \A k \in 1..n : f[k] = Grow(f[k - 1], filled[k])
      <4>. SUFFICES ASSUME NEW k \in 1..n PROVE f[k] = Grow(f[k - 1], filled[k])
        OBVIOUS
      <4>1. f[k - 1] \in T
        OBVIOUS
      <4>2. f[k] = step[<<k, f[k - 1]>>]
        BY <2>5 DEF Follows
      <4>. QED
        BY <2>3, <4>1, <4>2
    <3>3. f = [k \in 0..n |-> f[k]]
      OBVIOUS
    <3>4. \A k \in 0..n : k = 0 \/ k \in 1..n
      OBVIOUS
    <3>5. \A k \in 0..n : f[k] = IF k = 0 THEN Nothing ELSE Grow(f[k - 1], filled[k])
      BY <3>1, <3>2, <3>4
    <3>. QED
      BY <3>3, <3>5
  <2>7. build_structure_v1_from_blocks(blocks) = (CHOOSE e : Runs(e))[n]
    BY <1>0, <1>2 DEF build_structure_v1_from_blocks, Nothing
  <2>8. PICK e : Runs(e) /\ build_structure_v1_from_blocks(blocks) = e[n]
    BY <2>6, <2>7
  <2>9. e[0] = Nothing /\ \A k \in 1..n : e[k] = Grow(e[k - 1], filled[k])
    <3>1. e = [k \in 0..n |-> IF k = 0 THEN Nothing ELSE Grow(e[k - 1], filled[k])]
      BY <2>8
    <3>. HIDE DEF Runs
    <3>2. \A k \in 0..n : e[k] = IF k = 0 THEN Nothing ELSE Grow(e[k - 1], filled[k])
      BY <3>1
    <3>3. 0 \in 0..n /\ \A k \in 1..n : k \in 0..n /\ k # 0
      OBVIOUS
    <3>. QED
      BY <3>2, <3>3
  <2>. HIDE DEF Runs
  <2>. DEFINE B == {k \in 0..n : ~(e[k] \in T /\ BlocksIn(e[k]) = SubSeq(filled, 1, k))}
  <2>10. /\ SubSeq(filled, 1, 0) = Nothing /\ SubSeq(filled, 1, n) = filled
         /\ \A k \in 1..n : SubSeq(filled, 1, k) = Append(SubSeq(filled, 1, k - 1), filled[k])
    <3>1. filled \in Seq(ReadBlocks)
      BY DEF Lists
    <3>. QED
      BY <3>1 DEF Nothing
  <2>11. B \subseteq 0..n /\ 0 \notin B
    <3>1. BlocksIn(Nothing) = Nothing
      <4>1. BlockLists(Nothing) = Nothing
        BY NothingList, BlockListsAre
      <4>2. FlattenSeq(Nothing) = Nothing
        BY FlattenNothing
      <4>. QED
        BY <4>1, <4>2 DEF BlocksIn, BlockLists
    <3>. QED
      BY <2>4, <2>9, <2>10, <3>1
  <2>12. ASSUME NEW k \in 1..n, k - 1 \notin B PROVE k \notin B
    <3>1. e[k - 1] \in T /\ BlocksIn(e[k - 1]) = SubSeq(filled, 1, k - 1)
      BY <2>12
    <3>. PICK t \in Lists(SectionRecords), b \in ReadBlocks : t = e[k - 1] /\ b = filled[k]
      BY <2>1, <3>1 DEF T
    <3>2. Grow(t, b) \in T /\ BlocksIn(Grow(t, b)) = Append(BlocksIn(t), b)
      BY GrownByABlock DEF T
    <3>. QED
      BY <2>9, <2>10, <3>1, <3>2
  <2>13. \A k \in 0..n : k \notin B
    <3>. HIDE DEF B
    <3>. QED
      BY <2>11, <2>12, CountingUp
  <2>14. e[n] \in T /\ BlocksIn(e[n]) = filled
    BY <2>10, <2>13
  <2>. QED
    BY <1>0, <1>2, <2>8, <2>14 DEF T, HoldsBlocks, Nothing
<1>. QED
  BY <1>1, <1>2

-----------------------------------------------------------------------------
(* The layout has a row for every block.                                   *)
LayoutRow(sections, s, b) ==
    [block |-> BlockId(s, sections[s], b), page |-> sections[s].blocks[b].page, anchor |-> sections[s].title]

RowsOf(sections, s) == {LayoutRow(sections, s, b) : b \in DOMAIN sections[s].blocks}

\* Blocks of one type are numbered apart.
LEMMA NumberedApart ==
    ASSUME NEW blocks, NEW a \in Nat, NEW b \in Nat, a < b, 0 < a, blocks[a].type = blocks[b].type
    PROVE  Cardinality({i \in 1..a : blocks[i].type = blocks[a].type})
             # Cardinality({i \in 1..b : blocks[i].type = blocks[b].type})
<1>. DEFINE A == {i \in 1..a : blocks[i].type = blocks[a].type}
            C == {i \in 1..b : blocks[i].type = blocks[b].type}
<1>1. IsFiniteSet(1..b)
  BY FS_Interval
<1>2. C \subseteq 1..b /\ A \subseteq C /\ b \in C /\ b \notin A
  OBVIOUS
<1>. HIDE DEF A, C
<1>3. IsFiniteSet(C)
  BY <1>1, <1>2, FS_Subset
<1>4. Cardinality(C) = Cardinality(A) => C = A
  BY <1>2, <1>3, FS_Subset
<1>. QED
  BY <1>2, <1>4 DEF A, C

\* A section has as many rows in the layout as it has blocks.
LEMMA RowsApart ==
    ASSUME NEW sections, NEW s, NEW n \in Nat, DOMAIN sections[s].blocks = 1..n
    PROVE  IsFiniteSet(RowsOf(sections, s)) /\ Cardinality(RowsOf(sections, s)) = n
<1>. DEFINE f == [b \in 1..n |-> LayoutRow(sections, s, b)]
            R == RowsOf(sections, s)
            number(b) == Cardinality({i \in 1..b : sections[s].blocks[i].type = sections[s].blocks[b].type})
<1>1. R = {f[b] : b \in 1..n}
  BY DEF RowsOf
<1>2. ASSUME NEW a \in 1..n, NEW b \in 1..n, f[a] = f[b] PROVE a = b
  <2>1. BlockId(s, sections[s], a) = BlockId(s, sections[s], b)
    BY <1>2 DEF LayoutRow
  <2>2. /\ BlockId(s, sections[s], a) = <<s, sections[s].blocks[a].type, number(a)>>
        /\ BlockId(s, sections[s], b) = <<s, sections[s].blocks[b].type, number(b)>>
    BY DEF BlockId
  <2>. HIDE DEF number
  <2>3. sections[s].blocks[a].type = sections[s].blocks[b].type /\ number(a) = number(b)
    <3>1. \A p, q, r, x, y, z : <<p, q, r>> = <<x, y, z>> => q = y /\ r = z
      OBVIOUS
    <3>. PICK x, y : x = number(a) /\ y = number(b)
      OBVIOUS
    <3>. PICK v, w : v = sections[s].blocks[a].type /\ w = sections[s].blocks[b].type
      OBVIOUS
    <3>2. <<s, v, x>> = <<s, w, y>>
      BY <2>1, <2>2
    <3>3. v = w /\ x = y
      BY <3>1, <3>2, Zenon
    <3>. QED
      BY <3>3
  <2>. USE DEF number
  <2>4. ~(a < b)
    BY <2>3, NumberedApart
  <2>5. ~(b < a)
    <3>1. sections[s].blocks[b].type = sections[s].blocks[a].type /\ number(b) = number(a)
      BY <2>3
    <3>. QED
      BY <3>1, NumberedApart
  <2>. QED
    BY <2>4, <2>5
<1>. HIDE DEF number
<1>3. f \in [1..n -> R]
  BY <1>1
<1>. HIDE DEF f, R
<1>4. f \in Bijection(1..n, R)
  BY <1>1, <1>2, <1>3 DEF Bijection, Injection, Surjection, IsInjective
<1>5. ExistsBijection(1..n, R)
  BY <1>4 DEF ExistsBijection
<1>6. Cardinality(R) = n
  BY <1>5, FS_CountingElements
<1>7. IsFiniteSet(R)
  BY <1>5, FS_NatBijection
<1>. QED
  BY <1>6, <1>7 DEF R

\* And so have all of them together.
LEMMA LayoutHasRows ==
    ASSUME NEW sections \in Lists(SectionRecords)
    PROVE  Cardinality(build_conversion_layout_rows(sections)) = Len(BlocksIn(sections))
<1>. PICK n \in Nat : n = Len(sections) /\ DOMAIN sections = 1..n /\ \A k \in 1..n : sections[k] \in SectionRecords
  BY ListIs
<1>. PICK a \in Lists(Lists(ReadBlocks)) : a = BlockLists(sections) /\ Len(a) = n
  BY BlockListsAre
<1>1. \A k \in 1..n : a[k] = sections[k].blocks
  BY DEF BlockLists
<1>2. PICK f \in [0..n -> Lists(ReadBlocks)] : Joins(f, a)
  BY JoinExists
<1>3. BlocksIn(sections) = f[n]
  <2>1. FlattenSeq(a) = f[n]
    BY <1>2, FlattenIsJoin
  <2>. QED
    BY <2>1 DEF BlocksIn, BlockLists
<1>. DEFINE Till(k) == UNION {RowsOf(sections, s) : s \in 1..k}
            B == {k \in 0..n : ~(IsFiniteSet(Till(k)) /\ Cardinality(Till(k)) = Len(f[k]))}
<1>4. B \subseteq 0..n /\ 0 \notin B
  <2>1. Till(0) = {}
    OBVIOUS
  <2>2. f[0] = Nothing
    BY <1>2 DEF Joins
  <2>. HIDE DEF Till
  <2>. QED
    BY <2>1, <2>2, FS_EmptySet, NothingList
<1>5. ASSUME NEW k \in 1..n, k - 1 \notin B PROVE k \notin B
  <2>. PICK m \in Nat : m = Len(sections[k].blocks) /\ DOMAIN sections[k].blocks = 1..m
    <3>1. sections[k].blocks \in Lists(ReadBlocks)
      BY DEF SectionRecords
    <3>. QED
      BY <3>1, ListIs
  <2>1. IsFiniteSet(RowsOf(sections, k)) /\ Cardinality(RowsOf(sections, k)) = m
    BY RowsApart
  <2>2. Till(k) = Till(k - 1) \cup RowsOf(sections, k)
    <3>1. 1..k = (1..(k - 1)) \cup {k}
      OBVIOUS
    <3>. QED
      BY <3>1
  <2>3. Till(k - 1) \cap RowsOf(sections, k) = {}
    <3>. SUFFICES ASSUME NEW s \in 1..(k - 1), NEW r, r \in RowsOf(sections, s), r \in RowsOf(sections, k)
                  PROVE  FALSE
      OBVIOUS
    <3>1. \A x, y, z : <<x, y, z>>[1] = x
      OBVIOUS
    <3>2. \A t, b : LayoutRow(sections, t, b).block = BlockId(t, sections[t], b)
      BY DEF LayoutRow
    <3>3. \A t, b : BlockId(t, sections[t], b)[1] = t
      BY DEF BlockId
    <3>. PICK b, u : r = LayoutRow(sections, s, b) /\ r = LayoutRow(sections, k, u)
      BY DEF RowsOf
    <3>4. r.block = BlockId(s, sections[s], b) /\ r.block = BlockId(k, sections[k], u)
      BY <3>2
    <3>5. r.block[1] = s /\ r.block[1] = k
      BY <3>3, <3>4
    <3>. QED
      BY <3>5
  <2>4. k - 1 \in 0..n /\ IsFiniteSet(Till(k - 1)) /\ Cardinality(Till(k - 1)) = Len(f[k - 1])
    BY <1>5
  <2>. HIDE DEF Till
  <2>5. /\ IsFiniteSet(Till(k))
        /\ Cardinality(Till(k)) = Len(f[k - 1]) + m - Cardinality({})
    <3>. PICK X, Y : X = Till(k - 1) /\ Y = RowsOf(sections, k)
      OBVIOUS
    <3>1. IsFiniteSet(X) /\ IsFiniteSet(Y) /\ X \cap Y = {}
      BY <2>1, <2>3, <2>4
    <3>2. IsFiniteSet(X \cup Y) /\ Cardinality(X \cup Y) = Cardinality(X) + Cardinality(Y) - Cardinality({})
      BY <3>1, FS_Union
    <3>. QED
      BY <2>1, <2>2, <2>4, <3>2, Zenon
  <2>6. f[k] = f[k - 1] \o sections[k].blocks
    BY <1>1, <1>2 DEF Joins
  <2>7. Len(f[k]) = Len(f[k - 1]) + m
    <3>1. f[k - 1] \in Lists(ReadBlocks) /\ sections[k].blocks \in Lists(ReadBlocks)
      BY <2>4 DEF SectionRecords
    <3>2. Len(f[k - 1] \o sections[k].blocks) = Len(f[k - 1]) + Len(sections[k].blocks)
      BY <3>1, ListsJoin
    <3>. QED
      BY <2>6, <3>2
  <2>8. Len(f[k - 1]) \in Nat
    BY <2>4, ListIs
  <2>9. Len(f[k - 1]) + m - Cardinality({}) = Len(f[k - 1]) + m
    BY <2>8, FS_EmptySet
  <2>. QED
    BY <2>5, <2>7, <2>9
<1>6. \A k \in 0..n : k \notin B
  <2>. HIDE DEF B
  <2>. QED
    BY <1>4, <1>5, CountingUp
<1>7. build_conversion_layout_rows(sections) = Till(n)
  BY DEF build_conversion_layout_rows, RowsOf, LayoutRow
<1>. HIDE DEF Till
<1>. QED
  BY <1>3, <1>6, <1>7

-----------------------------------------------------------------------------
(* Slices.                                                                 *)
\* What division leaves.
LEMMA Divided ==
    ASSUME NEW a \in Nat, NEW b \in Nat \ {0}
    PROVE  a \div b \in Nat /\ (a \div b) * b <= a /\ a < (a \div b) * b + b
  BY SMT

\* More times as much is no less.
LEMMA TimesGrows ==
    ASSUME NEW b \in Nat, NEW i \in Nat, NEW j \in Nat, i <= j
    PROVE  i * b <= j * b
  BY SMT

\* Once less.
LEMMA TimesBefore ==
    ASSUME NEW b \in Nat, NEW i \in Int
    PROVE  (i - 1) * b = i * b - b /\ i * b \in Int
  BY SMT

\* Every slice begins within the text, and every word is in a slice.
LEMMA SlicesBegin ==
    ASSUME NEW L \in Nat \ {0}, NEW s \in Nat \ {0}, NEW i \in 1..((L + s - 1) \div s)
    PROVE  (i - 1) * s + 1 <= L
<1>. PICK n \in Nat : n = (L + s - 1) \div s /\ n * s <= L + s - 1
  BY Divided
<1>1. i * s <= n * s
  BY TimesGrows
<1>. QED
  BY <1>1, TimesBefore

\* The slices reach the end of the text, and leave no gap.
LEMMA SlicesCover ==
    ASSUME NEW L \in Nat \ {0}, NEW s \in Nat \ {0}
    PROVE  /\ (L + s - 1) \div s \in Nat /\ ((L + s - 1) \div s) * s >= L
           /\ \A p \in 1..L : \E i \in 1..((L + s - 1) \div s) : (i - 1) * s < p /\ p <= (i - 1) * s + s
<1>. PICK n \in Nat : n = (L + s - 1) \div s /\ L + s - 1 < n * s + s /\ n * s \in Int
  BY Divided, TimesBefore
<1>1. \A p \in 1..L : \E i \in 1..n : (i - 1) * s < p /\ p <= (i - 1) * s + s
  <2>. SUFFICES ASSUME NEW p \in 1..L PROVE \E i \in 1..n : (i - 1) * s < p /\ p <= (i - 1) * s + s
    OBVIOUS
  <2>. PICK a \in Nat : a = p - 1
    OBVIOUS
  <2>. PICK q \in Nat : q = a \div s /\ q * s <= a /\ a < q * s + s
    BY Divided
  <2>1. q < n
    <3>. SUFFICES ASSUME n <= q PROVE FALSE
      OBVIOUS
    <3>1. n * s <= q * s
      BY TimesGrows
    <3>. PICK x \in Int, y \in Int : x = n * s /\ y = q * s
      BY TimesBefore
    <3>. QED
      BY <3>1
  <2>2. (q + 1) - 1 = q /\ q + 1 \in 1..n
    BY <2>1
  <2>3. ((q + 1) - 1) * s < p /\ p <= ((q + 1) - 1) * s + s
    <3>. PICK y \in Int : y = q * s
      BY TimesBefore
    <3>. QED
      BY <2>2
  <2>. QED
    BY <2>2, <2>3
<1>. QED
  BY <1>1

\* What joined lists hold.
LEMMA FlattenHolds ==
    ASSUME NEW S, NEW seqs \in Lists(Lists(S))
    PROVE  ToSet(FlattenSeq(seqs)) = UNION {ToSet(seqs[k]) : k \in 1..Len(seqs)}
<1>. PICK n \in Nat : n = Len(seqs) /\ \A k \in 1..n : seqs[k] \in Lists(S)
  BY ListIs
<1>1. PICK f \in [0..n -> Lists(S)] : Joins(f, seqs)
  BY JoinExists
<1>2. f[0] = Nothing /\ \A k \in 1..n : f[k] = f[k - 1] \o seqs[k]
  BY <1>1 DEF Joins
<1>3. FlattenSeq(seqs) = f[n]
  BY <1>1, FlattenIsJoin
<1>. DEFINE Till(k) == UNION {ToSet(seqs[j]) : j \in 1..k}
            B == {k \in 0..n : ToSet(f[k]) # Till(k)}
<1>4. B \subseteq 0..n /\ 0 \notin B
  <2>1. ToSet(Nothing) = {}
    <3>1. \A x \in ToSet(Nothing) : \E k \in 1..0 : x = Nothing[k]
      BY NothingList, WhatItHolds
    <3>. QED
      BY <3>1
  <2>2. Till(0) = {}
    OBVIOUS
  <2>. HIDE DEF Till
  <2>. QED
    BY <1>2, <2>1, <2>2
<1>5. ASSUME NEW k \in 1..n, k - 1 \notin B PROVE k \notin B
  <2>1. ToSet(f[k - 1]) = Till(k - 1) /\ f[k - 1] \in Lists(S)
    BY <1>5
  <2>2. Till(k) = Till(k - 1) \cup ToSet(seqs[k])
    <3>1. 1..k = (1..(k - 1)) \cup {k}
      OBVIOUS
    <3>. QED
      BY <3>1
  <2>3. ToSet(f[k - 1] \o seqs[k]) = ToSet(f[k - 1]) \cup ToSet(seqs[k])
    BY <2>1, HoldsBoth
  <2>. HIDE DEF Till
  <2>. QED
    BY <1>2, <2>1, <2>2, <2>3
<1>6. \A k \in 0..n : k \notin B
  <2>. HIDE DEF B
  <2>. QED
    BY <1>4, <1>5, CountingUp
<1>7. ToSet(f[n]) = Till(n)
  <2>. HIDE DEF Till
  <2>. QED
    BY <1>6
<1>. QED
  BY <1>3, <1>7

\* A part of a list.
LEMMA PartOf ==
    ASSUME NEW S, NEW s \in Lists(S), NEW a \in 1..Len(s), NEW b \in a..Len(s)
    PROVE  /\ SubSeq(s, a, b) \in Lists(S) /\ Len(SubSeq(s, a, b)) = b - a + 1
           /\ \A p \in 1..(b - a + 1) : SubSeq(s, a, b)[p] = s[a + p - 1]
<1>. PICK n \in Nat : n = Len(s)
  BY ListIs
<1>1. s \in Seq(S)
  BY DEF Lists
<1>2. SubSeq(s, a, b) \in Seq(S)
  BY <1>1
<1>3. Len(SubSeq(s, a, b)) = b - a + 1
  BY <1>1
<1>4. \A p \in 1..(b - a + 1) : SubSeq(s, a, b)[p] = s[a + p - 1]
  BY <1>1
<1>. QED
  BY <1>2, <1>3, <1>4 DEF Lists

\* The slices of a text over the budget are within it, and hold its words.
LEMMA SlicesHoldText ==
    ASSUME NEW S, NEW words \in Lists(S), NEW max \in Nat \ {0}, NEW overlap \in 0..(max - 1), Len(words) > max
    PROVE  LET slices == to_token_slices(words, max, overlap)
           IN  /\ slices \in Lists(Lists(S))
               /\ \A i \in 1..Len(slices) : Len(slices[i]) \in 1..max
               /\ ToSet(FlattenSeq(slices)) = ToSet(words)
               /\ overlap = 0 => FlattenSeq(slices) = words
<1>. PICK L \in Nat \ {0} : L = Len(words) /\ L > max
  BY ListIs
<1>. PICK step \in Nat \ {0} : step = max - overlap
  OBVIOUS
<1>0. \A i \in Int : (i - 1) * step = i * step - step /\ i * step \in Int
  BY TimesBefore
<1>0a. \A y \in Int : Min({L, y}) = IF L <= y THEN L ELSE y
  BY MinOfTwo
<1>. PICK n \in Nat : n = (L + step - 1) \div step /\ n * step >= L
  BY SlicesCover
<1>. DEFINE a(i) == (i - 1) * step + 1
            b(i) == Min({L, (i - 1) * step + max})
            slices == to_token_slices(words, max, overlap)
<1>1. slices = [i \in 1..n |-> SubSeq(words, a(i), b(i))]
  BY DEF to_token_slices
<1>2. \A i \in 1..n : /\ a(i) \in 1..L /\ b(i) \in a(i)..L /\ b(i) - a(i) + 1 \in 1..max
                      /\ b(i) = L \/ b(i) = (i - 1) * step + max
  <2>. SUFFICES ASSUME NEW i \in 1..n
                PROVE  /\ a(i) \in 1..L /\ b(i) \in a(i)..L /\ b(i) - a(i) + 1 \in 1..max
                       /\ b(i) = L \/ b(i) = (i - 1) * step + max
    OBVIOUS
  <2>. PICK j \in Nat : j = i - 1
    OBVIOUS
  <2>. PICK x \in Nat : x = j * step
    BY TimesBefore, TimesGrows, SMT
  <2>1. x + 1 <= L
    BY SlicesBegin
  <2>2. Min({L, x + max}) = IF L <= x + max THEN L ELSE x + max
    BY MinOfTwo
  <2>3. a(i) = x + 1 /\ b(i) = Min({L, x + max})
    OBVIOUS
  <2>. QED
    BY <2>1, <2>2, <2>3
<1>. HIDE DEF b, slices
<1>3. \A i \in 1..n : /\ slices[i] \in Lists(S) /\ Len(slices[i]) = b(i) - a(i) + 1
                      /\ \A p \in 1..(b(i) - a(i) + 1) : slices[i][p] = words[a(i) + p - 1]
  <2>. HIDE DEF a
  <2>. SUFFICES ASSUME NEW i \in 1..n
                PROVE  /\ slices[i] \in Lists(S) /\ Len(slices[i]) = b(i) - a(i) + 1
                       /\ \A p \in 1..(b(i) - a(i) + 1) : slices[i][p] = words[a(i) + p - 1]
    OBVIOUS
  <2>. PICK x \in 1..L : x = a(i)
    BY <1>2
  <2>. PICK y \in x..L : y = b(i)
    BY <1>2
  <2>1. slices[i] = SubSeq(words, x, y)
    BY <1>1
  <2>2. x \in 1..Len(words) /\ y \in x..Len(words)
    OBVIOUS
  <2>3. /\ SubSeq(words, x, y) \in Lists(S) /\ Len(SubSeq(words, x, y)) = y - x + 1
        /\ \A p \in 1..(y - x + 1) : SubSeq(words, x, y)[p] = words[x + p - 1]
    BY ONLY <2>2, words \in Lists(S), PartOf, Zenon
  <2>5. x = a(i) /\ y = b(i)
    OBVIOUS
  <2>. QED
    BY ONLY <2>1, <2>3, <2>5, Zenon
<1>4. slices \in Lists(Lists(S)) /\ Len(slices) = n
  <2>. HIDE DEF a
  <2>1. slices \in [1..n -> Lists(S)]
    <3>1. DOMAIN slices = 1..n /\ slices = [i \in 1..n |-> slices[i]]
      BY <1>1
    <3>. QED
      BY <1>3, <3>1
  <2>. QED
    BY <2>1, ListOf
<1>5. \A i \in 1..n : Len(slices[i]) \in 1..max
  <2>. HIDE DEF a
  <2>. QED
    BY <1>2, <1>3
<1>6. ToSet(FlattenSeq(slices)) = ToSet(words)
  <2>1. ToSet(FlattenSeq(slices)) = UNION {ToSet(slices[i]) : i \in 1..n}
    BY <1>4, FlattenHolds
  <2>2. ASSUME NEW i \in 1..n, NEW w \in ToSet(slices[i]) PROVE w \in ToSet(words)
    <3>. HIDE DEF a
    <3>2. PICK p \in 1..(b(i) - a(i) + 1) : w = slices[i][p]
      <4>. PICK t \in Lists(S) : t = slices[i] /\ Len(t) = b(i) - a(i) + 1
        BY <1>3
      <4>1. \E p \in 1..Len(t) : w = t[p]
        BY WhatItHolds
      <4>. QED
        BY <4>1
    <3>. PICK x \in 1..L, y \in 1..L : x = a(i) /\ y = b(i)
      BY <1>2
    <3>. PICK q : q = x + p - 1
      OBVIOUS
    <3>3. q \in 1..L
      BY ONLY q = x + p - 1, p \in 1..(y - x + 1), x \in 1..L, y \in 1..L, L \in Nat
    <3>4. w = words[q]
      BY <1>3, <3>2
    <3>. QED
      BY ONLY <3>3, <3>4, L = Len(words), words \in Lists(S), WhatItHolds
  <2>3. ASSUME NEW w \in ToSet(words) PROVE \E i \in 1..n : w \in ToSet(slices[i])
    <3>. PICK p \in 1..L : w = words[p]
      BY WhatItHolds
    <3>. PICK i \in 1..n : (i - 1) * step < p /\ p <= (i - 1) * step + step
      BY SlicesCover
    <3>. PICK x \in Int : x = (i - 1) * step
      BY TimesBefore
    <3>1. x < p /\ p <= x + step /\ a(i) = x + 1 /\ (b(i) = L \/ b(i) = x + max)
      BY <1>2
    <3>2. p <= b(i) /\ b(i) \in Int
      BY <1>2, <3>1
    <3>. PICK q \in 1..(b(i) - a(i) + 1) : a(i) + q - 1 = p
      <4>1. p - x \in 1..(b(i) - a(i) + 1) /\ a(i) + (p - x) - 1 = p
        BY <3>1, <3>2
      <4>. QED
        BY <4>1
    <3>. HIDE DEF a
    <3>3. w = slices[i][q] /\ q \in 1..Len(slices[i]) /\ slices[i] \in Lists(S)
      BY <1>3
    <3>4. w \in ToSet(slices[i])
      <4>. PICK t \in Lists(S) : t = slices[i]
        BY <3>3
      <4>1. t[q] \in ToSet(t)
        BY <3>3, WhatItHolds
      <4>. QED
        BY <3>3, <4>1
    <3>. QED
      BY <3>4
  <2>4. \A w : w \in UNION {ToSet(slices[i]) : i \in 1..n} <=> \E i \in 1..n : w \in ToSet(slices[i])
    BY Zenon
  <2>5. \A w : w \in ToSet(FlattenSeq(slices)) <=> w \in ToSet(words)
    BY <2>1, <2>2, <2>3, <2>4, Zenon
  <2>. QED
    BY <2>5, Zenon
<1>7. ASSUME overlap = 0 PROVE FlattenSeq(slices) = words
  <2>0. step = max
    BY <1>7
  <2>1. PICK f \in [0..n -> Lists(S)] : Joins(f, slices)
    BY <1>4, JoinExists
  <2>2. f[0] = Nothing /\ \A k \in 1..n : f[k] = f[k - 1] \o slices[k]
    BY <1>4, <2>1 DEF Joins
  <2>3. FlattenSeq(slices) = f[n]
    BY <1>4, <2>1, FlattenIsJoin
  <2>. DEFINE B == {k \in 0..n : k # 0 /\ f[k] # SubSeq(words, 1, b(k))}
  <2>4. B \subseteq 0..n /\ 0 \notin B
    OBVIOUS
  <2>5. ASSUME NEW k \in 1..n, k - 1 \notin B PROVE k \notin B
    <3>0. slices[k] = SubSeq(words, a(k), b(k))
      BY <1>1
    <3>1. CASE k = 1
      <4>1. f[k - 1] = Nothing /\ a(k) = 1
        BY <2>2, <3>1
      <4>2. Nothing \o slices[k] = slices[k]
        BY <1>3, NothingList
      <4>3. f[k] = slices[k]
        BY <2>2, <4>1, <4>2
      <4>. HIDE DEF a
      <4>. QED
        BY <3>0, <4>1, <4>3
    <3>2. CASE k # 1
      <4>. PICK j \in 1..n : j = k - 1
        BY <3>2
      <4>1. f[j] = SubSeq(words, 1, b(j))
        BY <2>5
      <4>2. b(j) + 1 = a(k)
        <5>. PICK x \in Int, y \in Int : x = (j - 1) * step /\ y = j * step
          BY TimesBefore
        <5>1. x = y - step
          BY TimesBefore
        <5>2. a(k) = y + 1 /\ a(k) <= L
          BY <1>2
        <5>. PICK v \in Int : v = x + max
          OBVIOUS
        <5>3. b(j) = Min({L, v})
          BY DEF b
        <5>4. Min({L, v}) = IF L <= v THEN L ELSE v
          BY ONLY <1>0a, v \in Int
        <5>. HIDE DEF a
        <5>. QED
          BY <2>0, <5>1, <5>2, <5>3, <5>4
      <4>3. b(j) \in 1..L /\ b(k) \in b(j)..L
        <5>. HIDE DEF a
        <5>1. b(j) \in a(j)..L /\ a(j) \in 1..L /\ b(k) \in a(k)..L
          BY <1>2
        <5>. QED
          BY <4>2, <5>1
      <4>4. SubSeq(words, 1, b(j)) \o SubSeq(words, b(j) + 1, b(k)) = SubSeq(words, 1, b(k))
        <5>1. words \in Seq(S)
          BY DEF Lists
        <5>2. 1 \in 1..(Len(words) + 1) /\ b(j) \in (1 - 1)..Len(words) /\ b(k) \in b(j)..Len(words)
          BY <4>3
        <5>. QED
          BY <5>1, <5>2, ConcatAdjacentSubSeq, Zenon
      <4>5. f[k] = f[j] \o slices[k]
        BY <2>2
      <4>. HIDE DEF a
      <4>. QED
        BY <3>0, <4>1, <4>2, <4>4, <4>5
    <3>. QED
      BY <3>1, <3>2
  <2>6. \A k \in 0..n : k \notin B
    <3>. HIDE DEF B
    <3>. QED
      BY <2>4, <2>5, CountingUp
  <2>7. n # 0 /\ b(n) = L
    <3>. PICK x \in Int, y \in Int : x = (n - 1) * step /\ y = n * step
      BY TimesBefore
    <3>1. x = y - step /\ y >= L
      <4>0. n \in Int
        OBVIOUS
      <4>1. (n - 1) * step = n * step - step
        BY <1>0, <4>0, Zenon
      <4>. QED
        BY <4>1
    <3>2. n # 0
      <4>. SUFFICES ASSUME n = 0 PROVE FALSE
        OBVIOUS
      <4>1. n * step = 0
        OBVIOUS
      <4>. QED
        BY <4>1
    <3>3. b(n) = Min({L, x + max})
      BY DEF b
    <3>4. Min({L, x + max}) = IF L <= x + max THEN L ELSE x + max
      <4>. PICK z \in Int : z = x + max
        OBVIOUS
      <4>1. Min({L, z}) = IF L <= z THEN L ELSE z
        BY <1>0a
      <4>. QED
        BY <4>1
    <3>. QED
      BY <2>0, <3>1, <3>2, <3>3, <3>4
  <2>8. f[n] = SubSeq(words, 1, L)
    BY <2>6, <2>7
  <2>9. SubSeq(words, 1, L) = words
    BY SubSeqFull DEF Lists
  <2>. QED
    BY <2>3, <2>8, <2>9
<1>. QED
  BY <1>4, <1>5, <1>6, <1>7 DEF slices

-----------------------------------------------------------------------------
(* The chunks of a text.                                                   *)
\* Chunks within the budget, and a buffer within it.
Cuts(S, max) ==
    {s \in [chunks : Lists(Lists(S)), buffer : Lists(S)] :
        Len(s.buffer) <= max /\ \A i \in 1..Len(s.chunks) : Len(s.chunks[i]) \in 1..max}

\* The words taken so far.
Taken(s) == FlattenSeq(s.chunks) \o s.buffer

\* They are words.
LEMMA TakenType == ASSUME NEW S, NEW max, NEW s \in Cuts(S, max) PROVE Taken(s) \in Lists(S)
<1>1. FlattenSeq(s.chunks) \in Lists(S) /\ s.buffer \in Lists(S)
  BY FlattenType DEF Cuts
<1>. QED
  BY <1>1, ListsJoin DEF Taken

\* Chunks that are added are within the budget when the others are.
LEMMA ChunkAdded ==
    ASSUME NEW S, NEW max, NEW chunks \in Lists(Lists(S)), NEW more \in Lists(Lists(S)),
           \A i \in 1..Len(chunks) : Len(chunks[i]) \in 1..max,
           \A i \in 1..Len(more) : Len(more[i]) \in 1..max
    PROVE  /\ chunks \o more \in Lists(Lists(S))
           /\ \A i \in 1..Len(chunks \o more) : Len((chunks \o more)[i]) \in 1..max
<1>. PICK T : T = Lists(S)
  OBVIOUS
<1>. PICK m \in Nat, n \in Nat : m = Len(chunks) /\ n = Len(more)
  BY ListIs
<1>. PICK c : c = chunks \o more
  OBVIOUS
<1>1. c \in Lists(T) /\ Len(c) = m + n /\ \A k \in 1..(m + n) : c[k] = IF k <= m THEN chunks[k] ELSE more[k - m]
  BY ListsJoin
<1>2. ASSUME NEW k \in 1..(m + n) PROVE Len(c[k]) \in 1..max
  <2>1. CASE k <= m
    BY <1>1, <2>1
  <2>2. CASE ~(k <= m)
    <3>1. k - m \in 1..n
      BY <2>2
    <3>. QED
      BY <1>1, <2>2, <3>1
  <2>. QED
    BY <2>1, <2>2
<1>. QED
  BY <1>1, <1>2

\* What is flushed is not lost.
LEMMA Flushed ==
    ASSUME NEW S, NEW max \in Nat, NEW least, NEW s \in Cuts(S, max)
    PROVE  LET t == Flush(s, least)
           IN  t \in Cuts(S, max) /\ t.buffer = Nothing /\ Taken(t) = Taken(s)
<1>. PICK chunks \in Lists(Lists(S)), buffer \in Lists(S) : chunks = s.chunks /\ buffer = s.buffer
  BY DEF Cuts
<1>0. Len(buffer) \in Nat /\ Len(buffer) <= max /\ \A i \in 1..Len(chunks) : Len(chunks[i]) \in 1..max
  BY ListIs DEF Cuts
<1>1. CASE buffer = Nothing
  BY <1>1 DEF Flush, Nothing
<1>2. CASE buffer # Nothing
  <2>. PICK t : t = [chunks |-> Append(chunks, buffer), buffer |-> Nothing]
    OBVIOUS
  <2>1. Flush(s, least) = t
    BY <1>2 DEF Flush, Nothing
  <2>2. Len(buffer) \in 1..max
    BY <1>0, <1>2, NothingList
  <2>3. /\ <<buffer>> \in Lists(Lists(S)) /\ Append(chunks, buffer) = chunks \o <<buffer>>
        /\ Len(<<buffer>>) = 1 /\ <<buffer>>[1] = buffer
    BY GrowIsJoin, ListOfOne
  <2>4. \A i \in 1..Len(<<buffer>>) : Len(<<buffer>>[i]) \in 1..max
    <3>1. \A i \in 1..1 : i = 1
      OBVIOUS
    <3>. QED
      BY <2>2, <2>3, <3>1
  <2>. PICK one \in Lists(Lists(S)) : one = <<buffer>>
    BY <2>3
  <2>5. /\ chunks \o one \in Lists(Lists(S))
        /\ \A i \in 1..Len(chunks \o one) : Len((chunks \o one)[i]) \in 1..max
    BY <1>0, <2>4, ChunkAdded
  <2>6. t \in Cuts(S, max)
    <3>1. t.chunks = chunks \o one /\ t.buffer = Nothing
      BY <2>3
    <3>2. t \in [chunks : Lists(Lists(S)), buffer : Lists(S)]
      BY <2>3, <2>5, NothingList
    <3>3. Len(t.buffer) <= max
      BY <3>1, NothingList
    <3>. QED
      BY <2>5, <3>1, <3>2, <3>3 DEF Cuts
  <2>7. Taken(t) = Taken(s)
    <3>1. FlattenSeq(Append(chunks, buffer)) = FlattenSeq(chunks) \o buffer
      BY FlattenAppend
    <3>2. FlattenSeq(chunks) \o buffer \in Lists(S)
      BY FlattenType, ListsJoin
    <3>. PICK all \in Lists(S) : all = FlattenSeq(chunks) \o buffer
      BY <3>2
    <3>3. all \o Nothing = all
      BY NothingList
    <3>. QED
      BY <3>1, <3>3 DEF Taken
  <2>. QED
    BY <2>1, <2>6, <2>7
<1>. QED
  BY <1>1, <1>2

\* What a text adds.
LEMMA TextAdded ==
    ASSUME NEW S, NEW max \in Nat \ {0}, NEW least, NEW overlap \in 0..(max - 1),
           NEW s \in Cuts(S, max), NEW words \in Lists(S)
    PROVE  LET t == AddText(s, words, least, max, overlap)
           IN  /\ t \in Cuts(S, max)
               /\ ToSet(Taken(t)) = ToSet(Taken(s)) \cup ToSet(words)
               /\ overlap = 0 => Taken(t) = Taken(s) \o words
<1>0. \A x, y, z \in Lists(S) : x \o (y \o z) = (x \o y) \o z
  BY Associates
<1>. PICK flushed \in Cuts(S, max) : flushed = Flush(s, least) /\ flushed.buffer = Nothing /\ Taken(flushed) = Taken(s)
  BY Flushed
<1>1. Len(words) \in Nat
  BY ListIs
<1>2. CASE Len(words) > max
  <2>. PICK slices \in Lists(Lists(S)) :
         /\ slices = to_token_slices(words, max, overlap)
         /\ \A i \in 1..Len(slices) : Len(slices[i]) \in 1..max
         /\ ToSet(FlattenSeq(slices)) = ToSet(words)
         /\ overlap = 0 => FlattenSeq(slices) = words
    BY <1>2, SlicesHoldText
  <2>. PICK chunks \in Lists(Lists(S)) : /\ chunks = flushed.chunks /\ Len(flushed.buffer) <= max
                                         /\ \A i \in 1..Len(chunks) : Len(chunks[i]) \in 1..max
    BY DEF Cuts
  <2>. PICK t : t = [chunks |-> chunks \o slices, buffer |-> Nothing]
    OBVIOUS
  <2>1. AddText(s, words, least, max, overlap) = t
    <3>1. AddText(s, words, least, max, overlap) = [flushed EXCEPT !.chunks = @ \o slices]
      BY <1>2 DEF AddText
    <3>2. flushed = [chunks |-> chunks, buffer |-> Nothing]
      BY DEF Cuts
    <3>. QED
      BY <3>1, <3>2
  <2>2. /\ chunks \o slices \in Lists(Lists(S))
        /\ \A i \in 1..Len(chunks \o slices) : Len((chunks \o slices)[i]) \in 1..max
    BY ChunkAdded
  <2>3. t \in Cuts(S, max)
    BY <2>2, NothingList DEF Cuts
  <2>. PICK x \in Lists(S), y \in Lists(S) : x = FlattenSeq(chunks) /\ y = FlattenSeq(slices)
    BY FlattenType
  <2>4. Taken(s) = x
    <3>1. x \o Nothing = x
      BY NothingList
    <3>. QED
      BY <3>1 DEF Taken
  <2>5. Taken(t) = x \o y
    <3>1. FlattenSeq(chunks \o slices) = x \o y
      BY FlattenConcat
    <3>2. (x \o y) \o Nothing = x \o y
      <4>. PICK z \in Lists(S) : z = x \o y
        BY ListsJoin
      <4>. QED
        BY NothingList
    <3>. QED
      BY <3>1, <3>2 DEF Taken
  <2>6. ToSet(x \o y) = ToSet(x) \cup ToSet(y)
    BY HoldsBoth
  <2>. QED
    BY <2>1, <2>3, <2>4, <2>5, <2>6
<1>3. CASE ~(Len(words) > max)
  <2>. DEFINE room == IF Len(s.buffer) + Len(words) > max THEN flushed ELSE s
              with == [room EXCEPT !.buffer = @ \o words]
  <2>1. room \in Cuts(S, max) /\ Taken(room) = Taken(s) /\ Len(room.buffer) + Len(words) <= max
    <3>1. CASE Len(s.buffer) + Len(words) > max
      BY <1>1, <1>3, <3>1, NothingList
    <3>2. CASE ~(Len(s.buffer) + Len(words) > max)
      <4>1. Len(s.buffer) \in Nat
        BY ListIs DEF Cuts
      <4>. QED
        BY <1>1, <3>2, <4>1
    <3>. QED
      BY <3>1, <3>2
  <2>2. AddText(s, words, least, max, overlap) = IF Len(with.buffer) >= least THEN Flush(with, least) ELSE with
    BY <1>3 DEF AddText
  <2>. PICK r \in Cuts(S, max) : r = room
    BY <2>1
  <2>. HIDE DEF room
  <2>. PICK chunks \in Lists(Lists(S)), buffer \in Lists(S) : chunks = r.chunks /\ buffer = r.buffer
    BY DEF Cuts
  <2>3. with = [chunks |-> chunks, buffer |-> buffer \o words]
    <3>1. r = [chunks |-> chunks, buffer |-> buffer]
      BY DEF Cuts
    <3>. PICK u : u = buffer \o words
      OBVIOUS
    <3>2. with = [r EXCEPT !.buffer = u]
      OBVIOUS
    <3>. HIDE DEF with
    <3>. QED
      BY <3>1, <3>2
  <2>. HIDE DEF with
  <2>4. buffer \o words \in Lists(S) /\ Len(buffer \o words) = Len(buffer) + Len(words)
    BY ListsJoin
  <2>5. with \in Cuts(S, max)
    BY <2>1, <2>3, <2>4 DEF Cuts
  <2>. PICK x \in Lists(S) : x = FlattenSeq(chunks)
    BY FlattenType
  <2>6. Taken(with) = Taken(s) \o words
    <3>1. Taken(with) = x \o (buffer \o words) /\ Taken(s) = x \o buffer
      BY <2>1, <2>3 DEF Taken
    <3>0. x \in Lists(S) /\ buffer \in Lists(S) /\ words \in Lists(S)
      OBVIOUS
    <3>2. x \o (buffer \o words) = (x \o buffer) \o words
      BY ONLY <1>0, <3>0
    <3>. QED
      BY <3>1, <3>2
  <2>7. ToSet(Taken(s) \o words) = ToSet(Taken(s)) \cup ToSet(words)
    BY TakenType, HoldsBoth
  <2>8. Flush(with, least) \in Cuts(S, max) /\ Taken(Flush(with, least)) = Taken(with)
    BY <2>5, Flushed
  <2>. QED
    BY <2>2, <2>5, <2>6, <2>7, <2>8
<1>. QED
  BY <1>2, <1>3

\* The chunks of a list of texts are within the budget, and hold the texts.
LEMMA TextsCut ==
    ASSUME NEW S, NEW texts \in Lists(Lists(S)), NEW least, NEW max \in Nat \ {0}, NEW overlap \in 0..(max - 1)
    PROVE  LET chunks == split_text_blocks(texts, least, max, overlap)
           IN  /\ chunks \in Lists(Lists(S))
               /\ \A i \in 1..Len(chunks) : Len(chunks[i]) \in 1..max
               /\ ToSet(FlattenSeq(chunks)) = ToSet(FlattenSeq(texts))
               /\ overlap = 0 => FlattenSeq(chunks) = FlattenSeq(texts)
<1>. PICK n \in Nat : n = Len(texts) /\ \A k \in 1..n : texts[k] \in Lists(S)
  BY ListIs
<1>. DEFINE T == Cuts(S, max)
            none == [chunks |-> <<>>, buffer |-> <<>>]
            Runs(f) == f = [k \in 0..n |-> IF k = 0 THEN none
                                           ELSE AddText(f[k - 1], texts[k], least, max, overlap)]
            step == [x \in (1..n) \X T |-> AddText(x[2], texts[x[1]], least, max, overlap)]
<1>1. none \in T /\ Taken(none) = Nothing
  <2>1. none = [chunks |-> Nothing, buffer |-> Nothing]
    BY DEF Nothing
  <2>. HIDE DEF none
  <2>2. Nothing \in Lists(S) /\ Nothing \in Lists(Lists(S)) /\ Len(Nothing) = 0
    BY NothingList
  <2>3. none \in T
    BY <2>1, <2>2 DEF Cuts
  <2>4. FlattenSeq(Nothing) = Nothing /\ Nothing \o Nothing = Nothing
    BY <2>2, NothingList, FlattenNothing
  <2>. QED
    BY <2>1, <2>3, <2>4 DEF Taken
<1>2. step \in [(1..n) \X T -> T]
  <2>1. \A k \in 1..n, t \in T : AddText(t, texts[k], least, max, overlap) \in T
    BY TextAdded
  <2>. HIDE DEF T
  <2>. QED
    BY <2>1
<1>3. \A k \in 1..n, t \in T : step[<<k, t>>] = AddText(t, texts[k], least, max, overlap)
  OBVIOUS
<1>. HIDE DEF T, step, none
<1>4. PICK f \in [0..n -> T] : Follows(f, n, none, step)
  BY <1>1, <1>2, n \in Nat, RunExists, Zenon
<1>5. Runs(f)
  <2>1. f[0] = none
    BY <1>4 DEF Follows
  <2>2. \A k \in 1..n : f[k] = AddText(f[k - 1], texts[k], least, max, overlap)
    <3>. SUFFICES ASSUME NEW k \in 1..n PROVE f[k] = AddText(f[k - 1], texts[k], least, max, overlap)
      OBVIOUS
    <3>1. f[k - 1] \in T
      OBVIOUS
    <3>2. f[k] = step[<<k, f[k - 1]>>]
      BY <1>4 DEF Follows
    <3>. QED
      BY <1>3, <3>1, <3>2
  <2>3. f = [k \in 0..n |-> f[k]]
    OBVIOUS
  <2>4. \A k \in 0..n : k = 0 \/ k \in 1..n
    OBVIOUS
  <2>5. \A k \in 0..n : f[k] = IF k = 0 THEN none ELSE AddText(f[k - 1], texts[k], least, max, overlap)
    BY <2>1, <2>2, <2>4
  <2>. QED
    BY <2>3, <2>5
<1>6. split_text_blocks(texts, least, max, overlap) = Flush((CHOOSE e : Runs(e))[n], least).chunks
  BY DEF split_text_blocks, none
<1>7. PICK e : Runs(e) /\ split_text_blocks(texts, least, max, overlap) = Flush(e[n], least).chunks
  BY <1>5, <1>6
<1>8. e[0] = none /\ \A k \in 1..n : e[k] = AddText(e[k - 1], texts[k], least, max, overlap)
  <2>1. e = [k \in 0..n |-> IF k = 0 THEN none ELSE AddText(e[k - 1], texts[k], least, max, overlap)]
    BY <1>7
  <2>. HIDE DEF Runs
  <2>2. \A k \in 0..n : e[k] = IF k = 0 THEN none ELSE AddText(e[k - 1], texts[k], least, max, overlap)
    BY <2>1
  <2>3. 0 \in 0..n /\ \A k \in 1..n : k \in 0..n /\ k # 0
    OBVIOUS
  <2>. QED
    BY <2>2, <2>3
<1>. HIDE DEF Runs
<1>9. PICK g \in [0..n -> Lists(S)] : Joins(g, texts)
  BY JoinExists
<1>10. g[0] = Nothing /\ \A k \in 1..n : g[k] = g[k - 1] \o texts[k]
  BY <1>9 DEF Joins
<1>11. FlattenSeq(texts) = g[n]
  BY <1>9, FlattenIsJoin
<1>. DEFINE Held(k) == /\ e[k] \in T /\ ToSet(Taken(e[k])) = ToSet(g[k])
                       /\ overlap = 0 => Taken(e[k]) = g[k]
            B == {k \in 0..n : ~Held(k)}
<1>12. B \subseteq 0..n /\ 0 \notin B
  BY <1>1, <1>8, <1>10
<1>13. ASSUME NEW k \in 1..n, k - 1 \notin B PROVE k \notin B
  <2>1. k - 1 \in 0..n /\ Held(k - 1)
    BY <1>13
  <2>. PICK t \in Cuts(S, max), w \in Lists(S), x \in Lists(S) : t = e[k - 1] /\ w = texts[k] /\ x = g[k - 1]
    BY <2>1 DEF T
  <2>2. LET u == AddText(t, w, least, max, overlap)
        IN  /\ u \in T
            /\ ToSet(Taken(u)) = ToSet(Taken(t)) \cup ToSet(w)
            /\ overlap = 0 => Taken(u) = Taken(t) \o w
    BY TextAdded DEF T
  <2>3. e[k] = AddText(t, w, least, max, overlap) /\ g[k] = x \o w
    BY <1>8, <1>10
  <2>4. ToSet(x \o w) = ToSet(x) \cup ToSet(w)
    BY HoldsBoth
  <2>5. Held(k)
    BY <2>1, <2>2, <2>3, <2>4
  <2>. QED
    BY <2>5
<1>14. \A k \in 0..n : k \notin B
  <2>. HIDE DEF B
  <2>. QED
    BY <1>12, <1>13, CountingUp
<1>15. Held(n)
  <2>. HIDE DEF Held
  <2>. QED
    BY <1>14
<1>. PICK s \in Cuts(S, max) : s = e[n]
  BY <1>15 DEF T
<1>. PICK t \in Cuts(S, max) : t = Flush(s, least) /\ t.buffer = Nothing /\ Taken(t) = Taken(s)
  BY Flushed
<1>. PICK chunks \in Lists(Lists(S)) : chunks = t.chunks /\ \A i \in 1..Len(chunks) : Len(chunks[i]) \in 1..max
  BY DEF Cuts
<1>16. Taken(t) = FlattenSeq(chunks)
  <2>. PICK x \in Lists(S) : x = FlattenSeq(chunks)
    BY FlattenType
  <2>1. x \o Nothing = x
    BY NothingList
  <2>. QED
    BY <2>1 DEF Taken
<1>17. split_text_blocks(texts, least, max, overlap) = chunks
  BY <1>7
<1>. QED
  BY <1>11, <1>15, <1>16, <1>17

-----------------------------------------------------------------------------
(* The tokens of rows.                                                     *)
\* Tokens are counted.
LEMMA TokensCounted ==
    ASSUME NEW S, NEW words \in Lists(S)
    PROVE  /\ IsFiniteSet({i \in DOMAIN words : words[i] # ""})
           /\ estimate_text_tokens(words) \in Nat
<1>. PICK n \in Nat : n = Len(words) /\ DOMAIN words = 1..n
  BY ListIs
<1>1. IsFiniteSet(1..n)
  BY FS_Interval
<1>. DEFINE A == {i \in DOMAIN words : words[i] # ""}
<1>2. A \subseteq 1..n
  OBVIOUS
<1>3. estimate_text_tokens(words) = Cardinality(A)
  BY DEF estimate_text_tokens
<1>. HIDE DEF A
<1>4. IsFiniteSet(A)
  BY <1>1, <1>2, FS_Subset
<1>5. Cardinality(A) \in Nat
  BY <1>4, FS_CardinalityType
<1>. QED
  BY <1>3, <1>4, <1>5 DEF A

\* The tokens of two lists joined are the tokens of both.
LEMMA TokensAdd ==
    ASSUME NEW S, NEW s \in Lists(S), NEW t \in Lists(S)
    PROVE  estimate_text_tokens(s \o t) = estimate_text_tokens(s) + estimate_text_tokens(t)
<1>. PICK m \in Nat, n \in Nat : m = Len(s) /\ n = Len(t) /\ DOMAIN s = 1..m /\ DOMAIN t = 1..n
  BY ListIs
<1>. PICK c \in Lists(S) : c = s \o t
  BY ListsJoin
<1>1. DOMAIN c = 1..(m + n) /\ \A k \in 1..(m + n) : c[k] = IF k <= m THEN s[k] ELSE t[k - m]
  BY ListsJoin, ListIs
<1>. DEFINE A == {i \in 1..m : s[i] # ""}
            B == {i \in 1..n : t[i] # ""}
            C == {i \in 1..(m + n) : c[i] # ""}
            D == {i \in (m + 1)..(m + n) : t[i - m] # ""}
            f == [i \in B |-> i + m]
<1>2. /\ estimate_text_tokens(s) = Cardinality(A) /\ estimate_text_tokens(t) = Cardinality(B)
      /\ estimate_text_tokens(c) = Cardinality(C)
  BY <1>1 DEF estimate_text_tokens
<1>3. /\ IsFiniteSet(A) /\ IsFiniteSet(B) /\ estimate_text_tokens(s) \in Nat /\ estimate_text_tokens(t) \in Nat
  BY TokensCounted
<1>4. A \cap D = {}
  <2>1. \A i \in 1..m : i \notin (m + 1)..(m + n)
    OBVIOUS
  <2>. QED
    BY <2>1, Zenon
<1>5. C = A \cup D
  <2>1. \A i \in 1..m : i \in 1..(m + n) /\ i \notin (m + 1)..(m + n) /\ c[i] = s[i]
    BY <1>1
  <2>2. \A i \in (m + 1)..(m + n) : i \in 1..(m + n) /\ i \notin 1..m /\ c[i] = t[i - m]
    BY <1>1
  <2>3. \A i \in 1..(m + n) : i \in 1..m \/ i \in (m + 1)..(m + n)
    OBVIOUS
  <2>4. \A i : i \in C <=> i \in A \/ i \in D
    BY <2>1, <2>2, <2>3, Zenon
  <2>. QED
    BY <2>4, Zenon
<1>6. f \in Bijection(B, D)
  <2>1. f \in [B -> D]
    <3>1. \A i \in B : i + m \in D
      <4>. SUFFICES ASSUME NEW i \in B PROVE i + m \in D
        OBVIOUS
      <4>0. i \in 1..n /\ t[i] # ""
        BY Zenon
      <4>. HIDE DEF B
      <4>1. i + m \in (m + 1)..(m + n) /\ (i + m) - m = i
        <5>1. i \in 1..n /\ m \in Nat /\ n \in Nat
          BY <4>0, Zenon
        <5>. QED
          BY ONLY <5>1
      <4>. QED
        BY <4>0, <4>1, Zenon
    <3>. HIDE DEF B, D
    <3>. QED
      BY <3>1
  <2>2. \A i, j \in B : f[i] = f[j] => i = j
    <3>1. \A i \in B : i \in 1..n /\ f[i] = i + m
      BY Zenon
    <3>2. \A i \in 1..n : i \in Int
      OBVIOUS
    <3>. HIDE DEF B, f
    <3>. QED
      BY <3>1, <3>2
  <2>3. \A d \in D : \E i \in B : f[i] = d
    <3>. SUFFICES ASSUME NEW d \in D PROVE \E i \in B : f[i] = d
      OBVIOUS
    <3>0. d \in (m + 1)..(m + n) /\ t[d - m] # ""
      BY Zenon
    <3>. HIDE DEF D
    <3>1. d - m \in 1..n /\ (d - m) + m = d
      <4>1. d \in (m + 1)..(m + n) /\ m \in Nat /\ n \in Nat
        BY <3>0, Zenon
      <4>. QED
        BY ONLY <4>1
    <3>2. d - m \in B
      BY <3>0, <3>1, Zenon
    <3>3. f[d - m] = (d - m) + m
      BY <3>2, Zenon
    <3>. QED
      BY <3>1, <3>2, <3>3, Zenon
  <2>. HIDE DEF f, B, D
  <2>. QED
    BY <2>1, <2>2, <2>3 DEF Bijection, Injection, Surjection, IsInjective
<1>. HIDE DEF A, B, C, D, f
<1>7. IsFiniteSet(D) /\ Cardinality(D) = Cardinality(B)
  BY <1>3, <1>6, FS_Bijection DEF ExistsBijection
<1>8. Cardinality(A \cup D) = Cardinality(A) + Cardinality(D) - Cardinality(A \cap D)
  BY <1>3, <1>7, FS_Union
<1>9. Cardinality(A \cap D) = 0
  BY <1>4, FS_EmptySet
<1>. QED
  BY <1>2, <1>3, <1>5, <1>7, <1>8, <1>9

\* The rows of a table are under its header.
LEMMA Headed ==
    ASSUME NEW S, NEW head \in S, NEW rows \in Lists(S)
    PROVE  /\ <<head>> \o rows \in Lists(S) /\ (<<head>> \o rows)[1] = head
           /\ Tail(<<head>> \o rows) = rows
<1>1. rows \in Seq(S)
  BY DEF Lists
<1>2. <<head>> \o rows \in Seq(S) /\ (<<head>> \o rows)[1] = head
  BY <1>1
<1>3. Tail(<<head>> \o rows) = rows
  BY <1>1
<1>. QED
  BY <1>2, <1>3 DEF Lists

\* A table that has a header is its header and its rows.
LEMMA Beheaded ==
    ASSUME NEW S, NEW table \in Lists(S), Len(table) >= 1
    PROVE  /\ table[1] \in S /\ Tail(table) \in Lists(S) /\ Len(Tail(table)) = Len(table) - 1
           /\ table = <<table[1]>> \o Tail(table)
           /\ \A k \in 1..(Len(table) - 1) : Tail(table)[k] = table[k + 1]
<1>1. table \in Seq(S)
  BY DEF Lists
<1>. PICK n \in Nat : n = Len(table)
  BY ListIs
<1>2. table[1] \in S
  BY <1>1
<1>3. Tail(table) \in Seq(S)
  BY <1>1
<1>4. Len(Tail(table)) = n - 1
  BY <1>1
<1>5. \A k \in 1..(n - 1) : Tail(table)[k] = table[k + 1]
  BY <1>1
<1>6. table = <<table[1]>> \o Tail(table)
  BY <1>1
<1>. QED
  BY <1>2, <1>3, <1>4, <1>5, <1>6 DEF Lists

\* Rows within the budget, unless there is only one.
Fits(rows, budget) == Len(rows) > 1 => estimate_text_tokens(FlattenSeq(rows)) <= budget

Pieces(S, budget) ==
    {s \in [parts : Lists(Lists(Lists(S))), rows : Lists(Lists(S))] :
        Fits(s.rows, budget) /\ \A i \in 1..Len(s.parts) : Fits(s.parts[i], budget)}

\* The rows taken so far.
RowsTaken(s) == FlattenSeq(s.parts) \o s.rows

\* Parts with one more.
LEMMA PartAdded ==
    ASSUME NEW S, NEW budget, NEW s \in Pieces(S, budget)
    PROVE  LET parts == Append(s.parts, s.rows)
           IN  /\ parts \in Lists(Lists(Lists(S)))
               /\ \A i \in 1..Len(parts) : Fits(parts[i], budget)
               /\ FlattenSeq(parts) = RowsTaken(s)
<1>. PICK T : T = Lists(S)
  OBVIOUS
<1>. PICK parts \in Lists(Lists(T)), rows \in Lists(T) :
       /\ parts = s.parts /\ rows = s.rows /\ Fits(rows, budget)
       /\ \A i \in 1..Len(parts) : Fits(parts[i], budget)
  BY DEF Pieces
<1>. PICK n \in Nat : n = Len(parts)
  BY ListIs
<1>. PICK U : U = Lists(T)
  OBVIOUS
<1>. PICK more : more = Append(parts, rows)
  OBVIOUS
<1>1. more \in Lists(U) /\ Len(more) = n + 1 /\ more[n + 1] = rows /\ \A k \in 1..n : more[k] = parts[k]
  BY ListsGrow
<1>2. \A k \in 1..(n + 1) : k \in 1..n \/ k = n + 1
  OBVIOUS
<1>3. \A k \in 1..(n + 1) : Fits(more[k], budget)
  BY <1>1, <1>2
<1>4. FlattenSeq(more) = FlattenSeq(parts) \o rows
  BY FlattenAppend
<1>. QED
  BY <1>1, <1>3, <1>4 DEF RowsTaken

\* A row that is added is taken, and no part exceeds the budget for it.
LEMMA RowAdded ==
    ASSUME NEW S, NEW budget \in Nat, NEW s \in Pieces(S, budget), NEW cells \in Lists(S)
    PROVE  /\ AddRow(s, cells, budget) \in Pieces(S, budget)
           /\ RowsTaken(AddRow(s, cells, budget)) = Append(RowsTaken(s), cells)
<1>. PICK T : T = Lists(S)
  OBVIOUS
<1>. PICK parts \in Lists(Lists(T)), rows \in Lists(T) :
       /\ parts = s.parts /\ rows = s.rows /\ Fits(rows, budget)
       /\ s = [parts |-> parts, rows |-> rows]
       /\ \A i \in 1..Len(parts) : Fits(parts[i], budget)
  BY DEF Pieces
<1>0. cells \in T
  OBVIOUS
<1>1. Append(rows, cells) \in Lists(T) /\ Len(Append(rows, cells)) = Len(rows) + 1 /\ Len(rows) \in Nat
  BY <1>0, ListsGrow, ListIs
<1>2. <<cells>> \in Lists(T) /\ Len(<<cells>>) = 1
  BY <1>0, ListOfOne
<1>. PICK flat \in Lists(T) : flat = FlattenSeq(parts)
  BY FlattenType
<1>3. CASE rows # Nothing /\ estimate_text_tokens(FlattenSeq(rows)) + estimate_text_tokens(cells) > budget
  <2>. PICK more \in Lists(Lists(T)) : /\ more = Append(parts, rows) /\ FlattenSeq(more) = RowsTaken(s)
                                       /\ \A i \in 1..Len(more) : Fits(more[i], budget)
    BY PartAdded
  <2>. PICK t : t = [parts |-> more, rows |-> <<cells>>]
    OBVIOUS
  <2>1. AddRow(s, cells, budget) = t
    BY <1>3 DEF AddRow, Nothing
  <2>2. t \in Pieces(S, budget)
    <3>1. t.parts = more /\ t.rows = <<cells>> /\ Fits(<<cells>>, budget)
      BY <1>2 DEF Fits
    <3>2. t \in [parts : Lists(Lists(T)), rows : Lists(T)]
      BY <1>2
    <3>. QED
      BY <3>1, <3>2 DEF Pieces
  <2>3. RowsTaken(s) \in Lists(T)
    BY FlattenType, ListsJoin DEF RowsTaken
  <2>4. Append(RowsTaken(s), cells) = RowsTaken(s) \o <<cells>>
    BY <1>0, <2>3, GrowIsJoin
  <2>5. RowsTaken(t) = RowsTaken(s) \o <<cells>>
    BY DEF RowsTaken
  <2>. QED
    BY <2>1, <2>2, <2>4, <2>5
<1>4. CASE ~(rows # Nothing /\ estimate_text_tokens(FlattenSeq(rows)) + estimate_text_tokens(cells) > budget)
  <2>. PICK more \in Lists(T) : more = Append(rows, cells) /\ Len(more) = Len(rows) + 1
    BY <1>1
  <2>. PICK t : t = [parts |-> parts, rows |-> more]
    OBVIOUS
  <2>1. AddRow(s, cells, budget) = t
    <3>1. AddRow(s, cells, budget) = [s EXCEPT !.rows = Append(rows, cells)]
      BY <1>4 DEF AddRow, Nothing
    <3>. QED
      BY <3>1
  <2>2. Fits(more, budget)
    <3>1. CASE rows = Nothing
      <4>1. Len(more) = 1
        BY <3>1, NothingList
      <4>. QED
        BY <4>1 DEF Fits
    <3>2. CASE rows # Nothing
      <4>. PICK words \in Lists(S) : words = FlattenSeq(rows)
        BY FlattenType
      <4>1. FlattenSeq(more) = words \o cells
        BY FlattenAppend
      <4>2. estimate_text_tokens(words \o cells) = estimate_text_tokens(words) + estimate_text_tokens(cells)
        BY TokensAdd
      <4>3. estimate_text_tokens(words) \in Nat /\ estimate_text_tokens(cells) \in Nat
        BY TokensCounted
      <4>. QED
        BY <1>4, <3>2, <4>1, <4>2, <4>3 DEF Fits
    <3>. QED
      BY <3>1, <3>2
  <2>3. t \in Pieces(S, budget)
    BY <2>2 DEF Pieces
  <2>4. flat \o Append(rows, cells) = Append(flat \o rows, cells)
    <3>1. \A x, y \in Lists(T), z \in T : x \o Append(y, z) = Append(x \o y, z)
      BY JoinThenGrow
    <3>2. flat \in Lists(T) /\ rows \in Lists(T) /\ cells \in T
      BY <1>0
    <3>. QED
      BY ONLY <3>1, <3>2
  <2>5. RowsTaken(t) = flat \o Append(rows, cells) /\ RowsTaken(s) = flat \o rows
    BY DEF RowsTaken
  <2>. QED
    BY <2>1, <2>3, <2>4, <2>5
<1>. QED
  BY <1>3, <1>4 DEF Nothing

\* Two items are a list.
LEMMA ListOfTwo == ASSUME NEW S PROVE \A x, y \in S : <<x, y>> \in Lists(S) /\ Len(<<x, y>>) = 2
  BY SMT DEF Lists

\* There is one place in a list of one.
LEMMA OnlyOne == \A i \in 1..1 : i = 1
  OBVIOUS

-----------------------------------------------------------------------------
(* The fragments of a table.                                               *)
\* The budget of a table's rows is a number, and what the header leaves or more.
LEMMA BudgetIs ==
    ASSUME NEW S, NEW table \in Lists(Lists(S)), Len(table) >= 1, NEW max \in Nat
    PROVE  /\ RowBudget(table, max) \in Nat
           /\ max - estimate_text_tokens(table[1]) <= RowBudget(table, max)
<1>1. table[1] \in Lists(S)
  BY Beheaded
<1>. PICK tokens \in Nat : tokens = estimate_text_tokens(table[1])
  BY <1>1, TokensCounted
<1>2. Max({1, max - tokens}) = IF 1 >= max - tokens THEN 1 ELSE max - tokens
  BY MaxOfTwo
<1>3. RowBudget(table, max) = Max({1, max - tokens})
  BY DEF RowBudget
<1>. QED
  BY <1>2, <1>3

\* The header's words come first.
LEMMA HeaderFirst ==
    ASSUME NEW S, NEW table \in Lists(Lists(S)), Len(table) >= 1
    PROVE  FlattenSeq(table) = table[1] \o FlattenSeq(Tail(table))
<1>. PICK T : T = Lists(S)
  OBVIOUS
<1>. PICK head \in T, rest \in Lists(T) : head = table[1] /\ rest = Tail(table) /\ table = <<head>> \o rest
  <2>0. table \in Lists(T) /\ Len(table) >= 1
    OBVIOUS
  <2>1. table[1] \in T /\ Tail(table) \in Lists(T) /\ table = <<table[1]>> \o Tail(table)
    BY <2>0, Beheaded, Zenon
  <2>. QED
    BY <2>1, Zenon
<1>1. <<head>> \in Lists(T)
  BY ListOfOne
<1>2. FlattenSeq(<<head>> \o rest) = FlattenSeq(<<head>>) \o FlattenSeq(rest)
  BY <1>1, FlattenConcat
<1>3. FlattenSeq(<<head>>) = head
  BY FlattenOne
<1>. QED
  BY <1>2, <1>3

\* Parts under a header, without it.
LEMMA PartsUnder ==
    ASSUME NEW S, NEW head \in S, NEW parts \in Lists(Lists(S)),
           NEW under, under = [i \in DOMAIN parts |-> <<head>> \o parts[i]]
    PROVE  /\ DOMAIN under = DOMAIN parts
           /\ \A i \in DOMAIN parts : under[i][1] = head /\ Tail(under[i]) = parts[i]
           /\ [i \in DOMAIN under |-> Tail(under[i])] = parts
<1>. PICK n \in Nat : n = Len(parts) /\ DOMAIN parts = 1..n /\ \A i \in 1..n : parts[i] \in Lists(S)
  BY ListIs
<1>1. DOMAIN under = 1..n /\ \A i \in 1..n : under[i] = <<head>> \o parts[i]
  OBVIOUS
<1>2. \A i \in 1..n : (<<head>> \o parts[i])[1] = head /\ Tail(<<head>> \o parts[i]) = parts[i]
  BY Headed
<1>3. \A i \in 1..n : under[i][1] = head /\ Tail(under[i]) = parts[i]
  BY <1>1, <1>2
<1>4. [i \in DOMAIN under |-> Tail(under[i])] = parts
  <2>. DEFINE tails == [i \in 1..n |-> Tail(under[i])]
  <2>1. tails \in [1..n -> Lists(S)] /\ \A i \in 1..n : tails[i] = parts[i]
    BY <1>3
  <2>. HIDE DEF tails
  <2>2. tails \in Lists(Lists(S)) /\ Len(tails) = n
    BY <2>1, ListOf
  <2>3. tails = parts
    BY <2>1, <2>2, ListByItems
  <2>. QED
    BY <1>1, <2>3 DEF tails
<1>. QED
  BY <1>1, <1>3, <1>4

\* The parts of a long table hold its rows, and are within the budget.
LEMMA TableSplit ==
    ASSUME NEW S, NEW table \in Lists(Lists(S)), Len(table) >= 1, NEW max \in Nat
    PROVE  \E parts \in Lists(Lists(Lists(S))) :
             /\ split_table_with_header(table, max) = [i \in DOMAIN parts |-> <<table[1]>> \o parts[i]]
             /\ \A i \in 1..Len(parts) : Fits(parts[i], RowBudget(table, max))
             /\ FlattenSeq(parts) = Tail(table)
<1>. PICK n \in Nat : n = Len(table) /\ n >= 1
  BY ListIs
<1>. PICK m \in Nat : m = n - 1
  OBVIOUS
<1>. PICK budget \in Nat : budget = RowBudget(table, max)
  BY BudgetIs
<1>0. \A k \in 1..n : table[k] \in Lists(S)
  BY ListIs
<1>. DEFINE T == Pieces(S, budget)
            none == [parts |-> <<>>, rows |-> <<>>]
            Runs(f) == f = [k \in 1..n |-> IF k = 1 THEN none ELSE AddRow(f[k - 1], table[k], budget)]
            step == [x \in (1..m) \X T |-> AddRow(x[2], table[x[1] + 1], budget)]
<1>1. none \in T /\ RowsTaken(none) = Nothing
  <2>1. none = [parts |-> Nothing, rows |-> Nothing]
    BY DEF Nothing
  <2>. HIDE DEF none
  <2>2. Nothing \in Lists(Lists(S)) /\ Nothing \in Lists(Lists(Lists(S))) /\ Len(Nothing) = 0
    BY NothingList
  <2>3. none \in T
    BY <2>1, <2>2 DEF Pieces, Fits
  <2>4. FlattenSeq(Nothing) = Nothing /\ Nothing \o Nothing = Nothing
    BY <2>2, NothingList, FlattenNothing
  <2>. QED
    BY <2>1, <2>3, <2>4 DEF RowsTaken
<1>2a. \A t \in T, cells \in Lists(S) :
          AddRow(t, cells, budget) \in T /\ RowsTaken(AddRow(t, cells, budget)) = Append(RowsTaken(t), cells)
  BY RowAdded
<1>2. step \in [(1..m) \X T -> T]
  <2>1. \A k \in 1..m : k + 1 \in 1..n
    OBVIOUS
  <2>2. \A k \in 1..m, t \in T : AddRow(t, table[k + 1], budget) \in T
    BY <1>0, <1>2a, <2>1
  <2>. HIDE DEF T
  <2>. QED
    BY <2>2
<1>3. \A k \in 1..m, t \in T : step[<<k, t>>] = AddRow(t, table[k + 1], budget)
  OBVIOUS
<1>. HIDE DEF T, step, none
<1>4. PICK g \in [0..m -> T] : Follows(g, m, none, step)
  BY <1>1, <1>2, m \in Nat, RunExists, Zenon
<1>5. \E f : Runs(f)
  <2>. PICK f : f = [k \in 1..n |-> g[k - 1]]
    OBVIOUS
  <2>1. \A k \in 1..n : f[k] = g[k - 1]
    OBVIOUS
  <2>2. g[0] = none /\ \A k \in 1..m : g[k] = step[<<k, g[k - 1]>>]
    BY <1>4 DEF Follows
  <2>3. ASSUME NEW k \in 1..n PROVE f[k] = IF k = 1 THEN none ELSE AddRow(f[k - 1], table[k], budget)
    <3>1. CASE k = 1
      <4>1. f[k] = g[0]
        BY <2>1, <3>1
      <4>. QED
        BY <2>2, <3>1, <4>1
    <3>2. CASE k # 1
      <4>. PICK j \in 1..m : j = k - 1
        BY <3>2
      <4>1. f[k] = g[j] /\ f[k - 1] = g[j - 1]
        BY <2>1
      <4>2. g[j - 1] \in T /\ g[j] = step[<<j, g[j - 1]>>]
        <5>1. j - 1 \in 0..m
          OBVIOUS
        <5>. QED
          BY <2>2, <5>1, Zenon
      <4>3. step[<<j, g[j - 1]>>] = AddRow(g[j - 1], table[j + 1], budget)
        BY <1>3, <4>2
      <4>4. j + 1 = k
        OBVIOUS
      <4>. QED
        BY <3>2, <4>1, <4>2, <4>3, <4>4
    <3>. QED
      BY <3>1, <3>2
  <2>4. f = [k \in 1..n |-> f[k]]
    OBVIOUS
  <2>5. Runs(f)
    BY <2>3, <2>4
  <2>. QED
    BY <2>5
<1>. DEFINE made(last) == IF last.rows = <<>> THEN last.parts ELSE Append(last.parts, last.rows)
            under(parts) == [i \in DOMAIN parts |-> <<table[1]>> \o parts[i]]
<1>6. split_table_with_header(table, max) = under(made((CHOOSE e : Runs(e))[n]))
  BY DEF split_table_with_header, none
<1>7. PICK e : Runs(e) /\ split_table_with_header(table, max) = under(made(e[n]))
  <2>. HIDE DEF Runs, made, under
  <2>. QED
    BY <1>5, <1>6
<1>. HIDE DEF under
<1>8. e[1] = none /\ \A k \in 2..n : e[k] = AddRow(e[k - 1], table[k], budget)
  <2>1. e = [k \in 1..n |-> IF k = 1 THEN none ELSE AddRow(e[k - 1], table[k], budget)]
    BY <1>7
  <2>. HIDE DEF Runs
  <2>2. \A k \in 1..n : e[k] = IF k = 1 THEN none ELSE AddRow(e[k - 1], table[k], budget)
    BY <2>1
  <2>3. 1 \in 1..n /\ \A k \in 2..n : k \in 1..n /\ k # 1
    OBVIOUS
  <2>. QED
    BY <2>2, <2>3
<1>. HIDE DEF Runs
<1>9. PICK rest \in Lists(Lists(S)) : rest = Tail(table) /\ Len(rest) = m /\ \A k \in 1..m : rest[k] = table[k + 1]
  <2>. PICK U : U = Lists(S)
    OBVIOUS
  <2>0. table \in Lists(U) /\ Len(table) >= 1
    OBVIOUS
  <2>1. /\ Tail(table) \in Lists(U) /\ Len(Tail(table)) = Len(table) - 1
        /\ \A k \in 1..(Len(table) - 1) : Tail(table)[k] = table[k + 1]
    BY <2>0, Beheaded, Zenon
  <2>2. Len(table) - 1 = m
    OBVIOUS
  <2>. QED
    BY <2>1, <2>2, Zenon
<1>10. /\ SubSeq(rest, 1, 0) = Nothing /\ SubSeq(rest, 1, m) = rest
       /\ \A k \in 1..m : SubSeq(rest, 1, k) = Append(SubSeq(rest, 1, k - 1), rest[k])
  <2>. PICK U : U = Lists(S)
    OBVIOUS
  <2>1. rest \in Seq(U)
    BY DEF Lists
  <2>2. SubSeq(rest, 1, 0) = <<>> /\ SubSeq(rest, 1, m) = rest
    BY <1>9, <2>1
  <2>3. \A k \in 1..m : SubSeq(rest, 1, k) = Append(SubSeq(rest, 1, k - 1), rest[k])
    BY <1>9, <2>1
  <2>. QED
    BY <2>2, <2>3 DEF Nothing
<1>. DEFINE Held(k) == e[k + 1] \in T /\ RowsTaken(e[k + 1]) = SubSeq(rest, 1, k)
            B == {k \in 0..m : ~Held(k)}
<1>11. B \subseteq 0..m /\ 0 \notin B
  <2>1. 0 + 1 = 1
    OBVIOUS
  <2>. QED
    BY <1>1, <1>8, <1>10, <2>1
<1>12. ASSUME NEW k \in 1..m, k - 1 \notin B PROVE k \notin B
  <2>1. k - 1 \in 0..m /\ (k - 1) + 1 = k /\ k + 1 \in 2..n /\ (k + 1) - 1 = k /\ k + 1 \in 1..n
    OBVIOUS
  <2>2. e[k] \in T /\ RowsTaken(e[k]) = SubSeq(rest, 1, k - 1)
    BY <1>12, <2>1
  <2>. PICK s \in Pieces(S, budget), cells \in Lists(S) : s = e[k] /\ cells = table[k + 1]
    BY <1>0, <2>1, <2>2 DEF T
  <2>0. s \in T
    BY DEF T
  <2>3. AddRow(s, cells, budget) \in T /\ RowsTaken(AddRow(s, cells, budget)) = Append(RowsTaken(s), cells)
    BY <1>2a, <2>0
  <2>4. e[k + 1] = AddRow(s, cells, budget)
    BY <1>8, <2>1
  <2>5. Held(k)
    BY <1>9, <1>10, <2>2, <2>3, <2>4
  <2>. QED
    BY <2>5
<1>13. \A k \in 0..m : k \notin B
  <2>. HIDE DEF B
  <2>. QED
    BY <1>11, <1>12, CountingUp
<1>14. Held(m) /\ m + 1 = n
  <2>. HIDE DEF Held
  <2>. QED
    BY <1>13
<1>. PICK s \in Pieces(S, budget) : s = e[n] /\ RowsTaken(s) = rest
  BY <1>10, <1>14 DEF T
<1>15. CASE s.rows = Nothing
  <2>. PICK parts \in Lists(Lists(Lists(S))) : parts = s.parts /\ \A i \in 1..Len(parts) : Fits(parts[i], budget)
    BY DEF Pieces
  <2>1. split_table_with_header(table, max) = under(parts)
    BY <1>7, <1>15 DEF Nothing
  <2>2. FlattenSeq(parts) = rest
    <3>. PICK U : U = Lists(S)
      OBVIOUS
    <3>. PICK flat \in Lists(U) : flat = FlattenSeq(parts)
      BY FlattenType
    <3>1. flat \o Nothing = flat
      BY NothingList
    <3>. QED
      BY <1>15, <3>1 DEF RowsTaken
  <2>. QED
    BY <1>9, <2>1, <2>2 DEF under
<1>16. CASE s.rows # Nothing
  <2>. PICK parts \in Lists(Lists(Lists(S))) :
         parts = Append(s.parts, s.rows) /\ FlattenSeq(parts) = rest /\ \A i \in 1..Len(parts) : Fits(parts[i], budget)
    BY PartAdded
  <2>1. split_table_with_header(table, max) = under(parts)
    BY <1>7, <1>16 DEF Nothing
  <2>. QED
    BY <1>9, <2>1 DEF under
<1>. QED
  BY <1>15, <1>16

\* A rendered table and its parts.
Portioned(table, fragments) ==
    /\ \A f \in DOMAIN fragments :
         /\ fragments[f][1] = table[1]
         /\ Len(Tail(fragments[f])) > 1 =>
              estimate_text_tokens(FlattenSeq(Tail(fragments[f]))) <= RowBudget(table, TableMax)
    /\ FlattenSeq([f \in DOMAIN fragments |-> Tail(fragments[f])]) = Tail(table)

\* Rows that are not empty and the table rendered of them.
Renders(safe, table) ==
    /\ table[1] = safe[1]
    /\ Len(Tail(table)) = Max({1, Len(safe) - 1})
    /\ \A i \in 2..Len(safe) : \A c \in DOMAIN safe[i] \cap DOMAIN safe[1] : Tail(table)[i - 1][c] = safe[i][c]

\* The fragments of a rendered table hold its rows.
LEMMA FragmentsHoldTable ==
    ASSUME NEW S, NEW table \in Lists(Lists(S)), Len(table) >= 1, TableMax \in Nat
    PROVE  Portioned(table, table_fragments(table))
<1>. PICK T : T = Lists(S)
  OBVIOUS
<1>. PICK head \in T, rest \in Lists(T) : head = table[1] /\ rest = Tail(table) /\ table = <<head>> \o rest
  <2>0. table \in Lists(T) /\ Len(table) >= 1
    OBVIOUS
  <2>1. table[1] \in T /\ Tail(table) \in Lists(T) /\ table = <<table[1]>> \o Tail(table)
    BY <2>0, Beheaded, Zenon
  <2>. QED
    BY <2>1, Zenon
<1>. PICK budget \in Nat : budget = RowBudget(table, TableMax) /\ TableMax - estimate_text_tokens(head) <= budget
  BY BudgetIs
<1>. DEFINE fragments == table_fragments(table)
<1>1. \E parts \in Lists(Lists(T)) :
        /\ fragments = [i \in DOMAIN parts |-> <<head>> \o parts[i]]
        /\ \A i \in 1..Len(parts) : Fits(parts[i], budget)
        /\ FlattenSeq(parts) = rest
  <2>1. CASE estimate_text_tokens(FlattenSeq(table)) <= TableMax
    <3>. PICK parts \in Lists(Lists(T)) : parts = <<rest>> /\ Len(parts) = 1 /\ parts[1] = rest
      BY ListOfOne
    <3>1. DOMAIN parts = 1..1
      BY ListIs
    <3>2. fragments = [i \in DOMAIN parts |-> <<head>> \o parts[i]]
      <4>1. fragments = <<table>>
        BY <2>1 DEF table_fragments
      <4>. HIDE DEF fragments
      <4>2. <<table>> = [i \in 1..1 |-> table]
        OBVIOUS
      <4>3. \A i \in 1..1 : <<head>> \o parts[i] = table
        BY OnlyOne, Zenon
      <4>. QED
        BY <3>1, <4>1, <4>2, <4>3
    <3>3. Fits(rest, budget)
      <4>. PICK words \in Lists(S) : words = FlattenSeq(rest)
        BY FlattenType
      <4>1. FlattenSeq(table) = head \o words
        BY HeaderFirst
      <4>2. estimate_text_tokens(head \o words) = estimate_text_tokens(head) + estimate_text_tokens(words)
        BY TokensAdd
      <4>3. estimate_text_tokens(head) \in Nat /\ estimate_text_tokens(words) \in Nat
        BY TokensCounted
      <4>. PICK h \in Nat, w \in Nat : h = estimate_text_tokens(head) /\ w = estimate_text_tokens(words)
        BY <4>3
      <4>4. h + w <= TableMax /\ TableMax - h <= budget
        BY <2>1, <4>1, <4>2
      <4>5. w <= budget
        BY <4>4
      <4>. QED
        BY <4>5 DEF Fits
    <3>4. FlattenSeq(parts) = rest
      BY FlattenOne
    <3>5. \A i \in 1..Len(parts) : Fits(parts[i], budget)
      <4>1. \A i \in 1..1 : i = 1
        OBVIOUS
      <4>. QED
        BY <3>3, <4>1
    <3>. QED
      BY <3>2, <3>4, <3>5
  <2>2. CASE ~(estimate_text_tokens(FlattenSeq(table)) <= TableMax)
    <3>1. fragments = split_table_with_header(table, TableMax)
      BY <2>2 DEF table_fragments
    <3>2. \E parts \in Lists(Lists(Lists(S))) :
             /\ split_table_with_header(table, TableMax) = [i \in DOMAIN parts |-> <<table[1]>> \o parts[i]]
             /\ \A i \in 1..Len(parts) : Fits(parts[i], RowBudget(table, TableMax))
             /\ FlattenSeq(parts) = Tail(table)
      BY TableSplit
    <3>. HIDE DEF fragments
    <3>. QED
      BY <3>1, <3>2, Zenon
  <2>. QED
    BY <2>1, <2>2
<1>2. PICK parts \in Lists(Lists(T)) :
        /\ fragments = [i \in DOMAIN parts |-> <<head>> \o parts[i]]
        /\ \A i \in 1..Len(parts) : Fits(parts[i], budget)
        /\ FlattenSeq(parts) = rest
  BY <1>1
<1>. HIDE DEF fragments
<1>2a. fragments = [i \in DOMAIN parts |-> <<head>> \o parts[i]] /\ head \in T
  BY <1>2
<1>3. /\ DOMAIN fragments = DOMAIN parts
      /\ \A i \in DOMAIN parts : fragments[i][1] = head /\ Tail(fragments[i]) = parts[i]
      /\ [i \in DOMAIN fragments |-> Tail(fragments[i])] = parts
  BY ONLY <1>2a, PartsUnder, parts \in Lists(Lists(T))
<1>4. DOMAIN parts = 1..Len(parts)
  BY ListIs
<1>5. ASSUME NEW f \in DOMAIN fragments
      PROVE  /\ fragments[f][1] = table[1]
             /\ Len(Tail(fragments[f])) > 1 =>
                  estimate_text_tokens(FlattenSeq(Tail(fragments[f]))) <= RowBudget(table, TableMax)
  <2>. PICK t : t = Tail(fragments[f])
    OBVIOUS
  <2>1. fragments[f][1] = table[1] /\ t = parts[f] /\ f \in 1..Len(parts)
    BY <1>3, <1>4
  <2>2. Fits(t, RowBudget(table, TableMax))
    BY <1>2, <2>1
  <2>. QED
    BY <2>1, <2>2 DEF Fits
<1>. QED
  BY <1>2, <1>3, <1>5 DEF Portioned, fragments

\* A rendered table has the header of the rows it is rendered of, a row for each
\* of the others, and of each the cells that have a header.
LEMMA MarkdownIs ==
    ASSUME NEW rows \in Lists(Lists(Words))
    PROVE  /\ table_to_markdown(rows) \in Lists(Lists(Words)) /\ Len(table_to_markdown(rows)) >= 1
           /\ safe_rows(rows) # <<>> => Renders(safe_rows(rows), table_to_markdown(rows))
<1>. PICK T : T = Lists(Words)
  OBVIOUS
<1>. DEFINE keep == {cells \in ToSet(rows) : \E i \in DOMAIN cells : cells[i] # ""}
<1>1. safe_rows(rows) = Kept(rows, keep)
  BY DEF safe_rows
<1>. HIDE DEF keep
<1>2. Kept(rows, keep) \in Lists({x \in T : x \in keep})
  BY KeptIsKept
<1>. PICK safe \in Lists(T) : safe = safe_rows(rows)
  BY <1>1, <1>2, ListsWithin
<1>. PICK n \in Nat : n = Len(safe) /\ (n = 0 <=> safe = Nothing) /\ \A i \in 1..n : safe[i] \in T
  BY ListIs, NothingList
<1>3. CASE n = 0
  <2>1. table_to_markdown(rows) = <<<<"empty">>, <<"">>>>
    BY <1>3 DEF table_to_markdown, Nothing
  <2>. PICK a \in T, b \in T : a = <<"empty">> /\ b = <<"">>
    BY ListOfOne DEF Words
  <2>2. <<a, b>> \in Lists(T) /\ Len(<<a, b>>) >= 1
    <3>1. <<a, b>> \in Lists(T) /\ Len(<<a, b>>) = 2
      BY ListOfTwo
    <3>. QED
      BY ONLY <3>1
  <2>3. safe_rows(rows) = <<>>
    BY <1>3 DEF Nothing
  <2>. QED
    BY <2>1, <2>2, <2>3
<1>4. CASE n # 0
  <2>. PICK width \in Nat : width = Len(safe[1])
    <3>1. safe[1] \in T
      BY <1>4
    <3>. QED
      BY <3>1, ListIs
  <2>. DEFINE cells(r) == [i \in 1..width |-> IF i <= Len(r) THEN r[i] ELSE ""]
  <2>1. \A r \in T : cells(r) \in T
    <3>. SUFFICES ASSUME NEW r \in T PROVE cells(r) \in T
      OBVIOUS
    <3>1. Len(r) \in Nat /\ \A i \in 1..Len(r) : r[i] \in Words
      BY ListIs
    <3>2. \A i \in 1..width : i <= Len(r) => i \in 1..Len(r)
      BY <3>1
    <3>3. "" \in Words
      BY DEF Words
    <3>4. cells(r) \in [1..width -> Words]
      BY <3>1, <3>2, <3>3
    <3>. HIDE DEF cells
    <3>. QED
      BY <3>4, ListOf
  <2>. HIDE DEF cells
  <2>2. Max({2, n}) = IF 2 >= n THEN 2 ELSE n
    BY MaxOfTwo
  <2>. PICK m \in Nat : m = Max({2, n}) /\ m >= 2
    BY <2>2
  <2>. PICK t : t = [i \in 1..m |-> IF i <= n THEN cells(safe[i]) ELSE cells(<<>>)]
    OBVIOUS
  <2>3. table_to_markdown(rows) = t
    BY <1>4 DEF table_to_markdown, cells, Nothing
  <2>4. t \in [1..m -> T]
    <3>1. <<>> \in T
      BY NothingList DEF Nothing
    <3>2. \A i \in 1..m : i <= n => i \in 1..n
      OBVIOUS
    <3>. QED
      BY <2>1, <3>1, <3>2
  <2>5. t \in Lists(T) /\ Len(t) = m
    BY ONLY <2>4, m \in Nat, ListOf
  <2>. PICK rest : rest = Tail(t)
    OBVIOUS
  <2>6. Len(rest) = m - 1 /\ \A k \in 1..(m - 1) : rest[k] = t[k + 1]
    <3>1. t \in Lists(T) /\ Len(t) >= 1
      BY <2>5
    <3>2. Len(Tail(t)) = Len(t) - 1 /\ \A k \in 1..(Len(t) - 1) : Tail(t)[k] = t[k + 1]
      BY ONLY <3>1, Beheaded
    <3>. QED
      BY ONLY <2>5, <3>2, rest = Tail(t)
  <2>7. \A i \in 1..n : DOMAIN safe[i] = 1..Len(safe[i]) /\ Len(safe[i]) \in Nat
    BY ListIs
  <2>8. t[1] = safe[1]
    <3>1. t[1] = cells(safe[1])
      BY <1>4
    <3>2. safe[1] \in T /\ \A i \in 1..width : safe[1][i] \in Words
      BY <1>4, ListIs
    <3>3. \A i \in 1..width : i <= Len(safe[1])
      BY ONLY width \in Nat, width = Len(safe[1])
    <3>4. /\ cells(safe[1]) \in [1..width -> Words]
          /\ \A i \in 1..width : cells(safe[1])[i] = safe[1][i]
      BY ONLY <3>2, <3>3 DEF cells
    <3>5. cells(safe[1]) \in Lists(Words) /\ Len(cells(safe[1])) = width
      BY ONLY <3>4, width \in Nat, ListOf
    <3>6. cells(safe[1]) = safe[1]
      BY ONLY <3>2, <3>4, <3>5, ListByItems, T = Lists(Words), width = Len(safe[1])
    <3>. QED
      BY ONLY <3>1, <3>6
  <2>9. Len(rest) = Max({1, n - 1})
    <3>. PICK k \in Int : k = n - 1
      OBVIOUS
    <3>1. Max({1, k}) = IF 1 >= k THEN 1 ELSE k
      BY ONLY MaxOfTwo, k \in Int
    <3>2. m = IF 2 >= n THEN 2 ELSE n
      BY <2>2
    <3>. QED
      BY ONLY <2>6, <3>1, <3>2, k = n - 1, n \in Nat, k \in Int
  <2>10. ASSUME NEW i \in 2..n, NEW c \in DOMAIN safe[i] \cap DOMAIN safe[1]
         PROVE  rest[i - 1][c] = safe[i][c]
    <3>1. i \in 1..n /\ i - 1 \in 1..(m - 1) /\ i \in 1..m
      BY <2>2
    <3>2. rest[i - 1] = cells(safe[i])
      BY <2>6, <3>1
    <3>3. c \in 1..width /\ c <= Len(safe[i])
      BY <2>7, <3>1, <1>4
    <3>. QED
      BY <3>2, <3>3 DEF cells
  <2>11. Renders(safe, t)
    BY <2>8, <2>9, <2>10 DEF Renders
  <2>. QED
    BY <2>3, <2>5, <2>11
<1>. QED
  BY <1>3, <1>4

\* What the parts of the rendered table hold of the uploaded rows.
LEMMA UploadedRowsHeld ==
    ASSUME NEW rows, NEW table, NEW fragments,
           Portioned(table, fragments), safe_rows(rows) # <<>> => Renders(safe_rows(rows), table)
    PROVE  HoldsTable(rows, fragments)
<1>. PICK safe : safe = safe_rows(rows)
  OBVIOUS
<1>1. CASE safe = <<>>
  BY <1>1 DEF HoldsTable
<1>2. CASE safe # <<>>
  <2>1. Renders(safe, table)
    BY <1>2
  <2>. DEFINE parts == [f \in DOMAIN fragments |-> Tail(fragments[f])]
  <2>2. FlattenSeq(parts) = Tail(table)
    BY DEF Portioned
  <2>0. \A f \in DOMAIN fragments : parts[f] = Tail(fragments[f])
    OBVIOUS
  <2>. HIDE DEF parts
  <2>3. RowBudget(safe, TableMax) = RowBudget(table, TableMax)
    BY <2>1 DEF Renders, RowBudget
  <2>4. ASSUME NEW f \in DOMAIN fragments
        PROVE  /\ fragments[f][1] = safe[1]
               /\ Len(parts[f]) > 1 => estimate_text_tokens(FlattenSeq(parts[f])) <= RowBudget(safe, TableMax)
    BY <2>0, <2>1, <2>3 DEF Portioned, Renders
  <2>5. /\ Len(FlattenSeq(parts)) = Max({1, Len(safe) - 1})
        /\ \A i \in 2..Len(safe) : \A c \in DOMAIN safe[i] \cap DOMAIN safe[1] :
              FlattenSeq(parts)[i - 1][c] = safe[i][c]
    BY ONLY <2>1, <2>2 DEF Renders
  <2>6. (\A f \in DOMAIN fragments :
            /\ fragments[f][1] = safe[1]
            /\ Len(parts[f]) > 1 => estimate_text_tokens(FlattenSeq(parts[f])) <= RowBudget(safe, TableMax))
        /\ <2>5!1 /\ <2>5!2 => HoldsTable(rows, fragments)
    BY ONLY safe = safe_rows(rows), Zenon DEF HoldsTable, parts
  <2>. QED
    BY <2>4, <2>5, <2>6
<1>. QED
  BY <1>1, <1>2

-----------------------------------------------------------------------------
(* A section's chunks, and a directory.                                    *)
\* The blocks of one type are blocks, and their words lists of words.
LEMMA BlocksOfAre ==
    ASSUME NEW section \in SectionRecords, NEW type
    PROVE  /\ BlocksOf(section, type) \in Lists(ReadBlocks)
           /\ WordsOf(BlocksOf(section, type)) \in Lists(Lists(Words))
<1>. DEFINE keep == {b \in ToSet(section.blocks) : b.type = type}
<1>0. section.blocks \in Lists(ReadBlocks)
  BY DEF SectionRecords
<1>1. BlocksOf(section, type) = Kept(section.blocks, keep)
  BY DEF BlocksOf
<1>. HIDE DEF keep
<1>2. Kept(section.blocks, keep) \in Lists({x \in ReadBlocks : x \in keep})
  BY <1>0, KeptIsKept
<1>. PICK blocks \in Lists(ReadBlocks) : blocks = BlocksOf(section, type)
  BY <1>1, <1>2, ListsWithin
<1>. PICK n \in Nat : n = Len(blocks) /\ DOMAIN blocks = 1..n /\ \A k \in 1..n : blocks[k] \in ReadBlocks
  BY ListIs
<1>3. \A k \in 1..n : blocks[k].words \in Lists(Words)
  BY DEF ReadBlocks
<1>4. WordsOf(blocks) \in [1..n -> Lists(Words)]
  BY <1>3 DEF WordsOf
<1>5. WordsOf(blocks) \in Lists(Lists(Words))
  BY <1>4, ListOf
<1>. QED
  BY <1>5

\* The chunks of a section hold its texts and its tables.
LEMMA SectionHolds ==
    ASSUME NEW section \in SectionRecords, NEW least, NEW max \in Nat \ {0}, NEW overlap \in 0..(max - 1),
           TableMax \in Nat
    PROVE  LET chunks == chunk_section(section, least, max, overlap)
           IN  HoldsText(section, chunks, max, overlap) /\ HoldsTables(section, chunks)
<1>. DEFINE chunks == chunk_section(section, least, max, overlap)
            texts == WordsOf(BlocksOf(section, "text"))
            tables == BlocksOf(section, "table")
<1>1. /\ chunks.text = split_text_blocks(texts, least, max, overlap)
      /\ chunks.table = [i \in DOMAIN tables |-> table_fragments(table_to_markdown(tables[i].rows))]
  BY DEF chunk_section
<1>2. HoldsText(section, chunks, max, overlap)
  <2>1. texts \in Lists(Lists(Words))
    BY BlocksOfAre
  <2>. HIDE DEF chunks, texts
  <2>. PICK cut \in Lists(Lists(Words)) :
         /\ cut = split_text_blocks(texts, least, max, overlap)
         /\ \A i \in 1..Len(cut) : Len(cut[i]) \in 1..max
         /\ ToSet(FlattenSeq(cut)) = ToSet(FlattenSeq(texts))
         /\ overlap = 0 => FlattenSeq(cut) = FlattenSeq(texts)
    BY <2>1, TextsCut
  <2>2. DOMAIN cut = 1..Len(cut)
    BY ListIs
  <2>3. chunks.text = cut
    BY <1>1
  <2>. QED
    BY <2>2, <2>3 DEF HoldsText, texts
<1>3. HoldsTables(section, chunks)
  <2>1. tables \in Lists(ReadBlocks)
    BY BlocksOfAre
  <2>. HIDE DEF chunks, tables
  <2>2. ASSUME NEW t \in DOMAIN tables
        PROVE  HoldsTable(tables[t].rows, chunks.table[t])
    <3>1. tables[t] \in ReadBlocks
      BY <2>1, ListIs
    <3>2. tables[t].rows \in Lists(Lists(Words))
      BY <3>1 DEF ReadBlocks
    <3>. PICK rows \in Lists(Lists(Words)) : rows = tables[t].rows
      BY <3>2
    <3>. PICK table \in Lists(Lists(Words)) :
           /\ table = table_to_markdown(rows) /\ Len(table) >= 1
           /\ safe_rows(rows) # <<>> => Renders(safe_rows(rows), table)
      BY MarkdownIs
    <3>3. chunks.table[t] = table_fragments(table)
      BY <1>1
    <3>4. Portioned(table, table_fragments(table))
      BY FragmentsHoldTable
    <3>5. HoldsTable(rows, table_fragments(table))
      BY <3>4, UploadedRowsHeld, Zenon
    <3>. QED
      BY <3>3, <3>5
  <2>. QED
    BY <2>2 DEF HoldsTables, tables
<1>. QED
  BY <1>2, <1>3

\* What the files of a session hold of its upload, when the budget cuts it: every
\* block, word and uploaded row, and of a row the cells that have a header.
THEOREM DirectoryIsWhole ==
    ASSUME NEW d \in Documents, NEW t, t.max_chunk_tokens \in Int, t.chunk_overlap_tokens \in Int, cuts(t)
    PROVE  Whole(Directory(d, t))
<1>. DEFINE dir == Directory(d, t)
            structure == build_structure_v1_from_blocks(d.blocks)
<1>. PICK max \in Int, overlap \in Int : max = t.max_chunk_tokens /\ overlap = t.chunk_overlap_tokens
  OBVIOUS
<1>1. max \in Nat \ {0} /\ overlap \in 0..(max - 1) /\ TableMax \in Nat
  BY LibraryAssumption DEF cuts, ChunkBudgetOk
<1>2. d.blocks \in Lists(ReadBlocks)
  <2>1. d.blocks \in Lists(Blocks)
    BY InputsAssumption DEF Lists
  <2>. QED
    BY <2>1, BlocksAreRead
<1>3. /\ dir.structure = structure /\ dir.raw = d.blocks /\ dir.max = max /\ dir.overlap = overlap
      /\ dir.layout = build_conversion_layout_rows(structure)
      /\ dir.chunks = IF cuts(t) THEN chunk_sections_for_rag(structure, MinTokens, max, overlap) ELSE <<>>
  BY DEF Directory
<1>. HIDE DEF dir
<1>4. structure \in Lists(SectionRecords) /\ HoldsBlocks(structure, d.blocks)
  BY <1>2, StructureHoldsBlocks
<1>5. Cardinality(build_conversion_layout_rows(structure)) = Len(BlocksIn(structure))
  BY <1>4, LayoutHasRows
<1>. HIDE DEF structure
<1>6. dir.chunks = [s \in DOMAIN structure |-> chunk_section(structure[s], MinTokens, max, overlap)]
  BY <1>3 DEF chunk_sections_for_rag
<1>7. ASSUME NEW i \in DOMAIN structure
      PROVE  /\ HoldsText(structure[i], dir.chunks[i], max, overlap)
             /\ HoldsTables(structure[i], dir.chunks[i])
  <2>1. structure[i] \in SectionRecords
    BY <1>4, ListIs
  <2>2. dir.chunks[i] = chunk_section(structure[i], MinTokens, max, overlap)
    BY <1>6
  <2>. QED
    BY <1>1, <2>1, <2>2, SectionHolds
<1>8. DOMAIN dir.chunks = DOMAIN structure
  BY <1>6
<1>9. Whole(dir)
  BY <1>3, <1>4, <1>5, <1>7, <1>8, Zenon DEF Whole
<1>. QED
  BY <1>9 DEF dir

-----------------------------------------------------------------------------
(* The ingestion.                                                          *)
USE FilesAssumption, YearsAssumption

\* What request r has stored of the document it works on.
StoredSoFar(r) ==
    /\ phase[r] \in {"indexing", "marking", "filing"} => row[Doc(r)] # "none"
    /\ phase[r] \in {"marking", "filing"} => vector[Doc(r)] # "none"

\* The vector store never holds a document the database does not, and an
\* item is ok only of a document both stores hold.
DocumentStored(d) ==
    /\ vector[d] # "none" => row[d] # "none"
    /\ item[d] = "ok" => row[d] # "none" /\ vector[d] # "none"

KInv ==
    /\ TypeOK
    /\ \A r \in Requests : StoredSoFar(r)
    /\ \A d \in Docs : DocumentStored(d)

\* A step of request r.
StepOf(r) ==
    \/ Begin(r) \/ RejectFile(r) \/ CheckVersion(r) \/ Deprecate(r) \/ Store(r)
    \/ Index(r) \/ MarkReady(r) \/ WriteFiles(r)
    \/ FileFails(r) \/ RequestFails(r) \/ Crash(r)

\* The stores only ever gain documents.
StoresGrow ==
    \A d \in Docs : /\ row[d] # "none" => row'[d] # "none"
                    /\ vector[d] # "none" => vector'[d] # "none"
                    /\ vector'[d] # "none" /\ vector[d] = "none" => row'[d] # "none"

-----------------------------------------------------------------------------
\* Requests begin with nothing stored and nothing answered.
LEMMA InitKInv == Init => KInv
BY DEF Init, KInv, TypeOK, Docs, Doc, Phases, Ended, StoredSoFar, DocumentStored

\* The document a request works on is one of its documents.
LEMMA DocInDocs == ASSUME TypeOK, NEW r \in Requests PROVE Doc(r) \in Docs
BY DEF TypeOK, Doc, Docs

\* Going on to the next file, or to the answer, keeps the types.
LEMMA NextFileTypes ==
    ASSUME TypeOK, NEW r \in Requests, NEW outcome \in {"ok", "failed"}, NextFile(r, outcome)
    PROVE  /\ item' \in [Docs -> {"none", "ok", "failed"}]
           /\ status' \in [Requests -> {"active", "deprecated"}]
           /\ at' \in [Requests -> 1..MaxFiles]
           /\ \A q \in Requests : at'[q] <= files[q]
           /\ phase' \in [Requests -> Phases]
<1>. Doc(r) \in Docs
  BY DocInDocs
<1>. FirstPhase(r) \in Phases /\ "answered" \in Phases
  BY DEF FirstPhase, Phases, Ended
<1>1. /\ item' \in [Docs -> {"none", "ok", "failed"}]
      /\ status' \in [Requests -> {"active", "deprecated"}]
  BY DEF TypeOK, NextFile
<1>2. phase' \in [Requests -> Phases]
  BY DEF TypeOK, NextFile, Enter
<1>3. /\ at' \in [Requests -> 1..MaxFiles]
      /\ \A q \in Requests : at'[q] <= files[q]
  BY DEF TypeOK, NextFile
<1>. QED
  BY <1>1, <1>2, <1>3

\* A write that raises keeps the types of the stores.
LEMMA WriteRaisesTypes ==
    ASSUME TypeOK, NEW r \in Requests, WriteRaises(r)
    PROVE  /\ row' \in [Docs -> {"none", "active", "deprecated"}]
           /\ ingest' \in [Docs -> {"none", "CHUNKED", "KB_READY", "FAILED"}]
           /\ vector' \in [Docs -> {"none", "active", "deprecated"}]
<1>. Doc(r) \in Docs
  BY DocInDocs
<1>1. CASE UNCHANGED stores
  BY <1>1 DEF TypeOK, stores
<1>2. CASE phase[r] = "deprecating" /\ row' = WithoutOlder(r) /\ UNCHANGED <<ingest, vector>>
  BY <1>2 DEF TypeOK, WithoutOlder
<1>3. CASE /\ phase[r] = "storing"
           /\ row' = [row EXCEPT ![Doc(r)] = status[r]]
           /\ \E mark \in {NewIngest(r)} \cup IF kind[r] = "uploads" THEN {"FAILED"} ELSE {} :
                 ingest' = [ingest EXCEPT ![Doc(r)] = mark]
           /\ UNCHANGED vector
  BY <1>3 DEF TypeOK, NewIngest
<1>4. CASE /\ phase[r] = "indexing"
           /\ vector' = [vector EXCEPT ![Doc(r)] = status[r]]
           /\ UNCHANGED <<row, ingest>>
  BY <1>4 DEF TypeOK
<1>. QED
  BY <1>1, <1>2, <1>3, <1>4 DEF WriteRaises

\* Every step keeps the types.
LEMMA NextTypes == TypeOK /\ [Next]_vars => TypeOK'
<1>. SUFFICES ASSUME TypeOK, [Next]_vars PROVE TypeOK'
  OBVIOUS
<1>1. CASE UNCHANGED vars
  BY <1>1 DEF TypeOK, vars, request, stores, Docs
<1>2. ASSUME NEW r \in Requests,
             RejectFile(r) \/ WriteFiles(r)
      PROVE  TypeOK'
  <2>1. \E o \in {"ok", "failed"} : NextFile(r, o)
    BY <1>2 DEF RejectFile, WriteFiles
  <2>2. UNCHANGED <<request, stores, faults>>
    BY <1>2 DEF RejectFile, WriteFiles
  <2>. QED
    BY <2>1, <2>2, NextFileTypes DEF TypeOK, request, stores, Docs
<1>3. ASSUME NEW r \in Requests,
             Begin(r) \/ CheckVersion(r) \/ MarkReady(r)
      PROVE  TypeOK'
  <2>1. /\ phase' \in [Requests -> Phases]
        /\ UNCHANGED <<request, at, stores, item, faults>>
    <3>1. CASE Begin(r)
      BY <3>1 DEF TypeOK, Begin, Enter, FirstPhase, Phases, Ended
    <3>2. CASE CheckVersion(r)
      <4>1. PICK p \in {"deprecating", "storing"} : Enter(r, p)
        BY <3>2 DEF CheckVersion
      <4>. QED
        BY <3>2, <4>1 DEF TypeOK, CheckVersion, Enter, Phases
    <3>3. CASE MarkReady(r)
      BY <3>3 DEF TypeOK, MarkReady, Enter, Phases, Ended
    <3>. QED
      BY <1>3, <3>1, <3>2, <3>3
  <2>2. status' \in [Requests -> {"active", "deprecated"}]
    <3>1. CASE CheckVersion(r)
      <4>1. PICK s \in {"active", "deprecated"} : status' = [status EXCEPT ![r] = s]
        BY <3>1 DEF CheckVersion
      <4>. QED
        BY <4>1 DEF TypeOK
    <3>2. CASE ~CheckVersion(r)
      BY <1>3, <3>2 DEF TypeOK, Begin, MarkReady
    <3>. QED
      BY <3>1, <3>2
  <2>. QED
    BY <2>1, <2>2 DEF TypeOK, request, stores, Docs
<1>4. ASSUME NEW r \in Requests, Deprecate(r) \/ Store(r) PROVE TypeOK'
  <2>. Doc(r) \in Docs
    BY DocInDocs
  <2>1. row' \in [Docs -> {"none", "active", "deprecated"}]
    BY <1>4 DEF TypeOK, Deprecate, Store, WithoutOlder
  <2>2. ingest' \in [Docs -> {"none", "CHUNKED", "KB_READY", "FAILED"}]
    BY <1>4 DEF TypeOK, Deprecate, Store, NewIngest
  <2>3. phase' \in [Requests -> Phases]
    BY <1>4 DEF TypeOK, Deprecate, Store, Enter, Phases, Ended
  <2>4. UNCHANGED <<request, at, status, vector, item, faults>>
    BY <1>4 DEF Deprecate, Store
  <2>. QED
    BY <2>1, <2>2, <2>3, <2>4 DEF TypeOK, request, Docs
<1>5. ASSUME NEW r \in Requests, Index(r) PROVE TypeOK'
  <2>. Doc(r) \in Docs
    BY DocInDocs
  <2>1. /\ vector' \in [Docs -> {"none", "active", "deprecated"}]
        /\ UNCHANGED <<request, row, ingest, faults>>
    BY <1>5 DEF TypeOK, Index
  <2>2. CASE kind[r] = "uploads"
    <3>1. /\ phase' \in [Requests -> Phases]
          /\ UNCHANGED <<at, status, item>>
      BY <1>5, <2>2 DEF TypeOK, Index, Enter, Phases, Ended
    <3>. QED
      BY <2>1, <3>1 DEF TypeOK, request, Docs
  <2>3. CASE kind[r] # "uploads"
    <3>1. NextFile(r, "ok")
      BY <1>5, <2>3 DEF Index
    <3>. QED
      BY <2>1, <3>1, NextFileTypes DEF TypeOK, request, Docs
  <2>. QED
    BY <2>2, <2>3
<1>6. ASSUME NEW r \in Requests, FileFails(r) PROVE TypeOK'
  <2>1. /\ NextFile(r, "failed") /\ WriteRaises(r) /\ UNCHANGED request
        /\ faults' \in 0..MaxFaults
    BY <1>6 DEF FileFails, Fault, TypeOK
  <2>. QED
    BY <2>1, NextFileTypes, WriteRaisesTypes DEF TypeOK, request, Docs
<1>7. ASSUME NEW r \in Requests, RequestFails(r) PROVE TypeOK'
  <2>1. /\ WriteRaises(r) /\ UNCHANGED <<request, at, status, item>>
        /\ faults' \in 0..MaxFaults /\ phase' \in [Requests -> Phases]
    BY <1>7 DEF RequestFails, Fault, TypeOK, Enter, Phases, Ended
  <2>. QED
    BY <2>1, WriteRaisesTypes DEF TypeOK, request, Docs
<1>8. ASSUME NEW r \in Requests, Crash(r) PROVE TypeOK'
  BY <1>8 DEF TypeOK, Crash, Fault, Enter, Phases, Ended, request, stores, Docs
<1>. QED
  BY <1>1, <1>2, <1>3, <1>4, <1>5, <1>6, <1>7, <1>8 DEF Next

\* Requests, items and both stores have their types in every state.
THEOREM TypeCorrect == Spec => []TypeOK
<1>1. Init => TypeOK
  BY InitKInv DEF KInv
<1>. QED
  BY <1>1, NextTypes, PTL DEF Spec

-----------------------------------------------------------------------------
\* No step removes a document from a store, and vectors come after rows.
LEMMA StepsGrowTheStores ==
    ASSUME KInv, NEW r \in Requests,
           StepOf(r)
    PROVE  StoresGrow
<1>. Doc(r) \in Docs /\ TypeOK /\ StoredSoFar(r)
  BY DocInDocs DEF KInv
<1>. status[r] # "none"
  BY DEF TypeOK
<1>1. CASE UNCHANGED stores
  BY <1>1 DEF StoresGrow, stores
<1>2. CASE row' = WithoutOlder(r) /\ UNCHANGED vector
  BY <1>2 DEF StoresGrow, WithoutOlder, Active, TypeOK
<1>3. CASE row' = [row EXCEPT ![Doc(r)] = status[r]] /\ UNCHANGED vector
  BY <1>3 DEF StoresGrow, TypeOK
<1>4. CASE phase[r] = "indexing" /\ vector' = [vector EXCEPT ![Doc(r)] = status[r]] /\ UNCHANGED row
  BY <1>4 DEF StoresGrow, TypeOK, StoredSoFar
<1>5. CASE WriteRaises(r)
  BY <1>1, <1>2, <1>3, <1>4, <1>5 DEF WriteRaises
<1>6. CASE ~WriteRaises(r)
  BY <1>1, <1>2, <1>3, <1>4, <1>6
  DEF StepOf, Begin, RejectFile, CheckVersion, Deprecate, Store, Index, MarkReady, WriteFiles,
      FileFails, RequestFails, Crash, stores
<1>. QED
  BY <1>5, <1>6

\* A step of one request leaves the others where they are.
LEMMA OthersStay ==
    ASSUME TypeOK, NEW r \in Requests, StepOf(r), NEW q \in Requests, q # r
    PROVE  phase'[q] = phase[q] /\ status'[q] = status[q] /\ at'[q] = at[q]
BY DEF TypeOK, StepOf, Begin, RejectFile, CheckVersion, Deprecate, Store, Index, MarkReady,
       WriteFiles, FileFails, RequestFails, Crash, NextFile, Enter

\* Going on to the next file leads to no phase in which something is stored.
LEMMA NextFileLeads ==
    ASSUME TypeOK, NEW r \in Requests, NEW outcome, NextFile(r, outcome)
    PROVE  phase'[r] \in {"checking", "storing", "answered"}
BY DEF TypeOK, NextFile, Enter, FirstPhase

\* Where a step that keeps the invariant for the phases of its request leads.
LEMMA StepStores ==
    ASSUME KInv, NEW r \in Requests, StepOf(r)
    PROVE  StoredSoFar(r)'
<1>. Doc(r) \in Docs /\ TypeOK /\ StoredSoFar(r) /\ StoresGrow
  BY DocInDocs, StepsGrowTheStores DEF KInv
<1>. status[r] # "none"
  BY DEF TypeOK
<1>1. CASE phase'[r] \notin {"indexing", "marking", "filing"}
  BY <1>1 DEF StoredSoFar
<1>2. CASE Store(r)
  <2>1. phase'[r] = "indexing" /\ Doc(r)' = Doc(r) /\ row'[Doc(r)] = status[r]
    BY <1>2 DEF Store, Enter, TypeOK, Doc
  <2>. QED
    BY <2>1 DEF StoredSoFar
<1>3. CASE Index(r) /\ kind[r] = "uploads"
  <2>1. /\ phase'[r] = "marking" /\ Doc(r)' = Doc(r) /\ vector'[Doc(r)] = status[r]
        /\ phase[r] = "indexing" /\ row' = row
    BY <1>3 DEF Index, Enter, TypeOK, Doc
  <2>. QED
    BY <2>1 DEF StoredSoFar
<1>4. CASE MarkReady(r)
  <2>1. /\ phase'[r] = "filing" /\ Doc(r)' = Doc(r) /\ vector' = vector
        /\ phase[r] = "marking" /\ row' = row
    BY <1>4 DEF MarkReady, Enter, TypeOK, Doc, stores
  <2>. QED
    BY <2>1 DEF StoredSoFar
<1>5. CASE Begin(r) \/ CheckVersion(r) \/ Deprecate(r) \/ RequestFails(r) \/ Crash(r)
  <2>1. phase'[r] \notin {"indexing", "marking", "filing"}
    BY <1>5 DEF Begin, CheckVersion, Deprecate, RequestFails, Crash, Enter, FirstPhase, TypeOK
  <2>. QED
    BY <2>1, <1>1
<1>6. CASE RejectFile(r) \/ WriteFiles(r) \/ FileFails(r) \/ (Index(r) /\ kind[r] # "uploads")
  <2>1. \E o : NextFile(r, o)
    BY <1>6 DEF RejectFile, WriteFiles, FileFails, Index
  <2>. QED
    BY <2>1, <1>1, NextFileLeads
<1>. QED
  BY <1>2, <1>3, <1>4, <1>5, <1>6 DEF StepOf

\* An item becomes ok only when both stores hold its document.
LEMMA StepItems ==
    ASSUME KInv, NEW r \in Requests, StepOf(r), NEW d \in Docs
    PROVE  DocumentStored(d)'
<1>. Doc(r) \in Docs /\ TypeOK /\ StoredSoFar(r) /\ StoresGrow /\ DocumentStored(d)
  BY DocInDocs, StepsGrowTheStores DEF KInv
<1>. status[r] # "none"
  BY DEF TypeOK
<1>1. vector'[d] # "none" => row'[d] # "none"
  BY DEF StoresGrow, DocumentStored
<1>2. item'[d] = "ok" => item[d] = "ok" \/ (d = Doc(r) /\ (WriteFiles(r) \/ Index(r)))
  BY DEF TypeOK, StepOf, Begin, RejectFile, CheckVersion, Deprecate, Store, Index, MarkReady,
         WriteFiles, FileFails, RequestFails, Crash, NextFile
<1>3. WriteFiles(r) => row'[Doc(r)] # "none" /\ vector'[Doc(r)] # "none"
  BY DEF WriteFiles, StoredSoFar, stores
<1>4. Index(r) => row'[Doc(r)] # "none" /\ vector'[Doc(r)] # "none"
  BY DEF Index, StoredSoFar, TypeOK
<1>5. item'[d] = "ok" => row'[d] # "none" /\ vector'[d] # "none"
  BY <1>2, <1>3, <1>4 DEF StoresGrow, DocumentStored
<1>. QED
  BY <1>1, <1>5 DEF DocumentStored

\* The invariant is inductive.
LEMMA NextKInv == KInv /\ [Next]_vars => KInv'
<1>. SUFFICES ASSUME KInv, [Next]_vars PROVE KInv'
  OBVIOUS
<1>. TypeOK /\ TypeOK'
  BY NextTypes DEF KInv
<1>1. CASE UNCHANGED vars
  BY <1>1 DEF KInv, vars, request, stores, StoredSoFar, DocumentStored, Doc
<1>2. ASSUME NEW r \in Requests, StepOf(r) PROVE KInv'
  <2>1. ASSUME NEW q \in Requests, q # r PROVE StoredSoFar(q)'
    <3>1. phase'[q] = phase[q] /\ Doc(q)' = Doc(q) /\ Doc(q) \in Docs
      BY <1>2, <2>1, OthersStay, DocInDocs DEF Doc
    <3>. QED
      BY <3>1, <1>2, StepsGrowTheStores DEF KInv, StoresGrow, StoredSoFar
  <2>2. \A q \in Requests : StoredSoFar(q)'
    BY <1>2, <2>1, StepStores
  <2>3. \A d \in Docs : DocumentStored(d)'
    BY <1>2, StepItems
  <2>. QED
    BY <2>2, <2>3 DEF KInv, Docs
<1>. QED
  BY <1>1, <1>2 DEF Next, StepOf

\* A request that answers SUCCEEDED left every document in both stores, and no
\* request leaves vectors without rows (expert_library.ingest_directory).
THEOREM AnswerIsStored == Spec => []AnswerMatchesStores
<1>1. KInv => AnswerMatchesStores
  <2>. SUFFICES ASSUME KInv, NEW r \in Requests, NEW i \in 1..files[r]
                PROVE  /\ phase[r] = "answered" /\ Answer(r) = "SUCCEEDED" =>
                             row[<<r, i>>] # "none" /\ vector[<<r, i>>] # "none"
                       /\ vector[<<r, i>>] # "none" => row[<<r, i>>] # "none"
    BY DEF AnswerMatchesStores
  <2>1. <<r, i>> \in Docs
    BY DEF KInv, TypeOK, Docs
  <2>2. DocumentStored(<<r, i>>)
    BY <2>1 DEF KInv
  <2>3. Answer(r) = "SUCCEEDED" => item[<<r, i>>] = "ok"
    BY DEF Answer
  <2>. QED
    BY <2>2, <2>3 DEF DocumentStored
<1>. QED
  BY <1>1, InitKInv, NextKInv, PTL DEF Spec

-----------------------------------------------------------------------------
\* A form's documents have no version.  While request r deprecates, none of its
\* own active versions is newer than the one at hand; when it stores an active
\* one, none of them is another version.
Versions(r) ==
    /\ \A i \in 1..MaxFiles : kind[r] = "structured" => year[<<r, i>>] = 0
    /\ phase[r] = "deprecating" => \A e \in Active : e[1] = r => year[e] <= year[Doc(r)]
    /\ phase[r] = "storing" /\ status[r] = "active" /\ year[Doc(r)] # 0 =>
          \A e \in Active : e[1] = r => year[e] = year[Doc(r)]

VInv == TypeOK /\ OneVersionPerRequest /\ \A r \in Requests : Versions(r)

\* Nothing is active, deprecating or storing at first.
LEMMA InitVInv == Init => VInv
<1>. SUFFICES ASSUME Init PROVE VInv
  OBVIOUS
<1>1. TypeOK
  BY InitKInv DEF KInv
<1>2. Active = {}
  BY DEF Init, Active
<1>3. \A r \in Requests : Versions(r)
  BY DEF Init, Versions
<1>. QED
  BY <1>1, <1>2, <1>3 DEF VInv, OneVersionPerRequest

\* A step makes at most one document active: the one a request stores with the
\* status its version check found.
LEMMA ActiveAfter ==
    ASSUME TypeOK, NEW r \in Requests, StepOf(r), NEW d \in Active'
    PROVE  /\ d \in Docs /\ year' = year /\ year[d] # 0
           /\ d \in Active \/ (d = Doc(r) /\ phase[r] = "storing" /\ status[r] = "active")
<1>. Doc(r) \in Docs
  BY DocInDocs
<1>0. year' = year
  BY DEF StepOf, Begin, RejectFile, CheckVersion, Deprecate, Store, Index, MarkReady,
         WriteFiles, FileFails, RequestFails, Crash, request
<1>1. d \in Docs /\ row'[d] = "active" /\ year[d] # 0
  BY <1>0 DEF Active, Docs
<1>2. CASE row' = row
  BY <1>0, <1>1, <1>2 DEF Active
<1>3. CASE row' = WithoutOlder(r)
  BY <1>0, <1>1, <1>3 DEF Active, WithoutOlder
<1>4. CASE phase[r] = "storing" /\ row' = [row EXCEPT ![Doc(r)] = status[r]]
  BY <1>0, <1>1, <1>4 DEF Active, TypeOK
<1>5. row' = row \/ row' = WithoutOlder(r)
         \/ (phase[r] = "storing" /\ row' = [row EXCEPT ![Doc(r)] = status[r]])
  BY DEF StepOf, Begin, RejectFile, CheckVersion, Deprecate, Store, Index, MarkReady,
         WriteFiles, FileFails, RequestFails, Crash, WriteRaises, stores
<1>. QED
  BY <1>0, <1>1, <1>2, <1>3, <1>4, <1>5

\* The request that steps keeps its versions in order.
LEMMA StepVersions ==
    ASSUME AutoDeprecate, VInv, NEW r \in Requests, StepOf(r), TypeOK'
    PROVE  Versions(r)'
<1>. TypeOK /\ Versions(r) /\ Doc(r) \in Docs
  BY DocInDocs DEF VInv
<1>0. year' = year /\ kind' = kind
  BY DEF StepOf, Begin, RejectFile, CheckVersion, Deprecate, Store, Index, MarkReady,
         WriteFiles, FileFails, RequestFails, Crash, request
<1>b. \A e \in Docs : year[e] \in Nat
  <2>1. Years \cup {0} \subseteq Nat
    OBVIOUS
  <2>2. year \in [Docs -> Years \cup {0}]
    BY DEF TypeOK
  <2>. QED
    BY <2>1, <2>2
<1>a. \A i \in 1..MaxFiles : kind'[r] = "structured" => year'[<<r, i>>] = 0
  BY <1>0 DEF Versions
<1>1. CASE phase'[r] \notin {"deprecating", "storing"}
  BY <1>a, <1>1 DEF Versions
<1>2. CASE kind[r] = "structured" /\ phase'[r] = "storing"
  <2>1. year'[Doc(r)'] = 0
    BY <1>a, <1>0, <1>2 DEF TypeOK, Doc
  <2>. QED
    BY <1>a, <1>2, <2>1 DEF Versions
<1>3. CASE CheckVersion(r)
  <2>1. Doc(r)' = Doc(r) /\ Active' = Active
    BY <1>3, <1>0 DEF CheckVersion, Doc, Active, Docs, stores
  <2>2. year[Doc(r)] \in Nat /\ \A e \in Active : year[e] \in Nat
    BY <1>b DEF Active
  <2>3. CASE year[Doc(r)] # 0 /\ \A e \in Active : year[Doc(r)] >= year[e]
    <3>1. phase'[r] = "deprecating"
      BY <1>3, <2>3 DEF CheckVersion, Enter, TypeOK
    <3>. QED
      BY <1>a, <1>0, <2>1, <2>2, <2>3, <3>1 DEF Versions
  <2>4. CASE year[Doc(r)] # 0 /\ ~(\A e \in Active : year[Doc(r)] >= year[e])
    <3>1. phase'[r] = "storing" /\ status'[r] = "deprecated"
      BY <1>3, <2>4 DEF CheckVersion, Enter, TypeOK
    <3>. QED
      BY <1>a, <3>1 DEF Versions
  <2>5. CASE year[Doc(r)] = 0
    <3>1. phase'[r] = "storing" /\ year'[Doc(r)'] = 0
      BY <1>3, <1>0, <2>1, <2>5 DEF CheckVersion, Enter, TypeOK
    <3>. QED
      BY <1>a, <3>1 DEF Versions
  <2>. QED
    BY <2>3, <2>4, <2>5
<1>4. CASE Deprecate(r)
  <2>1. /\ Doc(r)' = Doc(r) /\ phase'[r] = "storing" /\ phase[r] = "deprecating"
        /\ row' = WithoutOlder(r)
    BY <1>4 DEF Deprecate, Doc, Enter, TypeOK
  <2>2. ASSUME NEW e \in Active', e[1] = r PROVE year[e] = year[Doc(r)]
    <3>1. e \in Docs /\ row'[e] = "active" /\ year[e] # 0
      BY <1>0, <2>2 DEF Active, Docs
    <3>2. e \in Active /\ ~(year[e] < year[Doc(r)])
      BY <2>1, <3>1 DEF WithoutOlder, Active
    <3>3. year[e] <= year[Doc(r)]
      BY <2>1, <2>2, <3>2 DEF Versions
    <3>4. year[e] \in Nat /\ year[Doc(r)] \in Nat
      BY <1>b, <3>1
    <3>. QED
      BY <3>2, <3>3, <3>4
  <2>. QED
    BY <1>a, <1>0, <2>1, <2>2 DEF Versions
<1>5. CASE ~CheckVersion(r) /\ ~Deprecate(r)
  <2>1. phase'[r] # "deprecating"
    BY <1>5, NextFileLeads
    DEF TypeOK, StepOf, Begin, RejectFile, Store, Index, MarkReady, WriteFiles, FileFails,
        RequestFails, Crash, Enter, FirstPhase
  <2>2. phase'[r] = "storing" => kind[r] = "structured"
    BY <1>5
    DEF TypeOK, StepOf, Begin, RejectFile, Store, Index, MarkReady, WriteFiles, FileFails,
        RequestFails, Crash, Enter, FirstPhase, NextFile
  <2>. QED
    BY <1>1, <1>2, <2>1, <2>2
<1>. QED
  BY <1>3, <1>4, <1>5

\* The invariant about versions is inductive when older versions are deprecated.
LEMMA NextVInv == AutoDeprecate /\ VInv /\ [Next]_vars => VInv'
<1>. SUFFICES ASSUME AutoDeprecate, VInv, [Next]_vars PROVE VInv'
  OBVIOUS
<1>. TypeOK /\ TypeOK'
  BY NextTypes DEF VInv
<1>1. CASE UNCHANGED vars
  BY <1>1 DEF VInv, vars, request, stores, OneVersionPerRequest, Versions, Active, Docs, Doc
<1>2. ASSUME NEW r \in Requests, StepOf(r) PROVE VInv'
  <2>0. year' = year /\ kind' = kind
    BY <1>2 DEF StepOf, Begin, RejectFile, CheckVersion, Deprecate, Store, Index, MarkReady,
           WriteFiles, FileFails, RequestFails, Crash, request
  <2>1. OneVersionPerRequest'
    <3>. SUFFICES ASSUME NEW d \in Active', NEW e \in Active', d[1] = e[1]
                  PROVE  year[d] = year[e]
      BY <2>0 DEF OneVersionPerRequest
    <3>1. Versions(r) /\ OneVersionPerRequest /\ Doc(r)[1] = r
      BY DEF VInv, Doc
    <3>2. /\ d \in Active \/ (d = Doc(r) /\ phase[r] = "storing" /\ status[r] = "active")
          /\ e \in Active \/ (e = Doc(r) /\ phase[r] = "storing" /\ status[r] = "active")
          /\ year[d] # 0 /\ year[e] # 0
      BY <1>2, ActiveAfter
    <3>3. CASE d \in Active /\ e \in Active
      BY <3>1, <3>3 DEF OneVersionPerRequest
    <3>4. CASE d \in Active /\ e \notin Active
      BY <3>1, <3>2, <3>4 DEF Versions
    <3>5. CASE d \notin Active /\ e \in Active
      BY <3>1, <3>2, <3>5 DEF Versions
    <3>6. CASE d \notin Active /\ e \notin Active
      BY <3>2, <3>6
    <3>. QED
      BY <3>3, <3>4, <3>5, <3>6
  <2>2. ASSUME NEW q \in Requests, q # r PROVE Versions(q)'
    <3>1. /\ phase'[q] = phase[q] /\ status'[q] = status[q] /\ Doc(q)' = Doc(q)
          /\ Versions(q) /\ Doc(r)[1] = r
      BY <1>2, <2>2, OthersStay DEF Doc, VInv
    <3>2. ASSUME NEW e \in Active', e[1] = q PROVE e \in Active
      BY <1>2, <2>2, <3>1, <3>2, ActiveAfter
    <3>. QED
      BY <2>0, <3>1, <3>2 DEF Versions
  <2>3. \A q \in Requests : Versions(q)'
    BY <1>2, <2>2, StepVersions
  <2>. QED
    BY <2>1, <2>3 DEF VInv
<1>. QED
  BY <1>1, <1>2 DEF Next, StepOf

\* Of the versions of a standard one request brings, one is active at any
\* time, whatever other requests do (expert_library.auto_deprecate_old_versions).
THEOREM OneVersionActive ==
    ASSUME AutoDeprecate PROVE Spec => []OneVersionPerRequest
<1>1. VInv => OneVersionPerRequest
  BY DEF VInv
<1>2. VInv /\ [Next]_vars => VInv'
  BY NextVInv
<1>. QED
  BY <1>1, <1>2, InitVInv, PTL DEF Spec

-----------------------------------------------------------------------------
\* No version of which the ingestion has begun is newer.
Newest(d) == year[d] = 0 \/ \A e \in Docs : Begun(e) => year[e] <= year[d]

\* As long as no newer version begins, the document request r works on is
\* found active and stored as such.
InForce(r) ==
    /\ phase[r] = "idle" => status[r] = "active"
    /\ kind[r] # "uploads" =>
         /\ phase[r] \notin {"checking", "deprecating"}
         /\ phase[r] = "storing" => status[r] = "active"
    /\ Newest(Doc(r)) =>
         /\ phase[r] \in {"deprecating", "storing", "indexing", "marking", "filing"} =>
               status[r] = "active"
         /\ phase[r] \in {"indexing", "marking", "filing"} => row[Doc(r)] = "active"
         /\ phase[r] \in {"marking", "filing"} => vector[Doc(r)] = "active"

FInv ==
    /\ TypeOK
    /\ \A d \in Docs : row[d] # "none" => Begun(d)
    /\ \A r \in Requests : InForce(r)
    /\ \A d \in Docs : item[d] = "ok" /\ Newest(d) => row[d] = "active" /\ vector[d] = "active"

\* Nothing has begun at first.
LEMMA InitFInv == Init => FInv
<1>. SUFFICES ASSUME Init PROVE FInv
  OBVIOUS
<1>1. TypeOK
  BY InitKInv DEF KInv
<1>2. \A r \in Requests : InForce(r)
  BY DEF Init, InForce
<1>. QED
  BY <1>1, <1>2 DEF Init, FInv

\* What a step does to the stores, one document at a time.
LEMMA StepWrites ==
    ASSUME TypeOK, NEW r \in Requests, StepOf(r)
    PROVE  /\ year' = year /\ kind' = kind
           /\ \/ row' = row
              \/ phase[r] = "deprecating" /\ row' = WithoutOlder(r)
              \/ phase[r] = "storing" /\ row' = [row EXCEPT ![Doc(r)] = status[r]]
           /\ \/ vector' = vector
              \/ phase[r] = "indexing" /\ vector' = [vector EXCEPT ![Doc(r)] = status[r]]
BY DEF StepOf, Begin, RejectFile, CheckVersion, Deprecate, Store, Index, MarkReady,
       WriteFiles, FileFails, RequestFails, Crash, WriteRaises, stores, request

\* What has begun has begun for good, so that what is the newest version now
\* was the newest before.
LEMMA NewestBefore ==
    ASSUME TypeOK, NEW r \in Requests, StepOf(r), NEW d \in Docs
    PROVE  /\ Begun(d) => Begun(d)'
           /\ Newest(d)' => Newest(d)
<1>1. ASSUME NEW e \in Docs, Begun(e) PROVE Begun(e)'
  <2>. e[1] \in Requests /\ e[2] \in Nat
    BY DEF Docs
  <2>1. CASE e[1] # r
    BY <1>1, <2>1, OthersStay DEF Begun
  <2>2. CASE e[1] = r
    <3>1. phase'[r] # "idle"
      BY DEF TypeOK, StepOf, Begin, RejectFile, CheckVersion, Deprecate, Store, Index,
             MarkReady, WriteFiles, FileFails, RequestFails, Crash, NextFile, Enter, FirstPhase
    <3>2. at'[r] \in Nat /\ at[r] \in Nat /\ at'[r] >= at[r]
      BY DEF TypeOK, StepOf, Begin, RejectFile, CheckVersion, Deprecate, Store, Index,
             MarkReady, WriteFiles, FileFails, RequestFails, Crash, NextFile
    <3>. QED
      BY <1>1, <2>2, <3>1, <3>2 DEF Begun
  <2>. QED
    BY <2>1, <2>2
<1>2. Docs' = Docs /\ year' = year
  BY StepWrites DEF Docs
<1>3. Newest(d)' => Newest(d)
  BY <1>1, <1>2 DEF Newest
<1>. QED
  BY <1>1, <1>3

\* A document that is still the newest version stays active in both stores.
LEMMA NewestStays ==
    ASSUME FInv, NEW r \in Requests, StepOf(r), NEW d \in Docs, Newest(d)
    PROVE  /\ row[d] = "active" => row'[d] = "active"
           /\ vector[d] = "active" => vector'[d] = "active"
<1>. Doc(r) \in Docs /\ TypeOK /\ InForce(r)
  BY DocInDocs DEF FInv
<1>b. \A e \in Docs : year[e] \in Nat
  <2>1. Years \cup {0} \subseteq Nat
    OBVIOUS
  <2>2. year \in [Docs -> Years \cup {0}]
    BY DEF TypeOK
  <2>. QED
    BY <2>1, <2>2
<1>2. ASSUME row[d] = "active", phase[r] = "deprecating", row' = WithoutOlder(r)
      PROVE  row'[d] = "active"
  <2>1. Begun(Doc(r))
    BY <1>2 DEF Begun, Doc, TypeOK
  <2>2. d \notin Active \/ ~(year[d] < year[Doc(r)])
    BY <1>b, <2>1 DEF Newest, Active
  <2>. QED
    BY <1>2, <2>2 DEF WithoutOlder
<1>3. ASSUME row[d] = "active", phase[r] = "storing",
             row' = [row EXCEPT ![Doc(r)] = status[r]]
      PROVE  row'[d] = "active"
  BY <1>3 DEF InForce, TypeOK
<1>4. row[d] = "active" => row'[d] = "active"
  BY <1>2, <1>3, StepWrites
<1>5. vector[d] = "active" => vector'[d] = "active"
  BY StepWrites DEF InForce, TypeOK
<1>. QED
  BY <1>4, <1>5

\* The request that steps stores as active what is still the newest version.
LEMMA StepInForce ==
    ASSUME FInv, NEW r \in Requests, StepOf(r)
    PROVE  InForce(r)'
<1>. Doc(r) \in Docs /\ TypeOK /\ InForce(r)
  BY DocInDocs DEF FInv
<1>0. year' = year /\ kind' = kind
  BY StepWrites
<1>1. CASE /\ Begin(r) \/ RejectFile(r) \/ WriteFiles(r) \/ FileFails(r)
              \/ (Index(r) /\ kind[r] # "uploads")
  <2>1. phase'[r] = FirstPhase(r) \/ phase'[r] = "answered"
    BY <1>1 DEF Begin, RejectFile, WriteFiles, FileFails, Index, NextFile, Enter, TypeOK
  <2>2. status'[r] = "active"
    BY <1>1 DEF Begin, RejectFile, WriteFiles, FileFails, Index, NextFile, TypeOK, InForce
  <2>3. kind[r] # "uploads" => phase'[r] \in {"storing", "answered"}
    BY <2>1 DEF FirstPhase
  <2>4. phase'[r] \in {"checking", "storing", "answered"}
    BY <2>1 DEF FirstPhase
  <2>. QED
    BY <1>0, <2>2, <2>3, <2>4 DEF InForce
<1>2. CASE RequestFails(r) \/ Crash(r)
  <2>1. phase'[r] \in {"raised", "lost"}
    BY <1>2 DEF RequestFails, Crash, Enter, TypeOK
  <2>. QED
    BY <2>1 DEF InForce
<1>3. CASE CheckVersion(r)
  <2>1. /\ phase'[r] \in {"deprecating", "storing"} /\ Doc(r)' = Doc(r)
        /\ phase[r] = "checking"
    BY <1>3 DEF CheckVersion, Enter, TypeOK, Doc
  <2>2. Newest(Doc(r)) => status'[r] = "active"
    <3>. SUFFICES ASSUME Newest(Doc(r)), year[Doc(r)] # 0 PROVE status'[r] = "active"
      BY <1>3 DEF CheckVersion, TypeOK
    <3>1. \A d \in Active : d \in Docs /\ Begun(d)
      BY DEF FInv, Active
    <3>2. \A d \in Active : year[Doc(r)] >= year[d]
      BY <3>1 DEF Newest
    <3>. QED
      BY <1>3, <3>2 DEF CheckVersion, TypeOK
  <2>3. kind'[r] = "uploads"
    BY <1>0, <2>1 DEF InForce, TypeOK
  <2>4. Newest(Doc(r))' => Newest(Doc(r))
    BY <2>1, NewestBefore
  <2>. QED
    BY <2>1, <2>2, <2>3, <2>4 DEF InForce
<1>4. CASE Deprecate(r)
  <2>1. /\ phase[r] = "deprecating" /\ phase'[r] = "storing" /\ Doc(r)' = Doc(r)
        /\ status' = status
        /\ Newest(Doc(r))' => Newest(Doc(r))
    BY <1>4, NewestBefore DEF Deprecate, Enter, TypeOK, Doc
  <2>. QED
    BY <1>0, <2>1 DEF InForce
<1>5. CASE Store(r)
  <2>1. /\ phase[r] = "storing" /\ phase'[r] = "indexing" /\ Doc(r)' = Doc(r)
        /\ status' = status /\ row'[Doc(r)] = status[r]
        /\ Newest(Doc(r))' => Newest(Doc(r))
    BY <1>5, NewestBefore DEF Store, Enter, TypeOK, Doc
  <2>. QED
    BY <1>0, <2>1 DEF InForce
<1>6. CASE Index(r) /\ kind[r] = "uploads"
  <2>1. /\ phase[r] = "indexing" /\ phase'[r] = "marking" /\ Doc(r)' = Doc(r)
        /\ status' = status /\ row' = row /\ vector'[Doc(r)] = status[r]
        /\ Newest(Doc(r))' => Newest(Doc(r))
    BY <1>6, NewestBefore DEF Index, Enter, TypeOK, Doc
  <2>. QED
    BY <1>0, <1>6, <2>1 DEF InForce
<1>7. CASE MarkReady(r)
  <2>1. /\ phase[r] = "marking" /\ phase'[r] = "filing" /\ Doc(r)' = Doc(r)
        /\ status' = status /\ row' = row /\ vector' = vector
        /\ Newest(Doc(r))' => Newest(Doc(r))
    BY <1>7, NewestBefore DEF MarkReady, Enter, TypeOK, Doc, stores
  <2>. QED
    BY <1>0, <2>1 DEF InForce
<1>. QED
  BY <1>1, <1>2, <1>3, <1>4, <1>5, <1>6, <1>7 DEF StepOf

\* A document has rows only once its ingestion has begun.
LEMMA StepBegun ==
    ASSUME FInv, NEW r \in Requests, StepOf(r), NEW d \in Docs, row'[d] # "none"
    PROVE  Begun(d)'
<1>. Doc(r) \in Docs /\ TypeOK
  BY DocInDocs DEF FInv
<1>1. row[d] # "none" \/ (d = Doc(r) /\ phase[r] = "storing")
  BY StepWrites DEF WithoutOlder, Active, TypeOK
<1>2. phase[r] = "storing" => Begun(Doc(r))
  BY DEF Begun, Doc, TypeOK
<1>. QED
  BY <1>1, <1>2, NewestBefore DEF FInv

\* An item becomes ok while its document is active in both stores.
LEMMA StepOk ==
    ASSUME FInv, NEW r \in Requests, StepOf(r), NEW d \in Docs,
           item'[d] = "ok", Newest(d)'
    PROVE  row'[d] = "active" /\ vector'[d] = "active"
<1>. Doc(r) \in Docs /\ TypeOK /\ InForce(r) /\ Newest(d)
  BY DocInDocs, NewestBefore DEF FInv
<1>1. item[d] = "ok" \/ (d = Doc(r) /\ (WriteFiles(r) \/ Index(r)))
  BY DEF TypeOK, StepOf, Begin, RejectFile, CheckVersion, Deprecate, Store, Index, MarkReady,
         WriteFiles, FileFails, RequestFails, Crash, NextFile
<1>2. CASE item[d] = "ok"
  BY <1>2, NewestStays DEF FInv
<1>3. CASE d = Doc(r) /\ WriteFiles(r)
  BY <1>3 DEF WriteFiles, InForce, stores
<1>4. CASE d = Doc(r) /\ Index(r)
  BY <1>4 DEF Index, InForce, TypeOK
<1>. QED
  BY <1>1, <1>2, <1>3, <1>4

\* The invariant about what is in force is inductive.
LEMMA NextFInv == FInv /\ [Next]_vars => FInv'
<1>. SUFFICES ASSUME FInv, [Next]_vars PROVE FInv'
  OBVIOUS
<1>. TypeOK /\ TypeOK'
  BY NextTypes DEF FInv
<1>1. CASE UNCHANGED vars
  BY <1>1 DEF FInv, vars, request, stores, InForce, Newest, Begun, Docs, Doc
<1>2. ASSUME NEW r \in Requests, StepOf(r) PROVE FInv'
  <2>1. ASSUME NEW q \in Requests, q # r PROVE InForce(q)'
    <3>1. /\ phase'[q] = phase[q] /\ status'[q] = status[q] /\ Doc(q)' = Doc(q)
          /\ Doc(q) \in Docs /\ InForce(q) /\ kind' = kind
      BY <1>2, <2>1, OthersStay, DocInDocs, StepWrites DEF Doc, FInv
    <3>2. Newest(Doc(q))' => Newest(Doc(q))
      BY <1>2, <3>1, NewestBefore
    <3>3. Newest(Doc(q)) => /\ row[Doc(q)] = "active" => row'[Doc(q)] = "active"
                            /\ vector[Doc(q)] = "active" => vector'[Doc(q)] = "active"
      BY <1>2, <3>1, NewestStays
    <3>. QED
      BY <3>1, <3>2, <3>3 DEF InForce
  <2>2. \A q \in Requests : InForce(q)'
    BY <1>2, <2>1, StepInForce
  <2>3. \A d \in Docs : row'[d] # "none" => Begun(d)'
    BY <1>2, StepBegun
  <2>4. \A d \in Docs : item'[d] = "ok" /\ Newest(d)' => row'[d] = "active" /\ vector'[d] = "active"
    BY <1>2, StepOk
  <2>. QED
    BY <2>2, <2>3, <2>4 DEF FInv, Docs
<1>. QED
  BY <1>1, <1>2 DEF Next, StepOf

\* What was ingested stays active in the database and retrievable until the
\* ingestion of a newer version begins, whatever fails in between.
THEOREM IngestedStaysInForce == Spec => []InForceUntilSuperseded
<1>1. FInv => InForceUntilSuperseded
  BY DEF FInv, InForceUntilSuperseded, Newest, Retrievable
<1>. QED
  BY <1>1, InitFInv, NextFInv, PTL DEF Spec

-----------------------------------------------------------------------------
(* The conversion sessions of the expert library.                          *)

\* The stages of a request that has a session in hand.
SessionStages == {"files", "meta", "ingest", "ingested", "remeta"}

\* Request c is at a stage, and knows what that stage needs.
RequestKnows(c) ==
    /\ "at" \in DOMAIN job[c]
    /\ job[c].at \in {"idle", "audit", "truncate", "fill"} \cup SessionStages
    /\ job[c].at \in {"truncate", "fill"} => "then" \in DOMAIN job[c] /\ job[c].then \in {"idle", "audit"}
    /\ job[c].at \in SessionStages => "session" \in DOMAIN job[c] /\ job[c].session \in Sessions

\* A session's directory counts its files, and its meta file is the last.
DirectoryOk(s) ==
    /\ {"meta", "written"} \subseteq DOMAIN session[s]
    /\ session[s].written \in 1..Len(Artifacts)
    /\ session[s].meta # "absent" => session[s].written = Len(Artifacts)

\* Every session is unused or a directory, and a confirmed one was ingested.
SessionsOk ==
    /\ session = [s \in Sessions |-> session[s]]
    /\ ingested \in [Sessions -> Nat]
    /\ \A s \in Sessions :
         /\ session[s] = NoSession \/ DirectoryOk(s)
         /\ session[s].meta = "confirmed" => ingested[s] > 0

\* What request c rests on while it has a session in hand: before it writes
\* the meta file all the others are there, before it says "confirmed" the
\* document is stored.
RequestOk(c) ==
    /\ RequestKnows(c)
    /\ job[c].at \in SessionStages => DirectoryOk(job[c].session)
    /\ job[c].at \in {"meta", "remeta"} => session[job[c].session].written = Len(Artifacts)
    /\ job[c].at \in {"ingested", "remeta"} => ingested[job[c].session] > 0

LibraryInv ==
    /\ job = [c \in Clients |-> job[c]]
    /\ SessionsOk
    /\ \A c \in Clients : RequestOk(c)

\* The files beside the meta file are seven.
LEMMA SevenArtifacts == Len(Artifacts) = 7
BY DEF Artifacts

\* What a step adds to the sessions takes nothing from the requests that hold one.
SessionsKept ==
    \A s \in Sessions :
      /\ DirectoryOk(s) => DirectoryOk(s)'
      /\ DirectoryOk(s) /\ session[s].written = Len(Artifacts) => session'[s].written = Len(Artifacts)
      /\ ingested[s] > 0 => ingested'[s] > 0

\* A step that writes to no session leaves them as they should be.
LEMMA NothingWritten ==
    ASSUME LibraryInv, UNCHANGED <<session, ingested>>
    PROVE  SessionsOk' /\ SessionsKept
BY DEF LibraryInv, SessionsOk, SessionsKept, DirectoryOk

\* A new directory has one file, and no meta file.
LEMMA NewDirectory ==
    ASSUME NEW d, NEW t
    PROVE  LET new == Directory(d, t)
           IN  {"meta", "written"} \subseteq DOMAIN new /\ new.meta = "absent" /\ new.written = 1
BY DEF Directory

\* A conversion starts a directory nobody else holds.
LEMMA Converted ==
    ASSUME LibraryInv, NEW c \in Clients, NEW s \in Sessions, NEW d \in Documents,
           convert_upload_to_structured(c, s, d)
    PROVE  /\ SessionsOk' /\ SessionsKept /\ DirectoryOk(s)'
           /\ job' = [job EXCEPT ![c] = [at |-> "files", session |-> s]] \/ job' = [job EXCEPT ![c] = Idle]
<1>. DEFINE new == Directory(d, load_thresholds("runtime"))
<1>1. /\ session' = [session EXCEPT ![s] = new]
      /\ {"meta", "written"} \subseteq DOMAIN new /\ new.meta = "absent" /\ new.written = 1
  BY NewDirectory DEF convert_upload_to_structured
<1>. HIDE DEF new
<1>2. session[s] = NoSession /\ UNCHANGED ingested
  BY Zenon DEF convert_upload_to_structured
<1>3. session' = [t \in Sessions |-> IF t = s THEN new ELSE session[t]]
  BY <1>1 DEF LibraryInv, SessionsOk
<1>4. ~DirectoryOk(s)
  BY <1>2 DEF DirectoryOk, NoSession
<1>5. DirectoryOk(s)'
  BY <1>1, <1>3, SevenArtifacts DEF DirectoryOk
<1>6. ASSUME NEW t \in Sessions, t # s
      PROVE  session'[t] = session[t]
  BY <1>3, <1>6
<1>7. SessionsOk'
  BY <1>1, <1>2, <1>3, <1>5 DEF SessionsOk, LibraryInv, DirectoryOk
<1>8. SessionsKept
  <2>1. SUFFICES ASSUME NEW t \in Sessions
                 PROVE  /\ DirectoryOk(t) => DirectoryOk(t)'
                        /\ DirectoryOk(t) /\ session[t].written = Len(Artifacts) => session'[t].written = Len(Artifacts)
                        /\ ingested[t] > 0 => ingested'[t] > 0
    BY DEF SessionsKept
  <2>2. CASE t = s
    BY <2>2, <1>2, <1>4
  <2>3. CASE t # s
    BY <2>3, <1>2, <1>6 DEF DirectoryOk
  <2>. QED
    BY <2>2, <2>3
<1>. QED
  BY <1>5, <1>7, <1>8 DEF convert_upload_to_structured, Goto


\* One more file does not touch the meta file.
LEMMA ArtifactWritten ==
    ASSUME LibraryInv, NEW c \in Clients, WriteArtifact(c)
    PROVE  SessionsOk' /\ SessionsKept
<1>. PICK s : s = job[c].session
  OBVIOUS
<1>1. s \in Sessions /\ DirectoryOk(s)
  BY Zenon DEF LibraryInv, RequestOk, RequestKnows, WriteArtifact, SessionStages
<1>2. session'[s] = [session[s] EXCEPT !.written = @ + 1] /\ session[s].written < Len(Artifacts)
  BY <1>1 DEF WriteArtifact, LibraryInv, SessionsOk
<1>3. \A t \in Sessions : t # s => session'[t] = session[t]
  BY <1>1 DEF WriteArtifact, LibraryInv, SessionsOk
<1>4. session' = [t \in Sessions |-> session'[t]] /\ UNCHANGED ingested
  BY <1>1 DEF WriteArtifact, LibraryInv, SessionsOk
<1>5. DirectoryOk(s)' /\ session'[s].meta = session[s].meta
  BY <1>1, <1>2, SevenArtifacts DEF DirectoryOk
<1>6. SessionsOk'
  BY <1>1, <1>3, <1>4, <1>5 DEF SessionsOk, LibraryInv, DirectoryOk
<1>7. SessionsKept
  BY <1>1, <1>2, <1>3, <1>4, <1>5 DEF SessionsKept, DirectoryOk
<1>. QED
  BY <1>6, <1>7

\* The meta file is touched only when the other files are there.
LEMMA MetaTorn ==
    ASSUME LibraryInv, NEW c \in Clients, TearMeta(c)
    PROVE  /\ SessionsOk' /\ SessionsKept /\ job[c].at \in SessionStages
           /\ session'[job[c].session].written = Len(Artifacts)
           /\ job' = [job EXCEPT ![c] = [job[c] EXCEPT !.at = IF @ = "files" THEN "meta" ELSE "remeta"]]
           /\ job[c].at \in {"files", "ingested"}
<1>. PICK s : s = job[c].session
  OBVIOUS
<1>1. s \in Sessions /\ DirectoryOk(s) /\ session[s].written = Len(Artifacts)
  BY Zenon DEF LibraryInv, RequestOk, RequestKnows, TearMeta, MetaDue, SessionStages
<1>2. session'[s] = [session[s] EXCEPT !.meta = "torn"]
  BY <1>1 DEF TearMeta, LibraryInv, SessionsOk
<1>3. \A t \in Sessions : t # s => session'[t] = session[t]
  BY <1>1 DEF TearMeta, LibraryInv, SessionsOk
<1>4. session' = [t \in Sessions |-> session'[t]] /\ UNCHANGED ingested
  BY <1>1 DEF TearMeta, LibraryInv, SessionsOk
<1>5. /\ job' = [job EXCEPT ![c] = [job[c] EXCEPT !.at = IF @ = "files" THEN "meta" ELSE "remeta"]]
      /\ job[c].at \in {"files", "ingested"}
  BY DEF TearMeta, Goto
<1>6. DirectoryOk(s)' /\ session'[s].meta = "torn" /\ session'[s].written = Len(Artifacts)
  BY <1>1, <1>2 DEF DirectoryOk
<1>7. SessionsOk'
  BY <1>1, <1>3, <1>4, <1>6 DEF SessionsOk, LibraryInv, DirectoryOk
<1>8. SessionsKept
  BY <1>1, <1>3, <1>4, <1>6 DEF SessionsKept, DirectoryOk
<1>. QED
  BY <1>5, <1>6, <1>7, <1>8 DEF SessionStages

\* A meta file says "confirmed" only after the document is stored.
LEMMA MetaWritten ==
    ASSUME LibraryInv, NEW c \in Clients, WriteMeta(c)
    PROVE  SessionsOk' /\ SessionsKept
<1>. PICK s : s = job[c].session
  OBVIOUS
<1>1. s \in Sessions /\ DirectoryOk(s) /\ session[s].written = Len(Artifacts)
  BY Zenon DEF LibraryInv, RequestOk, RequestKnows, WriteMeta, SessionStages
<1>2. job[c].at \in {"meta", "remeta"} /\ (job[c].at = "remeta" => ingested[s] > 0)
  BY DEF WriteMeta, LibraryInv, RequestOk
<1>3. session'[s] = [session[s] EXCEPT !.meta = IF job[c].at = "meta" THEN "open" ELSE "confirmed"]
  BY <1>1 DEF WriteMeta, LibraryInv, SessionsOk
<1>4. \A t \in Sessions : t # s => session'[t] = session[t]
  BY <1>1 DEF WriteMeta, LibraryInv, SessionsOk
<1>5. session' = [t \in Sessions |-> session'[t]] /\ UNCHANGED ingested
  BY <1>1 DEF WriteMeta, LibraryInv, SessionsOk
<1>6. /\ DirectoryOk(s)' /\ session'[s].written = Len(Artifacts)
      /\ session'[s].meta = "confirmed" => ingested[s] > 0
  BY <1>1, <1>2, <1>3 DEF DirectoryOk
<1>7. SessionsOk'
  BY <1>1, <1>4, <1>5, <1>6 DEF SessionsOk, LibraryInv, DirectoryOk
<1>8. SessionsKept
  BY <1>1, <1>4, <1>5, <1>6 DEF SessionsKept, DirectoryOk
<1>. QED
  BY <1>7, <1>8

\* A document that is stored is counted before its request goes on.
LEMMA Ingested ==
    ASSUME LibraryInv, NEW c \in Clients, Ingest(c)
    PROVE  /\ SessionsOk' /\ SessionsKept /\ job[c].at = "ingest"
           /\ \/ job' = [job EXCEPT ![c] = Idle]
              \/ /\ job' = [job EXCEPT ![c] = [at |-> "ingested", session |-> job[c].session]]
                 /\ ingested'[job[c].session] > 0
<1>. PICK s : s = job[c].session
  OBVIOUS
<1>1. s \in Sessions /\ job[c].at = "ingest" /\ UNCHANGED session
  BY Zenon DEF LibraryInv, RequestOk, RequestKnows, Ingest, SessionStages
<1>2. CASE UNCHANGED ingested /\ job' = [job EXCEPT ![c] = Idle]
  BY <1>1, <1>2, NothingWritten
<1>3. CASE /\ ingested' = [ingested EXCEPT ![s] = @ + 1]
           /\ job' = [job EXCEPT ![c] = [at |-> "ingested", session |-> s]]
  <2>1. ingested[s] \in Nat /\ ingested \in [Sessions -> Nat]
    BY <1>1 DEF LibraryInv, SessionsOk
  <2>2. /\ ingested' \in [Sessions -> Nat] /\ ingested'[s] > 0
        /\ \A t \in Sessions : ingested[t] > 0 => ingested'[t] > 0
    BY <1>1, <1>3, <2>1
  <2>3. SessionsOk'
    BY <1>1, <2>2 DEF SessionsOk, LibraryInv, DirectoryOk
  <2>4. SessionsKept
    BY <1>1, <2>2 DEF SessionsKept, DirectoryOk
  <2>. QED
    BY <1>1, <1>3, <2>2, <2>3, <2>4
<1>. QED
  BY <1>2, <1>3 DEF Ingest, IngestRefused, Goto

\* The other requests keep what they know while request c goes on.
LEMMA OthersKept ==
    ASSUME LibraryInv, SessionsOk', SessionsKept, NEW c \in Clients, NEW next,
           job' = [job EXCEPT ![c] = next], RequestOk(c)'
    PROVE  LibraryInv'
<1>1. job' = [b \in Clients |-> IF b = c THEN next ELSE job[b]]
  BY DEF LibraryInv
<1>2. ASSUME NEW b \in Clients
      PROVE  RequestOk(b)'
  <2>1. CASE b # c
    <3>1. job'[b] = job[b] /\ RequestOk(b)
      BY <1>1, <2>1 DEF LibraryInv
    <3>. QED
      BY <3>1 DEF RequestOk, RequestKnows, SessionsKept, SessionStages
  <2>. QED
    BY <2>1
<1>. QED
  BY <1>1, <1>2 DEF LibraryInv

\* Every step of every request keeps the invariant of the library.
LEMMA LibraryKept == ASSUME LibraryInv, [LibraryNext]_libraryVars PROVE LibraryInv'
<1>1. CASE UNCHANGED libraryVars
  BY <1>1 DEF libraryVars, LibraryInv, SessionsOk, RequestOk, RequestKnows, DirectoryOk, SessionStages
<1>2. ASSUME NEW c \in Clients, NEW next, UNCHANGED <<session, ingested>>, job' = [job EXCEPT ![c] = next],
             "at" \in DOMAIN next, next.at \in {"idle", "audit", "truncate", "fill"},
             next.at \in {"truncate", "fill"} => "then" \in DOMAIN next /\ next.then \in {"idle", "audit"}
      PROVE  LibraryInv'
  <2>1. job'[c] = next
    BY <1>2 DEF LibraryInv
  <2>2. RequestOk(c)'
    BY <1>2, <2>1 DEF RequestOk, RequestKnows, SessionStages
  <2>. QED
    BY <1>2, <2>2, NothingWritten, OthersKept
<1>3. ASSUME NEW c \in Clients, NEW f, NEW values, NEW next \in {"idle", "audit"}, Write(c, f, values, next)
      PROVE  LibraryInv'
  <2>. PICK target : target = [at |-> "truncate", file |-> f, values |-> values, then |-> next]
    OBVIOUS
  <2>1. /\ "at" \in DOMAIN target /\ target.at = "truncate"
        /\ "then" \in DOMAIN target /\ target.then \in {"idle", "audit"}
    OBVIOUS
  <2>2. UNCHANGED <<session, ingested>> /\ job' = [job EXCEPT ![c] = target]
    BY <1>3 DEF Write, Goto
  <2>. QED
    BY <1>2, <2>1, <2>2
<1>4. ASSUME NEW c \in Clients, NEW u \in Updates,
             update_expert_library_thresholds(c, u) \/ update_expert_library_go_live_thresholds(c, u)
      PROVE  LibraryInv'
  BY <1>3, <1>4 DEF update_expert_library_thresholds, update_expert_library_go_live_thresholds
<1>5. ASSUME NEW c \in Clients, publish_expert_library_go_live_thresholds(c)
      PROVE  LibraryInv'
  BY <1>3, <1>5 DEF publish_expert_library_go_live_thresholds
<1>6. ASSUME NEW c \in Clients, Truncate(c)
      PROVE  LibraryInv'
  <2>1. /\ "at" \in DOMAIN job[c] /\ "then" \in DOMAIN job[c] /\ job[c].then \in {"idle", "audit"}
    BY <1>6 DEF Truncate, LibraryInv, RequestOk, RequestKnows
  <2>. PICK next : next = [job[c] EXCEPT !.at = "fill"]
    OBVIOUS
  <2>2. UNCHANGED <<session, ingested>> /\ job' = [job EXCEPT ![c] = next]
    BY <1>6 DEF Truncate, Goto
  <2>3. "at" \in DOMAIN next /\ next.at = "fill" /\ "then" \in DOMAIN next /\ next.then \in {"idle", "audit"}
    BY <2>1
  <2>. QED
    BY <1>2, <2>2, <2>3
<1>7. ASSUME NEW c \in Clients, Fill(c)
      PROVE  LibraryInv'
  <2>1. job[c].then \in {"idle", "audit"}
    BY <1>7 DEF Fill, LibraryInv, RequestOk, RequestKnows
  <2>. PICK target : target = [at |-> job[c].then]
    OBVIOUS
  <2>2. "at" \in DOMAIN target /\ target.at \in {"idle", "audit"}
    BY <2>1
  <2>3. UNCHANGED <<session, ingested>> /\ job' = [job EXCEPT ![c] = target]
    BY <1>7 DEF Fill, Goto
  <2>. QED
    BY <1>2, <2>2, <2>3
<1>8. ASSUME NEW c \in Clients, AuditPublication(c) \/ Dies(c) \/ IngestFails(c)
      PROVE  LibraryInv'
  BY <1>2, <1>8 DEF AuditPublication, Dies, IngestFails, IngestRefused, Goto, Idle
<1>9. ASSUME NEW c \in Clients, NEW s \in Sessions, NEW d \in Documents, convert_upload_to_structured(c, s, d)
      PROVE  LibraryInv'
  <2>1. SessionsOk' /\ SessionsKept /\ DirectoryOk(s)'
    BY <1>9, Converted
  <2>2. CASE job' = [job EXCEPT ![c] = Idle]
    <3>1. RequestOk(c)'
      BY <2>2 DEF LibraryInv, RequestOk, RequestKnows, Idle, SessionStages
    <3>. QED
      BY <2>1, <2>2, <3>1, OthersKept
  <2>3. CASE job' = [job EXCEPT ![c] = [at |-> "files", session |-> s]]
    <3>1. RequestOk(c)'
      BY <2>1, <2>3 DEF LibraryInv, RequestOk, RequestKnows, SessionStages
    <3>. QED
      BY <2>1, <2>3, <3>1, OthersKept
  <2>. QED
    BY <1>9, <2>2, <2>3, Converted
<1>10. ASSUME NEW c \in Clients, NEW s \in Sessions, confirm_structured_conversion_ingest(c, s)
       PROVE  LibraryInv'
  <2>1. DirectoryOk(s) /\ UNCHANGED <<session, ingested>>
    BY <1>10 DEF confirm_structured_conversion_ingest, LibraryInv, SessionsOk, NoSession
  <2>2. job' = [job EXCEPT ![c] = [at |-> "ingest", session |-> s]]
    BY <1>10 DEF confirm_structured_conversion_ingest, Goto
  <2>3. RequestOk(c)'
    BY <2>1, <2>2 DEF LibraryInv, RequestOk, RequestKnows, SessionStages, DirectoryOk
  <2>. QED
    BY <2>1, <2>2, <2>3, NothingWritten, OthersKept
<1>11. ASSUME NEW c \in Clients, WriteArtifact(c)
       PROVE  LibraryInv'
  <2>1. job' = job /\ SessionsOk' /\ SessionsKept
    BY <1>11, ArtifactWritten DEF WriteArtifact
  <2>2. \A b \in Clients : RequestOk(b)'
    BY <2>1 DEF LibraryInv, RequestOk, RequestKnows, SessionsKept, SessionStages
  <2>. QED
    BY <2>1, <2>2 DEF LibraryInv
<1>12. ASSUME NEW c \in Clients, TearMeta(c)
       PROVE  LibraryInv'
  <2>. DEFINE next == [job[c] EXCEPT !.at = IF @ = "files" THEN "meta" ELSE "remeta"]
  <2>1. /\ SessionsOk' /\ SessionsKept /\ job[c].at \in {"files", "ingested"}
        /\ session'[job[c].session].written = Len(Artifacts) /\ job' = [job EXCEPT ![c] = next]
    BY <1>12, MetaTorn
  <2>2. /\ job'[c] = next /\ RequestOk(c)
        /\ "at" \in DOMAIN job[c] /\ "session" \in DOMAIN job[c] /\ job[c].session \in Sessions
    BY <2>1 DEF LibraryInv, RequestOk, RequestKnows, SessionStages
  <2>3. /\ job'[c].session = job[c].session /\ job'[c].at \in {"meta", "remeta"}
        /\ "at" \in DOMAIN job'[c] /\ "session" \in DOMAIN job'[c]
        /\ job'[c].at = "remeta" => job[c].at = "ingested"
    BY <2>1, <2>2
  <2>. PICK s : s = job[c].session
    OBVIOUS
  <2>4. DirectoryOk(s)' /\ (job[c].at = "ingested" => ingested'[s] > 0)
    BY <2>1, <2>2 DEF RequestOk, SessionsKept, SessionStages
  <2>. HIDE DEF next
  <2>5. RequestOk(c)'
    BY <2>1, <2>2, <2>3, <2>4 DEF RequestOk, RequestKnows, SessionStages, DirectoryOk
  <2>. QED
    BY <2>1, <2>5, OthersKept
<1>13. ASSUME NEW c \in Clients, WriteMeta(c)
       PROVE  LibraryInv'
  <2>1. SessionsOk' /\ SessionsKept /\ job' = [job EXCEPT ![c] = Idle]
    BY <1>13, MetaWritten DEF WriteMeta, Goto
  <2>2. RequestOk(c)'
    BY <2>1 DEF LibraryInv, RequestOk, RequestKnows, Idle, SessionStages
  <2>. QED
    BY <2>1, <2>2, OthersKept
<1>14. ASSUME NEW c \in Clients, Ingest(c)
       PROVE  LibraryInv'
  <2>. PICK s : s = job[c].session
    OBVIOUS
  <2>1. s \in Sessions /\ DirectoryOk(s) /\ SessionsOk' /\ SessionsKept
    BY <1>14, Ingested DEF LibraryInv, RequestOk, RequestKnows, SessionStages
  <2>2. CASE job' = [job EXCEPT ![c] = Idle]
    <3>1. RequestOk(c)'
      BY <2>2 DEF LibraryInv, RequestOk, RequestKnows, Idle, SessionStages
    <3>. QED
      BY <2>1, <2>2, <3>1, OthersKept
  <2>3. CASE job' = [job EXCEPT ![c] = [at |-> "ingested", session |-> s]] /\ ingested'[s] > 0
    <3>1. DirectoryOk(s)'
      BY <2>1 DEF SessionsKept
    <3>2. RequestOk(c)'
      BY <2>1, <2>3, <3>1 DEF LibraryInv, RequestOk, RequestKnows, SessionStages, DirectoryOk
    <3>. QED
      BY <2>1, <2>3, <3>2, OthersKept
  <2>. QED
    BY <1>14, <2>2, <2>3, Ingested
<1>. QED
  BY <1>1, <1>4, <1>5, <1>6, <1>7, <1>8, <1>9, <1>10, <1>11, <1>12, <1>13, <1>14 DEF LibraryNext

\* The library starts with no session and no request.
LEMMA LibraryStarts == LibraryInit => LibraryInv
BY DEF LibraryInit, LibraryInv, SessionsOk, RequestOk, RequestKnows, DirectoryOk, Idle, NoSession, SessionStages

\* The invariant holds for ever.
LEMMA LibraryInvHolds == LibrarySpec => []LibraryInv
BY LibraryStarts, LibraryKept, PTL DEF LibrarySpec

\* A session that can be confirmed has all its files, and one that says it is
\* confirmed had its document stored, however conversions, confirmations and
\* their deaths interleave, for any number of requests, sessions and failures and
\* whatever the thresholds of the day
\* (expert_library.convert_upload_to_structured, confirm_structured_conversion_ingest).
THEOREM MetaStaysTrue == LibrarySpec => []MetaIsTrue
<1>1. LibraryInv => MetaIsTrue
  BY DEF LibraryInv, SessionsOk, DirectoryOk, MetaIsTrue, Readable, NoSession
<1>. QED
  BY <1>1, LibraryInvHolds, PTL

-----------------------------------------------------------------------------
(* What the library's files hold, while thresholds are edited.             *)

\* Thresholds whose two chunk budgets can be read as numbers.
Budgeted(t) ==
    /\ {"max_chunk_tokens", "chunk_overlap_tokens"} \subseteq DOMAIN t
    /\ t.max_chunk_tokens \in Int /\ t.chunk_overlap_tokens \in Int

\* A thresholds file is missing, emptied, or has its budgets.
FilesOk ==
    /\ file = [f \in {"runtime", "golive"} |-> file[f]]
    /\ \A f \in {"runtime", "golive"} : file[f] \in {Absent, Torn} \/ Budgeted(file[f])

\* What a session holds of its upload.
Upload == {"structure", "raw", "layout", "chunks", "max", "overlap"}

\* The directory of session s holds its upload.
Full(s) == Upload \subseteq DOMAIN session[s] /\ Whole(session[s])

\* Request c writes budgets, and works on a session that is full.
RequestFull(c) ==
    /\ job[c].at \in {"truncate", "fill"} =>
         {"values", "file", "then"} \subseteq DOMAIN job[c] /\ Budgeted(job[c].values)
    /\ job[c].at \in SessionStages => Full(job[c].session)

\* A session is full from the moment its meta file is begun.
SessionFull(s) == session[s].meta \in {"torn", "open", "confirmed"} => Full(s)

UploadInv ==
    /\ FilesOk
    /\ \A c \in Clients : RequestFull(c)
    /\ \A s \in Sessions : SessionFull(s)

\* No session loses what it holds.
FullKept == \A s \in Sessions : Full(s) => Full(s)'

\* A directory that differs in other files only holds as much.
LEMMA SameUpload ==
    ASSUME NEW old, NEW new, \A k \in Upload : new[k] = old[k], Whole(old)
    PROVE  Whole(new)
<1>1. /\ new.structure = old.structure /\ new.raw = old.raw /\ new.layout = old.layout
      /\ new.chunks = old.chunks /\ new.max = old.max /\ new.overlap = old.overlap
  BY DEF Upload
<1>. QED
  BY <1>1 DEF Whole

\* The budgets a request reads are numbers.
LEMMA ReadBudgets ==
    ASSUME FilesOk, NEW f \in {"runtime", "golive"}
    PROVE  Budgeted(load_thresholds(f))
BY InputsAssumption DEF FilesOk, load_thresholds, Budgeted, Thresholds

\* An update leaves numbers where there were numbers.
LEMMA UpdatedBudgets ==
    ASSUME NEW u \in Updates, NEW t, Budgeted(t)
    PROVE  Budgeted(Updated(t, u))
<1>1. \A k \in DOMAIN u : u[k] \in Int
  BY InputsAssumption
<1>. QED
  BY <1>1 DEF Budgeted, Updated

\* The other requests keep what they rest on while request c goes on.
LEMMA OthersFull ==
    ASSUME LibraryInv, UploadInv, FilesOk', FullKept, NEW c \in Clients, NEW next,
           job' = [job EXCEPT ![c] = next], RequestFull(c)', \A s \in Sessions : SessionFull(s)'
    PROVE  UploadInv'
<1>1. job' = [b \in Clients |-> IF b = c THEN next ELSE job[b]]
  BY DEF LibraryInv
<1>2. ASSUME NEW b \in Clients, b # c
      PROVE  RequestFull(b)'
  <2>1. job'[b] = job[b] /\ RequestFull(b)
    BY <1>1, <1>2 DEF UploadInv
  <2>2. job[b].at \in SessionStages => job[b].session \in Sessions
    BY DEF LibraryInv, RequestOk, RequestKnows
  <2>. QED
    BY <2>1, <2>2 DEF RequestFull, FullKept
<1>. QED
  BY <1>2 DEF UploadInv

\* A step that writes neither thresholds nor sessions leaves them as they are.
LEMMA NothingLost ==
    ASSUME UploadInv, UNCHANGED session
    PROVE  FullKept /\ \A s \in Sessions : SessionFull(s)'
BY DEF UploadInv, FullKept, SessionFull, Full

\* A step that leaves the sessions alone, to a stage that has none in hand.
LEMMA SessionsLeft ==
    ASSUME LibraryInv, UploadInv, FilesOk', UNCHANGED session, NEW c \in Clients, NEW next,
           job' = [job EXCEPT ![c] = next], next.at \in {"idle", "audit", "truncate", "fill"},
           next.at \in {"truncate", "fill"} =>
             {"values", "file", "then"} \subseteq DOMAIN next /\ Budgeted(next.values)
    PROVE  UploadInv'
<1>1. job'[c] = next
  BY DEF LibraryInv
<1>2. RequestFull(c)'
  BY <1>1 DEF RequestFull, SessionStages, Budgeted
<1>. QED
  BY <1>2, NothingLost, OthersFull

\* A request that has a session in hand goes on with the same session, or with
\* one that can be confirmed.
LEMMA SessionTaken ==
    ASSUME LibraryInv, UploadInv, UNCHANGED <<file, session>>, NEW c \in Clients, NEW next, Full(next.session),
           job' = [job EXCEPT ![c] = next], next.at \in SessionStages
    PROVE  UploadInv'
<1>1. job'[c] = next
  BY DEF LibraryInv
<1>2. FilesOk'
  BY DEF UploadInv, FilesOk
<1>3. RequestFull(c)'
  BY <1>1 DEF RequestFull, SessionStages, Full
<1>. QED
  BY <1>2, <1>3, NothingLost, OthersFull

\* A conversion leaves a directory that holds the upload when the request goes
\* on to its files, and one without a meta file when the budget cannot cut it.
LEMMA ConvertedFull ==
    ASSUME LibraryInv, UploadInv, NEW c \in Clients, NEW s \in Sessions, NEW d \in Documents,
           convert_upload_to_structured(c, s, d)
    PROVE  UploadInv'
<1>. PICK t : t = load_thresholds("runtime")
  OBVIOUS
<1>. PICK new : new = Directory(d, t)
  OBVIOUS
<1>1. Budgeted(t)
  BY ReadBudgets DEF UploadInv
<1>2. /\ session' = [session EXCEPT ![s] = new] /\ session[s] = NoSession /\ UNCHANGED file
      /\ job' = [job EXCEPT ![c] = IF cuts(t) THEN [at |-> "files", session |-> s] ELSE Idle]
  BY DEF convert_upload_to_structured, Goto
<1>3. session'[s] = new /\ \A x \in Sessions : x # s => session'[x] = session[x]
  BY <1>2 DEF LibraryInv, SessionsOk
<1>4. Upload \subseteq DOMAIN new /\ new.meta = "absent"
  BY DEF Directory, Upload
<1>5. FullKept
  <2>1. ~Full(s)
    BY <1>2 DEF Full, Upload, NoSession
  <2>. QED
    BY <1>3, <2>1 DEF FullKept, Full
<1>6. \A x \in Sessions : SessionFull(x)'
  BY <1>3, <1>4 DEF UploadInv, SessionFull, Full
<1>7. FilesOk'
  BY <1>2 DEF UploadInv, FilesOk
<1>8. RequestFull(c)'
  <2>1. CASE cuts(t)
    <3>1. Whole(new)
      BY <1>1, <2>1, DirectoryIsWhole DEF Budgeted
    <3>2. job'[c] = [at |-> "files", session |-> s]
      BY <1>2, <2>1 DEF LibraryInv
    <3>3. Full(s)'
      BY <1>3, <1>4, <3>1 DEF Full
    <3>. QED
      BY <3>2, <3>3 DEF RequestFull
  <2>2. CASE ~cuts(t)
    <3>1. job'[c] = Idle
      BY <1>2, <2>2 DEF LibraryInv
    <3>. QED
      BY <3>1 DEF RequestFull, Idle, SessionStages
  <2>. QED
    BY <2>1, <2>2
<1>. QED
  BY <1>2, <1>5, <1>6, <1>7, <1>8, OthersFull

\* A directory that is session s's but for other files than the upload's.
Marks(new, s) == DOMAIN new = DOMAIN session[s] /\ \A k \in Upload : new[k] = session[s][k]

\* A session that gets another file, or another word in its meta file, holds
\* what it held.
LEMMA SessionMarked ==
    ASSUME LibraryInv, UploadInv, NEW c \in Clients, NEW s \in Sessions, Full(s), NEW new,
           session' = [session EXCEPT ![s] = new], UNCHANGED file,
           Marks(new, s),
           NEW next, job' = [job EXCEPT ![c] = next], next.at \in {"idle"} \cup SessionStages,
           next.at \in SessionStages => next.session = s
    PROVE  UploadInv'
<1>1. session'[s] = new /\ \A x \in Sessions : x # s => session'[x] = session[x]
  BY DEF LibraryInv, SessionsOk
<1>2. Full(s)'
  BY <1>1, SameUpload DEF Full, Marks
<1>3. FullKept
  BY <1>1, <1>2 DEF FullKept, Full
<1>4. \A x \in Sessions : SessionFull(x)'
  BY <1>1, <1>2 DEF UploadInv, SessionFull, Full
<1>5. FilesOk'
  BY DEF UploadInv, FilesOk
<1>6. job'[c] = next
  BY DEF LibraryInv
<1>7. RequestFull(c)'
  BY <1>2, <1>6 DEF RequestFull, SessionStages, Full
<1>. QED
  BY <1>3, <1>4, <1>5, <1>7, OthersFull

\* Every step of every request keeps what the sessions hold.
LEMMA UploadKept == ASSUME LibraryInv, UploadInv, [LibraryNext]_libraryVars PROVE UploadInv'
<1>1. CASE UNCHANGED libraryVars
  BY <1>1 DEF libraryVars, UploadInv, FilesOk, RequestFull, SessionFull, Full
<1>2. ASSUME NEW c \in Clients, NEW f, NEW values, NEW next, Budgeted(values), Write(c, f, values, next)
      PROVE  UploadInv'
  <2>. PICK target : target = [at |-> "truncate", file |-> f, values |-> values, then |-> next]
    OBVIOUS
  <2>1. target.at = "truncate" /\ {"values", "file", "then"} \subseteq DOMAIN target /\ target.values = values
    OBVIOUS
  <2>2. UNCHANGED <<file, session>> /\ job' = [job EXCEPT ![c] = target]
    BY <1>2 DEF Write, Goto
  <2>3. FilesOk'
    BY <2>2 DEF UploadInv, FilesOk
  <2>. QED
    BY <1>2, <2>1, <2>2, <2>3, SessionsLeft
<1>3. ASSUME NEW c \in Clients, NEW u \in Updates,
             update_expert_library_thresholds(c, u) \/ update_expert_library_go_live_thresholds(c, u)
      PROVE  UploadInv'
  <2>1. Budgeted(Updated(load_thresholds("runtime"), u)) /\ Budgeted(Updated(load_thresholds("golive"), u))
    BY ReadBudgets, UpdatedBudgets DEF UploadInv
  <2>. QED
    BY <1>2, <1>3, <2>1 DEF update_expert_library_thresholds, update_expert_library_go_live_thresholds
<1>4. ASSUME NEW c \in Clients, publish_expert_library_go_live_thresholds(c)
      PROVE  UploadInv'
  <2>1. Budgeted(load_thresholds("golive"))
    BY ReadBudgets DEF UploadInv
  <2>. QED
    BY <1>2, <1>4, <2>1 DEF publish_expert_library_go_live_thresholds
<1>5. ASSUME NEW c \in Clients, Truncate(c)
      PROVE  UploadInv'
  <2>1. {"values", "file", "then"} \subseteq DOMAIN job[c] /\ Budgeted(job[c].values) /\ "at" \in DOMAIN job[c]
    BY <1>5 DEF Truncate, LibraryInv, RequestOk, RequestKnows, UploadInv, RequestFull
  <2>2. UNCHANGED session /\ job' = [job EXCEPT ![c] = [job[c] EXCEPT !.at = "fill"]]
    BY <1>5 DEF Truncate, Goto
  <2>3. file' = [file EXCEPT ![job[c].file] = Torn]
    BY <1>5 DEF Truncate
  <2>4. FilesOk'
    BY <2>3 DEF UploadInv, FilesOk
  <2>. PICK next : next = [job[c] EXCEPT !.at = "fill"]
    OBVIOUS
  <2>5. next.at = "fill" /\ {"values", "file", "then"} \subseteq DOMAIN next /\ next.values = job[c].values
    BY <2>1
  <2>. QED
    BY <2>1, <2>2, <2>4, <2>5, SessionsLeft
<1>6. ASSUME NEW c \in Clients, Fill(c)
      PROVE  UploadInv'
  <2>1. Budgeted(job[c].values) /\ job[c].then \in {"idle", "audit"}
    BY <1>6 DEF Fill, LibraryInv, RequestOk, RequestKnows, UploadInv, RequestFull
  <2>. PICK next : next = [at |-> job[c].then]
    OBVIOUS
  <2>2. UNCHANGED session /\ job' = [job EXCEPT ![c] = next] /\ next.at \in {"idle", "audit"}
    BY <1>6, <2>1 DEF Fill, Goto
  <2>3. file' = [file EXCEPT ![job[c].file] = job[c].values]
    BY <1>6 DEF Fill
  <2>4. FilesOk'
    BY <2>1, <2>3 DEF UploadInv, FilesOk
  <2>. QED
    BY <2>2, <2>4, SessionsLeft
<1>7. ASSUME NEW c \in Clients, AuditPublication(c) \/ Dies(c) \/ IngestFails(c)
      PROVE  UploadInv'
  <2>1. UNCHANGED <<file, session>> /\ job' = [job EXCEPT ![c] = Idle] /\ Idle.at = "idle"
    BY <1>7 DEF AuditPublication, Dies, IngestFails, IngestRefused, Goto, Idle
  <2>2. FilesOk'
    BY <2>1 DEF UploadInv, FilesOk
  <2>. QED
    BY <2>1, <2>2, SessionsLeft
<1>8. ASSUME NEW c \in Clients, NEW s \in Sessions, NEW d \in Documents, convert_upload_to_structured(c, s, d)
      PROVE  UploadInv'
  BY <1>8, ConvertedFull
<1>9. ASSUME NEW c \in Clients, NEW s \in Sessions, confirm_structured_conversion_ingest(c, s)
      PROVE  UploadInv'
  <2>. PICK next : next = [at |-> "ingest", session |-> s]
    OBVIOUS
  <2>1. Full(s) /\ UNCHANGED <<file, session>> /\ job' = [job EXCEPT ![c] = next]
    BY <1>9 DEF confirm_structured_conversion_ingest, Goto, UploadInv, SessionFull
  <2>2. next.session = s /\ next.at \in SessionStages
    BY DEF SessionStages
  <2>. QED
    BY <2>1, <2>2, SessionTaken
<1>10. ASSUME NEW c \in Clients, WriteArtifact(c)
       PROVE  UploadInv'
  <2>. PICK s : s = job[c].session
    OBVIOUS
  <2>1. /\ s \in Sessions /\ Full(s) /\ "written" \in DOMAIN session[s]
        /\ job[c].at \in SessionStages
    BY <1>10 DEF WriteArtifact, LibraryInv, RequestOk, RequestKnows, DirectoryOk, UploadInv, RequestFull, SessionStages
  <2>. PICK new : new = [session[s] EXCEPT !.written = @ + 1]
    OBVIOUS
  <2>2. session' = [session EXCEPT ![s] = new] /\ UNCHANGED <<file, job>>
    BY <1>10 DEF WriteArtifact
  <2>3. Marks(new, s)
    BY <2>1 DEF Full, Upload, Marks
  <2>. PICK next : next = job[c]
    OBVIOUS
  <2>4. job' = [job EXCEPT ![c] = next] /\ next.at \in SessionStages /\ next.session = s /\ UNCHANGED file
    BY <2>1, <2>2 DEF LibraryInv
  <2>. QED
    BY <2>1, <2>2, <2>3, <2>4, SessionMarked
<1>11. ASSUME NEW c \in Clients, TearMeta(c)
       PROVE  UploadInv'
  <2>. PICK s : s = job[c].session
    OBVIOUS
  <2>1. /\ s \in Sessions /\ Full(s) /\ "meta" \in DOMAIN session[s]
        /\ {"at", "session"} \subseteq DOMAIN job[c]
    BY <1>11 DEF TearMeta, LibraryInv, RequestOk, RequestKnows, DirectoryOk, UploadInv, RequestFull, SessionStages
  <2>. PICK new : new = [session[s] EXCEPT !.meta = "torn"]
    OBVIOUS
  <2>. PICK next : next = [job[c] EXCEPT !.at = IF @ = "files" THEN "meta" ELSE "remeta"]
    OBVIOUS
  <2>2. session' = [session EXCEPT ![s] = new] /\ UNCHANGED file /\ job' = [job EXCEPT ![c] = next]
    BY <1>11 DEF TearMeta, Goto
  <2>3. Marks(new, s)
    BY <2>1 DEF Full, Upload, Marks
  <2>4. next.at \in SessionStages /\ next.session = s
    BY <2>1 DEF SessionStages
  <2>. QED
    BY <2>1, <2>2, <2>3, <2>4, SessionMarked
<1>12. ASSUME NEW c \in Clients, WriteMeta(c)
       PROVE  UploadInv'
  <2>. PICK s : s = job[c].session
    OBVIOUS
  <2>1. s \in Sessions /\ Full(s) /\ "meta" \in DOMAIN session[s]
    BY <1>12 DEF WriteMeta, LibraryInv, RequestOk, RequestKnows, DirectoryOk, UploadInv, RequestFull, SessionStages
  <2>. PICK new : new = [session[s] EXCEPT !.meta = IF job[c].at = "meta" THEN "open" ELSE "confirmed"]
    OBVIOUS
  <2>2. /\ session' = [session EXCEPT ![s] = new] /\ UNCHANGED file
        /\ job' = [job EXCEPT ![c] = Idle] /\ Idle.at = "idle"
    BY <1>12 DEF WriteMeta, Goto, Idle
  <2>3. Marks(new, s)
    BY <2>1 DEF Full, Upload, Marks
  <2>. QED
    BY <2>1, <2>2, <2>3, SessionMarked DEF SessionStages
<1>13. ASSUME NEW c \in Clients, Ingest(c)
       PROVE  UploadInv'
  <2>. PICK s : s = job[c].session
    OBVIOUS
  <2>1. Full(s) /\ UNCHANGED <<file, session>>
    BY <1>13 DEF Ingest, UploadInv, RequestFull, SessionStages
  <2>2. CASE job' = [job EXCEPT ![c] = Idle]
    <3>1. FilesOk' /\ Idle.at = "idle"
      BY <2>1 DEF UploadInv, FilesOk, Idle
    <3>. QED
      BY <2>1, <2>2, <3>1, SessionsLeft
  <2>3. CASE job' = [job EXCEPT ![c] = [at |-> "ingested", session |-> s]]
    <3>. PICK next : next = [at |-> "ingested", session |-> s]
      OBVIOUS
    <3>1. next.session = s /\ next.at \in SessionStages
      BY DEF SessionStages
    <3>. QED
      BY <2>1, <2>3, <3>1, SessionTaken
  <2>. QED
    BY <1>13, <2>2, <2>3 DEF Ingest, IngestRefused, Goto
<1>. QED
  BY <1>1, <1>3, <1>4, <1>5, <1>6, <1>7, <1>8, <1>9, <1>10, <1>11, <1>12, <1>13 DEF LibraryNext

\* The library starts with no thresholds edited and no session.
LEMMA UploadStarts == LibraryInit => UploadInv
BY DEF LibraryInit, UploadInv, FilesOk, RequestFull, SessionFull, Idle, NoSession, SessionStages

\* The files of a session that can be confirmed hold the upload, for any
\* documents, budgets and updates, however conversions, confirmations and
\* edits of the thresholds interleave and wherever they die: the sections every
\* block that is not empty, in order; the layout every block under an id of its
\* own; the chunks every word of every text, none over the budget, and every
\* uploaded row of every table under its header, with the cells that have one
\* (expert_library.convert_upload_to_structured, expert_chunking.chunk_sections_for_rag).
THEOREM UploadStaysWhole == LibrarySpec => []ConfirmableHoldsUpload
<1>1. UploadInv => ConfirmableHoldsUpload
  BY DEF UploadInv, SessionFull, Full, ConfirmableHoldsUpload, Readable
<1>. QED
  BY <1>1, LibraryInvHolds, UploadStarts, UploadKept, PTL DEF LibrarySpec
=============================================================================
