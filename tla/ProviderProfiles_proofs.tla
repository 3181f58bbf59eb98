----------------------- MODULE ProviderProfiles_proofs -----------------------
(***************************************************************************)
(* Proofs about provider profiles, for any number of processes, profiles,  *)
(* tasks, requests and failures: no task is bound to a profile that is not *)
(* there, and no call runs on a profile whose deletion was answered before *)
(* the call began, although neither locks anything; a failure leaves at    *)
(* most one profile half there; and feedback that comes one at a time is   *)
(* counted, and puts a provider that only fails last.                      *)
(***************************************************************************)
EXTENDS ProviderProfiles, FiniteSetTheorems, TLAPS

-----------------------------------------------------------------------------
(* The order of a call's models.                                            *)
\* A positive factor may be cancelled.
LEMMA Cancelled ==
    ASSUME NEW k \in Nat, k > 0, NEW a \in Int, NEW b \in Int
    PROVE  /\ k * a >= k * b => a >= b
           /\ k * a > k * b => a > b
           /\ a >= b => k * a >= k * b
           /\ a > b => k * a > k * b
<1>. PICK d \in Int : d = a - b
  OBVIOUS
<1>1. k * a = k * b + k * d
  OBVIOUS
<1>2. d >= 0 => k * d >= 0
  OBVIOUS
<1>3. d > 0 => k * d > 0
  OBVIOUS
<1>4. d < 0 => k * d < 0
  OBVIOUS
<1>5. k * a \in Int /\ k * b \in Int /\ k * d \in Int
  OBVIOUS
<1>6. d = 0 => k * d = 0
  OBVIOUS
<1>. QED
  BY <1>1, <1>2, <1>3, <1>4, <1>5, <1>6

\* Cross products of fractions compare transitively.
LEMMA CrossProducts ==
    ASSUME NEW p \in Nat, NEW q \in Nat, NEW r \in Nat,
           NEW x \in Nat, x > 0, NEW y \in Nat, y > 0, NEW z \in Nat, z > 0,
           p * y >= q * x, q * z >= r * y
    PROVE  /\ p * z >= r * x
           /\ p * y > q * x \/ q * z > r * y => p * z > r * x
<1>1. z * (p * y) = y * (p * z) /\ z * (q * x) = x * (q * z) /\ x * (r * y) = y * (r * x)
  OBVIOUS
<1>. PICK a \in Int, b \in Int, c \in Int, d \in Int, e \in Int, f \in Int :
        a = p * y /\ b = q * x /\ c = q * z /\ d = r * y /\ e = p * z /\ f = r * x
  OBVIOUS
<1>2. z * a = y * e /\ z * b = x * c /\ x * d = y * f
  BY <1>1
<1>3. a >= b /\ c >= d
  OBVIOUS
<1>4. z * a >= z * b /\ x * c >= x * d /\ (a > b => z * a > z * b) /\ (c > d => x * c > x * d)
  BY <1>3, Cancelled
<1>5. z * a \in Int /\ z * b \in Int /\ x * c \in Int /\ x * d \in Int /\ y * e \in Int /\ y * f \in Int
  OBVIOUS
<1>6. y * e >= y * f /\ (a > b \/ c > d => y * e > y * f)
  BY <1>2, <1>4, <1>5
<1>7. e >= f /\ (a > b \/ c > d => e > f)
  BY <1>6, Cancelled
<1>. QED
  BY <1>7

\* In a strict total order of 1..n, the places are a permutation that follows it.
LEMMA PlacesFollow ==
    ASSUME NEW n \in Nat, NEW before \in [1..n -> SUBSET (1..n)],
           \A i \in 1..n : i \notin before[i],
           \A i, j \in 1..n : i # j => i \in before[j] \/ j \in before[i],
           \A i, j, k \in 1..n : i \in before[j] /\ j \in before[k] => i \in before[k]
    PROVE  /\ \A i \in 1..n : 1 + Cardinality(before[i]) \in 1..n
           /\ \A i, j \in 1..n : i \in before[j] => 1 + Cardinality(before[i]) < 1 + Cardinality(before[j])
           /\ \A k \in 1..n : \E i \in 1..n : 1 + Cardinality(before[i]) = k
<1>0. PICK place : place = [i \in 1..n |-> 1 + Cardinality(before[i])]
  OBVIOUS
<1>1. IsFiniteSet(1..n) /\ Cardinality(1..n) = n
  BY FS_Interval
<1>2. ASSUME NEW i \in 1..n
      PROVE  /\ IsFiniteSet(before[i]) /\ Cardinality(before[i]) \in Nat
             /\ Cardinality(before[i]) <= n - 1
  <2>1. before[i] \subseteq (1..n) \ {i}
    OBVIOUS
  <2>2. IsFiniteSet((1..n) \ {i}) /\ Cardinality((1..n) \ {i}) = n - 1
    BY <1>1, FS_RemoveElement
  <2>. QED
    BY <2>1, <2>2, FS_Subset, FS_CardinalityType
<1>3. ASSUME NEW i \in 1..n, NEW j \in 1..n, i \in before[j]
      PROVE  Cardinality(before[i]) < Cardinality(before[j])
  <2>1. before[i] \subseteq before[j] /\ i \in before[j] /\ i \notin before[i]
    BY <1>3
  <2>2. IsFiniteSet(before[j]) /\ Cardinality(before[i]) \in Nat /\ Cardinality(before[j]) \in Nat
    BY <1>2
  <2>3. Cardinality(before[i]) <= Cardinality(before[j]) /\ Cardinality(before[i]) # Cardinality(before[j])
    BY <2>1, <2>2, FS_Subset
  <2>. QED
    BY <2>2, <2>3
<1>4. ASSUME NEW i \in 1..n PROVE place[i] \in 1..n
  <2>1. PICK c \in Nat : c = Cardinality(before[i]) /\ c <= n - 1
    BY <1>2
  <2>2. place[i] = 1 + c
    BY <1>0, <2>1
  <2>. QED
    BY <2>1, <2>2
<1>5. ASSUME NEW i \in 1..n, NEW j \in 1..n, i \in before[j]
      PROVE  place[i] < place[j] /\ place[i] # place[j]
  <2>1. PICK c \in Nat, d \in Nat : c = Cardinality(before[i]) /\ d = Cardinality(before[j]) /\ c < d
    BY <1>2, <1>3, <1>5
  <2>2. place[i] = 1 + c /\ place[j] = 1 + d
    BY <1>0, <2>1
  <2>3. 1 + c < 1 + d /\ 1 + c # 1 + d
    BY <2>1
  <2>. QED
    BY <2>2, <2>3, Zenon
<1>6. place \in [1..n -> 1..n]
  BY <1>0, <1>4
<1>7. place \in Injection(1..n, 1..n)
  <2>1. \A i, j \in 1..n : place[i] = place[j] => i = j
    BY <1>5, Zenon
  <2>2. DOMAIN place = 1..n
    BY <1>0
  <2>. QED
    BY <1>6, <2>1, <2>2, Zenon DEF Injection, IsInjective
<1>8. place \in Surjection(1..n, 1..n)
  BY <1>1, <1>7, FS_Injection
<1>9. \A i \in 1..n : place[i] = 1 + Cardinality(before[i])
  BY <1>0
<1>10. \A k \in 1..n : \E i \in 1..n : place[i] = k
  BY <1>8 DEF Surjection
<1>11. ASSUME NEW i \in 1..n PROVE 1 + Cardinality(before[i]) \in 1..n
  <2>1. place[i] \in 1..n /\ place[i] = 1 + Cardinality(before[i])
    BY <1>4, <1>9
  <2>. QED
    BY <2>1
<1>12. ASSUME NEW i \in 1..n, NEW j \in 1..n, i \in before[j]
       PROVE  1 + Cardinality(before[i]) < 1 + Cardinality(before[j])
  BY <1>2, <1>3, <1>12
<1>13. \A k \in 1..n : \E i \in 1..n : 1 + Cardinality(before[i]) = k
  BY <1>9, <1>10, Zenon
<1>. QED
  BY <1>11, <1>12, <1>13

LEMMA QuickInRange == \A l \in Nat : 4000 - (IF l > 4000 THEN 4000 ELSE l) \in 0..4000
  OBVIOUS

LEMMA RewardsApart ==
    ASSUME NEW a \in Nat, NEW b \in Nat, NEW x \in Nat, NEW y \in Nat, x > 0, y > 0,
           NEW low \in Nat, NEW high \in Nat, low < high, a <= low * x, b >= high * y
    PROVE  b * x > a * y
<1>1. PICK u \in Nat : u = low * x /\ u >= a
  OBVIOUS
<1>2. PICK v \in Nat : v = high * y /\ b >= v
  OBVIOUS
<1>3. y * u >= y * a /\ x * b >= x * v
  BY <1>1, <1>2, Cancelled
<1>4. x * y > x * 0
  BY Cancelled
<1>5. PICK w \in Nat : w = x * y /\ w > 0
  BY <1>4
<1>6. y * u = w * low /\ x * v = w * high
  BY <1>1, <1>2, <1>5
<1>7. w * high > w * low
  BY <1>5, Cancelled
<1>8. y * a = a * y /\ x * b = b * x /\ a * y \in Int /\ b * x \in Int /\ w * low \in Int /\ w * high \in Int
  OBVIOUS
<1>. QED
  BY <1>3, <1>6, <1>7, <1>8

Recorded(item) ==
    /\ item.attempts \in Nat /\ item.successes \in Nat /\ item.latency_ms \in Nat
    /\ item.successes <= item.attempts

\* A reward is a fraction, and lies below 12000 for a model that only failed, and at
\* 40000 or above for one that never did.
LEMMA RewardIsFraction ==
    ASSUME NEW item, Recorded(item)
    PROVE  /\ Reward(item).num \in Nat /\ Reward(item).den \in Nat /\ Reward(item).den > 0
           /\ Hopeless(item) => Reward(item).num <= 12000 * Reward(item).den
           /\ Spotless(item) => Reward(item).num >= 40000 * Reward(item).den
<1>0. /\ item.attempts \in Nat /\ item.successes \in Nat /\ item.latency_ms \in Nat
      /\ item.successes <= item.attempts
  BY DEF Recorded
<1>a. PICK n \in Nat : n = item.attempts
  BY <1>0
<1>b. PICK s \in Nat : s = item.successes /\ s <= n
  BY <1>0, <1>a
<1>c. PICK q \in 0..4000 : q = Quick(item)
  <2>1. PICK l \in Nat : l = item.latency_ms
    BY <1>0
  <2>2. Quick(item) = 4000 - (IF l > 4000 THEN 4000 ELSE l)
    BY <2>1 DEF Quick
  <2>. QED
    BY <2>2, QuickInRange
<1>1. n = item.attempts /\ s = item.successes /\ q = Quick(item) /\ s <= n
  BY <1>a, <1>b, <1>c
<1>2. PICK m \in Nat : m = n * q /\ m <= 4000 * n
  <2>1. PICK d \in Nat : d = 4000 - q
    OBVIOUS
  <2>2. n * q \in Nat /\ n * d \in Nat /\ n * q + n * d = 4000 * n
    BY <2>1
  <2>. QED
    BY <2>2
<1>4. Hopeless(item) => n > 0 /\ s = 0
  BY <1>1 DEF Hopeless
<1>5. Spotless(item) => s = n
  BY <1>1 DEF Spotless
<1>6. CASE n = 0
  <2>1. Reward(item) = [num |-> 40000, den |-> 1]
    BY <1>1, <1>6 DEF Reward
  <2>. QED
    BY <1>4, <1>6, <2>1
<1>7. CASE n > 0
  <2>1. Reward(item).num = s * 68000 + m * 3 /\ Reward(item).den = n
    <3>1. Reward(item) = [num |-> item.successes * 68000 + item.attempts * Quick(item) * 3, den |-> item.attempts]
      BY <1>1, <1>7 DEF Reward
    <3>2. item.successes * 68000 + item.attempts * Quick(item) * 3 = s * 68000 + m * 3
      BY <1>1, <1>2
    <3>. QED
      BY <1>1, <3>1, <3>2
  <2>2. s * 68000 + m * 3 \in Nat
    OBVIOUS
  <2>3. s = 0 => s * 68000 + m * 3 <= 12000 * n
    BY <1>2
  <2>4. s = n => s * 68000 + m * 3 >= 40000 * n
    BY <1>2
  <2>. QED
    BY <1>4, <1>5, <1>7, <2>1, <2>2, <2>3, <2>4
<1>. QED
  BY <1>6, <1>7

\* The routing order tries a model that only failed after one that never did.
LEMMA OrderPutsFailingLast ==
    ASSUME NEW stats, \A m \in Models : Recorded(stats[m]), ModelOrder \in Seq(Models)
    PROVE  \A i, j \in DOMAIN build_routing_order(stats, ModelOrder) :
             LET at(k) == stats[ModelOrder[build_routing_order(stats, ModelOrder)[k]]] IN
               Hopeless(at(i)) /\ Spotless(at(j)) => j < i
<1> DEFINE n == Len(ModelOrder)
           num == [i \in 1..n |-> Reward(stats[ModelOrder[i]]).num]
           den == [i \in 1..n |-> Reward(stats[ModelOrder[i]]).den]
           tried == [i \in 1..n |-> stats[ModelOrder[i]].attempts]
           before == [i \in 1..n |-> {j \in 1..n : Better(stats, ModelOrder, j, i)}]
           place == [i \in 1..n |-> 1 + Cardinality(before[i])]
           order == build_routing_order(stats, ModelOrder)
<1>1. n \in Nat /\ DOMAIN ModelOrder = 1..n /\ \A i \in 1..n : Recorded(stats[ModelOrder[i]])
  OBVIOUS
<1>2. \A i \in 1..n : num[i] \in Nat /\ den[i] \in Nat /\ den[i] > 0 /\ tried[i] \in Nat
  BY <1>1, RewardIsFraction DEF Recorded
<1>3. \A i, j \in 1..n : i \in before[j] <=>
        \/ num[i] * den[j] > num[j] * den[i]
        \/ num[i] * den[j] = num[j] * den[i] /\ (tried[i] > tried[j] \/ (tried[i] = tried[j] /\ i < j))
  <2>. SUFFICES ASSUME NEW i \in 1..n, NEW j \in 1..n
       PROVE i \in before[j] <=>
               \/ num[i] * den[j] > num[j] * den[i]
               \/ num[i] * den[j] = num[j] * den[i] /\ (tried[i] > tried[j] \/ (tried[i] = tried[j] /\ i < j))
    OBVIOUS
  <2>1. i \in before[j] <=> Better(stats, ModelOrder, i, j)
    OBVIOUS
  <2>2. tried[i] - tried[j] > 0 <=> tried[i] > tried[j]
    BY <1>2
  <2>3. tried[i] - tried[j] = 0 <=> tried[i] = tried[j]
    BY <1>2
  <2>. QED
    BY <2>1, <2>2, <2>3 DEF Better
<1>4. order = [k \in 1..n |-> CHOOSE i \in 1..n : place[i] = k]
  <2>1. \A i \in 1..n : place[i] = 1 + Cardinality({j \in 1..n : Better(stats, ModelOrder, j, i)})
    OBVIOUS
  <2>. HIDE DEF place
  <2>. QED
    BY <1>1, <2>1 DEF build_routing_order
<1>. HIDE DEF n, num, den, tried, order
<1>5. /\ \A i \in 1..n : i \notin before[i]
      /\ \A i, j \in 1..n : i # j => i \in before[j] \/ j \in before[i]
  <2>. SUFFICES ASSUME NEW i \in 1..n, NEW j \in 1..n
       PROVE i \notin before[i] /\ (i # j => i \in before[j] \/ j \in before[i])
    OBVIOUS
  <2>1. PICK a \in Int, b \in Int, c \in Int, d \in Nat, e \in Nat :
          /\ a = num[i] * den[j] /\ b = num[j] * den[i] /\ c = num[i] * den[i]
          /\ d = tried[i] /\ e = tried[j]
    <3>1. num[i] \in Nat /\ num[j] \in Nat /\ den[i] \in Nat /\ den[j] \in Nat
      BY <1>2
    <3>2. num[i] * den[j] \in Int /\ num[j] * den[i] \in Int /\ num[i] * den[i] \in Int
      BY <3>1
    <3>. QED
      BY <1>2, <3>2
  <2>2. i \in before[i] <=> c > c \/ (c = c /\ (d > d \/ (d = d /\ i < i)))
    BY <1>3, <2>1
  <2>3. i \in before[j] <=> a > b \/ (a = b /\ (d > e \/ (d = e /\ i < j)))
    BY <1>3, <2>1
  <2>4. j \in before[i] <=> b > a \/ (b = a /\ (e > d \/ (e = d /\ j < i)))
    BY <1>3, <2>1
  <2>. QED
    BY <1>1, <2>2, <2>3, <2>4
<1>6. ASSUME NEW i \in 1..n, NEW j \in 1..n, NEW k \in 1..n, i \in before[j], j \in before[k]
      PROVE  i \in before[k]
  <2>1. PICK a \in Nat, b \in Nat, c \in Nat, x \in Nat, y \in Nat, z \in Nat :
          /\ a = num[i] /\ b = num[j] /\ c = num[k] /\ x = den[i] /\ y = den[j] /\ z = den[k]
          /\ x > 0 /\ y > 0 /\ z > 0
    BY <1>2
  <2>2. a * y \in Int /\ b * x \in Int /\ b * z \in Int /\ c * y \in Int /\ a * z \in Int /\ c * x \in Int
    OBVIOUS
  <2>3. /\ \/ a * y > b * x
           \/ a * y = b * x /\ (tried[i] > tried[j] \/ (tried[i] = tried[j] /\ i < j))
        /\ \/ b * z > c * y
           \/ b * z = c * y /\ (tried[j] > tried[k] \/ (tried[j] = tried[k] /\ j < k))
    BY <1>3, <1>6, <2>1
  <2>4. a * y >= b * x /\ b * z >= c * y
    BY <2>2, <2>3
  <2>5. a * z >= c * x /\ (a * y > b * x \/ b * z > c * y => a * z > c * x)
    BY <2>1, <2>4, CrossProducts
  <2>6. \/ a * z > c * x
        \/ a * z = c * x /\ (tried[i] > tried[k] \/ (tried[i] = tried[k] /\ i < k))
    <3>1. CASE a * y > b * x \/ b * z > c * y
      BY <2>5, <3>1
    <3>2. CASE ~(a * y > b * x) /\ ~(b * z > c * y)
      <4>1. tried[i] > tried[k] \/ (tried[i] = tried[k] /\ i < k)
        BY <1>1, <1>2, <2>3, <3>2
      <4>. QED
        BY <2>2, <2>5, <4>1
    <3>. QED
      BY <3>1, <3>2
  <2>. QED
    BY <1>3, <2>1, <2>6
<1>7. /\ \A i, j \in 1..n : i \in before[j] => place[i] < place[j]
      /\ \A k \in 1..n : \E i \in 1..n : place[i] = k
  <2>1. \A i, j, k \in 1..n : i \in before[j] /\ j \in before[k] => i \in before[k]
    BY <1>6
  <2>2. before \in [1..n -> SUBSET (1..n)]
    BY DEF before
  <2>. HIDE DEF before
  <2>3. PICK b : b = before
    OBVIOUS
  <2>4. \A i \in 1..n : place[i] = 1 + Cardinality(b[i])
    BY <2>3
  <2>. HIDE DEF place
  <2>5. /\ n \in Nat /\ b \in [1..n -> SUBSET (1..n)]
        /\ \A i \in 1..n : i \notin b[i]
        /\ \A i, j \in 1..n : i # j => i \in b[j] \/ j \in b[i]
        /\ \A i, j, k \in 1..n : i \in b[j] /\ j \in b[k] => i \in b[k]
    BY <1>1, <1>5, <2>1, <2>2, <2>3, Zenon
  <2>6. /\ \A i, j \in 1..n : i \in b[j] => 1 + Cardinality(b[i]) < 1 + Cardinality(b[j])
        /\ \A k \in 1..n : \E i \in 1..n : 1 + Cardinality(b[i]) = k
    BY <2>5, PlacesFollow, Zenon
  <2>. QED
    BY <2>3, <2>4, <2>6, Zenon
<1>. HIDE DEF place, before
<1>8. DOMAIN order = 1..n /\ \A k \in 1..n : order[k] \in 1..n /\ place[order[k]] = k
  BY <1>4, <1>7
<1>9. ASSUME NEW i \in 1..n, NEW j \in 1..n,
             Hopeless(stats[ModelOrder[order[i]]]), Spotless(stats[ModelOrder[order[j]]])
      PROVE  j < i
  <2>1. PICK p \in 1..n, q \in 1..n : p = order[i] /\ q = order[j] /\ place[p] = i /\ place[q] = j
    BY <1>8
  <2>2. PICK a \in Nat, b \in Nat, x \in Nat, y \in Nat :
          /\ a = num[p] /\ b = num[q] /\ x = den[p] /\ y = den[q] /\ x > 0 /\ y > 0
    BY <1>2
  <2>3. a <= 12000 * x /\ b >= 40000 * y
    <3>1. Recorded(stats[ModelOrder[p]]) /\ Recorded(stats[ModelOrder[q]])
      BY <1>1
    <3>. QED
      BY <1>9, <2>1, <2>2, <3>1, RewardIsFraction DEF num, den
  <2>5. b * x > a * y
    <3>1. PICK low \in Nat : low = 12000
      OBVIOUS
    <3>2. PICK high \in Nat : high = 40000
      OBVIOUS
    <3>3. x > 0 /\ y > 0 /\ low < high /\ a <= low * x /\ b >= high * y
      BY <2>2, <2>3, <3>1, <3>2
    <3>. QED
      BY <3>3, RewardsApart, Zenon
  <2>6. q \in before[p]
    BY <1>3, <2>2, <2>5
  <2>. QED
    BY <1>7, <2>1, <2>6
<1>. QED
  BY <1>8, <1>9 DEF order

-----------------------------------------------------------------------------
(* The profiles themselves.                                                 *)
USE ProfilesAssumption

Creating == {"write", "insert"}
Deleting == {"erase", "remove"}
Using    == {"policy", "row", "key", "route", "feedback"}

\* What process c may rely on.  A profile that is being created is nobody
\* else's, and has no row yet; a call has seen no profile that was gone.
JobOK(c) ==
    /\ job[c].at \in Creating =>
         /\ job[c].profile \in used \ deleted /\ rows[job[c].profile] = Nobody
         /\ job[c].storage \in Storages
    /\ job[c].at \in Deleting \cup {"find"} => job[c].profile \in used
    /\ job[c].at \in Using => job[c].gone \subseteq deleted
    /\ job[c].at = "policy" => job[c].slot \in Slots
    /\ job[c].at \in {"row", "key"} => job[c].profile \notin job[c].gone
    /\ job[c].at \in {"route", "feedback"} =>
         \A i \in DOMAIN job[c].chain : job[c].chain[i].profile \notin job[c].gone

\* The profile c creates is neither created nor deleted by d.
Disjoint(c, d) ==
    job[c].at \in Creating /\ job[d].at \in Creating \cup Deleting =>
        job[c].profile # job[d].profile

Bound == \A s \in Slots : policy[s] \in Present \cup {Nobody}

Stores ==
    /\ rows \in [Profiles -> Storages \cup {Nobody}]
    /\ used \subseteq Profiles /\ deleted \subseteq used
    /\ \A p \in Profiles : rows[p] # Nobody => p \in used \ deleted
    /\ Bound

PInv ==
    /\ Stores
    /\ job = [c \in Procs |-> job[c]]
    /\ \A c \in Procs : JobOK(c)
    /\ \A c, d \in Procs : c # d => Disjoint(c, d)

\* Nothing exists and nobody is at work at first.
LEMMA InitPInv == Init => PInv
<1>. SUFFICES ASSUME Init PROVE PInv
  OBVIOUS
<1>1. job = [c \in Procs |-> job[c]] /\ \A c \in Procs : job[c].at = "idle"
  BY DEF Init, Idle
<1>2. Stores
  BY DEF Init, Stores, Bound, AllSlots
<1>. QED
  BY <1>1, <1>2 DEF PInv, JobOK, Disjoint, Creating, Deleting, Using

-----------------------------------------------------------------------------
\* A request that moves on without a change to rows, policy or history keeps
\* the invariant when it begins no creation, and deletes only what has a row.
LEMMA Moves ==
    ASSUME PInv, NEW c \in Procs, NEW next, Become(c, next),
           UNCHANGED <<rows, used, policy, deleted>>,
           JobOK(c)',
           next.at \in Creating =>
             job[c].at \in Creating /\ next.profile = job[c].profile,
           next.at \in Deleting =>
             \/ rows[next.profile] # Nobody
             \/ job[c].at \in Deleting /\ next.profile = job[c].profile
    PROVE  PInv'
<1>1. job' = [x \in Procs |-> job'[x]] /\ job'[c] = next
      /\ \A d \in Procs : d # c => job'[d] = job[d]
  BY DEF PInv, Become
<1>2. Stores'
  BY DEF PInv, Stores, Bound, Present
<1>3. ASSUME NEW d \in Procs PROVE JobOK(d)'
  <2>1. CASE d # c
    BY <1>1, <2>1 DEF PInv, JobOK
  <2>. QED
    BY <2>1
<1>4. ASSUME NEW d \in Procs, NEW e \in Procs, d # e PROVE Disjoint(d, e)'
  <2>1. JobOK(d) /\ JobOK(e) /\ Disjoint(d, e) /\ (c # e => Disjoint(c, e)) /\ (c # d => Disjoint(d, c))
    BY <1>4 DEF PInv
  <2>2. CASE d = c
    <3>1. job'[e] = job[e]
      BY <1>1, <1>4, <2>2
    <3>. QED
      BY <1>1, <1>4, <2>1, <2>2, <3>1 DEF Disjoint
  <2>3. CASE e = c
    <3>1. job'[d] = job[d]
      BY <1>1, <1>4, <2>3
    <3>2. CASE next.at \in Creating
      BY <1>1, <2>1, <2>3, <3>1, <3>2 DEF Disjoint, Creating, Deleting
    <3>3. CASE next.at \in Deleting
      BY <1>1, <2>1, <2>3, <3>1, <3>3 DEF Disjoint, JobOK, Creating, Deleting
    <3>4. CASE next.at \notin Creating \cup Deleting
      BY <1>1, <2>3, <3>4 DEF Disjoint
    <3>. QED
      BY <3>2, <3>3, <3>4
  <2>4. CASE d # c /\ e # c
    BY <1>1, <2>1, <2>4 DEF Disjoint
  <2>. QED
    BY <2>2, <2>3, <2>4
<1>. QED
  BY <1>1, <1>2, <1>3, <1>4 DEF PInv

\* A request that ends keeps the invariant, too.
LEMMA Ends ==
    ASSUME PInv, NEW c \in Procs, Answer(c), UNCHANGED <<rows, used, policy, deleted>>
    PROVE  PInv'
<1>1. Become(c, Idle) /\ job'[c] = Idle /\ Idle.at = "idle"
  BY DEF Answer, Become, PInv, Idle
<1>2. JobOK(c)'
  BY <1>1 DEF JobOK, Creating, Deleting, Using
<1>. QED
  BY <1>1, <1>2, Moves DEF Creating, Deleting

\* The profile a call's chain holds is the one resolved, or none.
LEMMA ChainHolds ==
    ASSUME NEW first, NEW i \in DOMAIN Chain(first)
    PROVE  Chain(first)[i].profile \in {first.profile, Nobody}
BY DEF Chain, Entry

\* The steps of a call.
LEMMA UseKeeps == ASSUME PInv, NEW c \in Procs, Use(c) PROVE PInv'
<1>s. UNCHANGED <<rows, used, policy, deleted>>
  BY DEF Use, Resolve, ReadBinding, ReadRow, ReadKey, Route, Attempt, SaveFeedback
<1>j. JobOK(c) /\ Nobody \notin deleted
  BY DEF PInv, Stores
<1>1. CASE Resolve(c)
  <2>1. PICK s \in Slots : Become(c, [at |-> "policy", slot |-> s, gone |-> deleted])
    BY <1>1 DEF Resolve, Begin
  <2>2. job'[c] = [at |-> "policy", slot |-> s, gone |-> deleted]
    BY <2>1 DEF Become, PInv
  <2>3. JobOK(c)'
    BY <1>s, <2>2 DEF JobOK, Creating, Deleting, Using
  <2>. QED
    BY <1>s, <2>1, <2>3, Moves DEF Creating, Deleting
<1>2. ASSUME NEW first, Become(c, Resolved(c, first)), job[c].at \in Using,
             first.profile \notin job[c].gone
      PROVE  PInv'
  <2>1. job'[c] = Resolved(c, first)
    BY <1>2 DEF Become, PInv
  <2>2. job'[c].at = "route" /\ job'[c].gone = job[c].gone /\ job'[c].chain = Chain(first)
    BY <2>1 DEF Resolved
  <2>3. Nobody \notin job[c].gone /\ job[c].gone \subseteq deleted
    BY <1>j, <1>2 DEF JobOK
  <2>4. \A i \in DOMAIN job'[c].chain : job'[c].chain[i].profile \notin job'[c].gone
    BY <1>2, <2>2, <2>3, ChainHolds
  <2>5. JobOK(c)'
    BY <1>s, <2>2, <2>3, <2>4 DEF JobOK, Creating, Deleting, Using
  <2>6. Resolved(c, first).at \notin Creating \cup Deleting
    BY DEF Resolved, Creating, Deleting
  <2>. QED
    BY <1>s, <1>2, <2>5, <2>6, Moves
<1>3. Default.profile = Nobody
  BY DEF Default, Entry
<1>4. CASE ReadBinding(c)
  <2>1. job[c].at = "policy" /\ job[c].at \in Using
    BY <1>4 DEF ReadBinding, At, Using
  <2>2. CASE policy[job[c].slot] = Nobody
    <3>1. Become(c, Resolved(c, Default))
      BY <1>4, <2>2 DEF ReadBinding
    <3>. QED
      BY <1>2, <1>3, <1>j, <2>1, <3>1 DEF JobOK
  <2>3. CASE policy[job[c].slot] # Nobody
    <3> DEFINE next == [at |-> "row", gone |-> job[c].gone, profile |-> policy[job[c].slot]]
    <3>1. Become(c, next)
      BY <1>4, <2>3 DEF ReadBinding
    <3>2. job'[c] = next
      BY <3>1 DEF Become, PInv
    <3>3. policy[job[c].slot] \in Present
      BY <1>j, <2>1, <2>3 DEF JobOK, PInv, Stores, Bound
    <3>4. policy[job[c].slot] \notin job[c].gone /\ job[c].gone \subseteq deleted
      BY <1>j, <2>1, <3>3 DEF JobOK, PInv, Stores, Present
    <3>5. JobOK(c)'
      BY <1>s, <3>2, <3>4 DEF JobOK, Creating, Deleting, Using
    <3>6. next.at \notin Creating \cup Deleting
      BY DEF Creating, Deleting
    <3>. HIDE DEF next
    <3>. QED
      BY <1>s, <3>1, <3>5, <3>6, Moves
  <2>. QED
    BY <2>2, <2>3
<1>5. CASE ReadRow(c)
  <2>1. job[c].at = "row" /\ job[c].at \in Using
    BY <1>5 DEF ReadRow, At, Using
  <2>2. CASE Become(c, Resolved(c, Default))
    BY <1>2, <1>3, <1>j, <2>1, <2>2 DEF JobOK
  <2>3. CASE Become(c, [at |-> "key", gone |-> job[c].gone, profile |-> job[c].profile,
                        storage |-> rows[job[c].profile]])
    <3> DEFINE next == [at |-> "key", gone |-> job[c].gone, profile |-> job[c].profile,
                        storage |-> rows[job[c].profile]]
    <3>1. job'[c] = next
      BY <2>3 DEF Become, PInv
    <3>2. JobOK(c)'
      BY <1>s, <1>j, <2>1, <3>1 DEF JobOK, Creating, Deleting, Using
    <3>3. next.at \notin Creating \cup Deleting
      BY DEF Creating, Deleting
    <3>. HIDE DEF next
    <3>. QED
      BY <1>s, <2>3, <3>2, <3>3, Moves DEF next
  <2>. QED
    BY <1>5, <2>2, <2>3 DEF ReadRow
<1>6. CASE ReadKey(c)
  <2>1. job[c].at = "key" /\ job[c].at \in Using
    BY <1>6 DEF ReadKey, At, Using
  <2>2. PICK own : Become(c, Resolved(c, Entry(job[c].profile, ModelOf[job[c].profile], own)))
    BY <1>6 DEF ReadKey
  <2>3. Entry(job[c].profile, ModelOf[job[c].profile], own).profile = job[c].profile
    BY DEF Entry
  <2>. QED
    BY <1>2, <1>j, <2>1, <2>2, <2>3 DEF JobOK
<1>7. CASE Route(c) \/ Attempt(c)
  <2>1. PICK left : Become(c, Calling(c, left))
    BY <1>7 DEF Route, Attempt
  <2>2. job[c].at \in {"route", "feedback"}
    BY <1>7 DEF Route, Attempt, At
  <2>3. job'[c] = Calling(c, left)
    BY <2>1 DEF Become, PInv
  <2>4. JobOK(c)'
    BY <1>s, <1>j, <2>2, <2>3 DEF JobOK, Calling, Creating, Deleting, Using
  <2>5. Calling(c, left).at \notin Creating \cup Deleting
    BY DEF Calling, Creating, Deleting
  <2>. QED
    BY <1>s, <2>1, <2>4, <2>5, Moves
<1>8. CASE SaveFeedback(c)
  <2>1. CASE Answer(c)
    BY <1>s, <2>1, Ends
  <2>2. CASE job' = job
    BY <1>s, <2>2 DEF PInv, Stores, Bound, Present, JobOK, Disjoint
  <2>. QED
    BY <1>8, <2>1, <2>2 DEF SaveFeedback
<1>. QED
  BY <1>1, <1>4, <1>5, <1>6, <1>7, <1>8 DEF Use

-----------------------------------------------------------------------------
\* A new profile's uuid is nobody's yet.
LEMMA CreateKeeps == ASSUME PInv, NEW c \in Procs, CreateProfile(c) PROVE PInv'
<1>1. PICK p \in Profiles \ used, storage \in Storages :
        /\ Become(c, [at |-> IF storage \in External THEN "write" ELSE "insert",
                      profile |-> p, storage |-> storage])
        /\ used' = used \cup {p}
  BY DEF CreateProfile, Begin
<1>2. UNCHANGED <<rows, policy, deleted>>
  BY DEF CreateProfile
<1>3. /\ job' = [x \in Procs |-> job'[x]]
      /\ job'[c].at \in Creating /\ job'[c].profile = p /\ job'[c].storage = storage
      /\ \A d \in Procs : d # c => job'[d] = job[d]
  BY <1>1 DEF Become, PInv, Creating
<1>4. rows[p] = Nobody /\ p \notin deleted
  BY <1>1 DEF PInv, Stores
<1>5. Stores'
  BY <1>1, <1>2 DEF PInv, Stores, Bound, Present
<1>6. ASSUME NEW d \in Procs PROVE JobOK(d)'
  <2>1. CASE d = c
    BY <1>1, <1>2, <1>3, <1>4, <2>1 DEF JobOK, Creating, Deleting, Using
  <2>2. CASE d # c
    BY <1>1, <1>2, <1>3, <2>2 DEF JobOK, PInv
  <2>. QED
    BY <2>1, <2>2
<1>7. ASSUME NEW d \in Procs, job[d].at \in Creating \cup Deleting PROVE job[d].profile # p
  BY <1>1, <1>7 DEF PInv, JobOK
<1>8. ASSUME NEW d \in Procs, NEW e \in Procs, d # e PROVE Disjoint(d, e)'
  <2>1. CASE d # c /\ e # c
    BY <1>3, <1>8, <2>1 DEF Disjoint, PInv
  <2>2. CASE d = c \/ e = c
    BY <1>3, <1>7, <1>8, <2>2 DEF Disjoint
  <2>. QED
    BY <2>1, <2>2
<1>. QED
  BY <1>3, <1>5, <1>6, <1>8 DEF PInv

\* The row of a profile is inserted by the one request that creates it.
LEMMA InsertKeeps ==
    ASSUME PInv, NEW c \in Procs, At(c, "insert"), Answer(c),
           rows' = [rows EXCEPT ![job[c].profile] = job[c].storage],
           UNCHANGED <<used, policy, deleted>>
    PROVE  PInv'
<1>1. /\ job' = [x \in Procs |-> job'[x]] /\ job'[c].at = "idle"
      /\ \A d \in Procs : d # c => job'[d] = job[d]
  BY DEF Answer, Become, PInv, Idle
<1>2. /\ job[c].at \in Creating /\ job[c].profile \in used \ deleted
      /\ job[c].storage \in Storages /\ job[c].storage # Nobody
  BY DEF At, PInv, JobOK, Creating
<1>3. Stores'
  BY <1>2 DEF PInv, Stores, Bound, Present
<1>4. ASSUME NEW d \in Procs PROVE JobOK(d)'
  <2>1. CASE d = c
    BY <1>1, <2>1 DEF JobOK, Creating, Deleting, Using
  <2>2. CASE d # c
    <3>1. JobOK(d) /\ Disjoint(d, c) /\ job'[d] = job[d]
      BY <1>1, <2>2 DEF PInv
    <3>2. job[d].at \in Creating => rows'[job[d].profile] = Nobody
      BY <1>2, <3>1 DEF JobOK, Disjoint, PInv, Stores
    <3>. QED
      BY <3>1, <3>2 DEF JobOK
  <2>. QED
    BY <2>1, <2>2
<1>5. ASSUME NEW d \in Procs, NEW e \in Procs, d # e PROVE Disjoint(d, e)'
  BY <1>1, <1>5 DEF Disjoint, PInv, Creating, Deleting
<1>. QED
  BY <1>1, <1>3, <1>4, <1>5 DEF PInv

\* Removing a row clears the tasks bound to it, and nobody is creating it.
LEMMA RemoveKeeps ==
    ASSUME PInv, NEW c \in Procs, At(c, "remove"), Answer(c), Removed(job[c].profile),
           UNCHANGED used, deleted' \in {deleted, deleted \cup {job[c].profile}}
    PROVE  PInv'
<1>1. /\ job' = [x \in Procs |-> job'[x]] /\ job'[c].at = "idle"
      /\ \A d \in Procs : d # c => job'[d] = job[d]
  BY DEF Answer, Become, PInv, Idle
<1>2. job[c].at \in Deleting /\ job[c].profile \in used
  BY DEF At, PInv, JobOK, Deleting
<1>3. Stores'
  <2>1. Bound'
    BY DEF PInv, Stores, Bound, Present, Removed, AllSlots
  <2>. QED
    BY <1>2, <2>1 DEF PInv, Stores, Removed
<1>4. ASSUME NEW d \in Procs PROVE JobOK(d)'
  <2>1. CASE d = c
    BY <1>1, <2>1 DEF JobOK, Creating, Deleting, Using
  <2>2. CASE d # c
    <3>1. JobOK(d) /\ Disjoint(d, c) /\ job'[d] = job[d]
      BY <1>1, <2>2 DEF PInv
    <3>2. job[d].at \in Creating =>
             /\ job[d].profile \in used \ deleted' /\ rows'[job[d].profile] = Nobody
      BY <1>2, <3>1 DEF JobOK, Disjoint, PInv, Stores, Removed
    <3>3. deleted \subseteq deleted'
      OBVIOUS
    <3>. QED
      BY <3>1, <3>2, <3>3 DEF JobOK
  <2>. QED
    BY <2>1, <2>2
<1>5. ASSUME NEW d \in Procs, NEW e \in Procs, d # e PROVE Disjoint(d, e)'
  BY <1>1, <1>5 DEF Disjoint, PInv, Creating, Deleting
<1>. QED
  BY <1>1, <1>3, <1>4, <1>5 DEF PInv

\* What a policy binds to a task is a profile with a row, or nothing.
LEMMA WriteKeeps == ASSUME PInv, NEW c \in Procs, WritePolicyRow(c) PROVE PInv'
<1>1. /\ job' = [x \in Procs |-> job'[x]] /\ job'[c].at = "idle"
      /\ \A d \in Procs : d # c => job'[d] = job[d]
  BY DEF WritePolicyRow, Answer, Become, PInv, Idle
<1>2. UNCHANGED <<rows, used, deleted>>
  BY DEF WritePolicyRow
<1>3. Bound'
  <2>1. CASE KeysHold(c)
    <3>1. \A s \in Slots : s \in Written(c) => job[c].wanted[s] \in Present \cup {Nobody}
      BY <2>1 DEF KeysHold, Written
    <3>2. policy' = [s \in AllSlots |-> IF s \in Written(c) THEN job[c].wanted[s] ELSE policy[s]]
      BY <2>1 DEF WritePolicyRow
    <3>. QED
      BY <1>2, <3>1, <3>2 DEF PInv, Stores, Bound, AllSlots, Present
  <2>2. CASE ~KeysHold(c)
    BY <1>2, <2>2 DEF WritePolicyRow, PInv, Stores, Bound, Present
  <2>. QED
    BY <2>1, <2>2
<1>4. Stores'
  BY <1>2, <1>3 DEF PInv, Stores
<1>5. ASSUME NEW d \in Procs PROVE JobOK(d)'
  <2>1. CASE d = c
    BY <1>1, <2>1 DEF JobOK, Creating, Deleting, Using
  <2>2. CASE d # c
    BY <1>1, <1>2, <2>2 DEF JobOK, PInv
  <2>. QED
    BY <2>1, <2>2
<1>6. ASSUME NEW d \in Procs, NEW e \in Procs, d # e PROVE Disjoint(d, e)'
  BY <1>1, <1>6 DEF Disjoint, PInv, Creating, Deleting
<1>. QED
  BY <1>1, <1>4, <1>5, <1>6 DEF PInv

\* The other steps of the requests that manage profiles.
LEMMA ManageKeeps == ASSUME PInv, NEW c \in Procs, Manage(c) PROVE PInv'
<1>j. JobOK(c)
  BY DEF PInv
<1>1. CASE WriteSecret(c)
  <2> DEFINE next == [at |-> "insert", profile |-> job[c].profile, storage |-> job[c].storage]
  <2>1. /\ Become(c, next) /\ job[c].at \in Creating
        /\ UNCHANGED <<rows, used, policy, deleted>>
    BY <1>1 DEF WriteSecret, At, Creating
  <2>2. job'[c] = next
    BY <2>1 DEF Become, PInv
  <2>3. JobOK(c)'
    BY <1>j, <2>1, <2>2 DEF JobOK, Creating, Deleting, Using
  <2>4. next.profile = job[c].profile /\ next.at \notin Deleting
    BY DEF Deleting
  <2>. HIDE DEF next
  <2>. QED
    BY <2>1, <2>3, <2>4, Moves
<1>2. CASE DeleteProfile(c)
  <2>1. PICK p \in used : Become(c, [at |-> "find", profile |-> p])
    BY <1>2 DEF DeleteProfile, Begin
  <2>2. UNCHANGED <<rows, used, policy, deleted>>
    BY <1>2 DEF DeleteProfile
  <2>3. job'[c] = [at |-> "find", profile |-> p]
    BY <2>1 DEF Become, PInv
  <2>4. JobOK(c)'
    BY <2>1, <2>2, <2>3 DEF JobOK, Creating, Deleting, Using
  <2>. QED
    BY <2>1, <2>2, <2>4, Moves DEF Creating, Deleting
<1>3. ASSUME NEW step \in Deleting, Become(c, Removing(c, step)), job[c].profile \in used,
             UNCHANGED <<rows, used, policy, deleted>>,
             job[c].at \in Deleting \/ rows[job[c].profile] # Nobody
      PROVE  PInv'
  <2>1. job'[c] = Removing(c, step)
    BY <1>3 DEF Become, PInv
  <2>2. JobOK(c)'
    BY <1>3, <2>1 DEF JobOK, Removing, Creating, Deleting, Using
  <2>3. Removing(c, step).at \notin Creating /\ Removing(c, step).profile = job[c].profile
    BY <1>3 DEF Removing, Creating, Deleting
  <2>. QED
    BY <1>3, <2>2, <2>3, Moves
<1>4. CASE FindRow(c)
  <2>1. job[c].profile \in used /\ UNCHANGED <<rows, used, policy, deleted>>
    BY <1>4, <1>j DEF FindRow, At, JobOK
  <2>2. CASE rows[job[c].profile] = Nobody
    BY <1>4, <2>1, <2>2, Ends DEF FindRow, Answer
  <2>3. CASE rows[job[c].profile] # Nobody
    <3>1. PICK step \in Deleting : Become(c, Removing(c, step))
      BY <1>4, <2>3 DEF FindRow, Deleting
    <3>. QED
      BY <1>3, <2>1, <2>3, <3>1
  <2>. QED
    BY <2>2, <2>3
<1>5. CASE EraseSecret(c)
  <2>1. /\ Become(c, Removing(c, "remove")) /\ "remove" \in Deleting
        /\ job[c].at \in Deleting /\ job[c].profile \in used
        /\ UNCHANGED <<rows, used, policy, deleted>>
    BY <1>5, <1>j DEF EraseSecret, At, JobOK, Deleting
  <2>. QED
    BY <1>3, <2>1
<1>6. CASE UpsertPolicy(c) \/ ReadPolicyRow(c)
  <2>1. PICK next : Become(c, next) /\ next.at \in {"read", "bind"}
    <3>1. ASSUME UpsertPolicy(c) PROVE \E next : Become(c, next) /\ next.at \in {"read", "bind"}
      <4>1. PICK wanted, experts :
              Become(c, [at |-> "read", wanted |-> wanted, experts |-> experts, seen |-> policy])
        BY <3>1 DEF UpsertPolicy, Begin
      <4> DEFINE next == [at |-> "read", wanted |-> wanted, experts |-> experts, seen |-> policy]
      <4>2. Become(c, next) /\ next.at \in {"read", "bind"}
        BY <4>1
      <4>. HIDE DEF next
      <4>. QED
        BY <4>2
    <3>2. ASSUME ReadPolicyRow(c) PROVE \E next : Become(c, next) /\ next.at \in {"read", "bind"}
      <4> DEFINE next == [at |-> "bind", wanted |-> job[c].wanted, experts |-> job[c].experts,
                          seen |-> policy]
      <4>1. Become(c, next) /\ next.at \in {"read", "bind"}
        BY <3>2 DEF ReadPolicyRow
      <4>. HIDE DEF next
      <4>. QED
        BY <4>1
    <3>. QED
      BY <1>6, <3>1, <3>2
  <2>2. UNCHANGED <<rows, used, policy, deleted>>
    BY <1>6 DEF UpsertPolicy, ReadPolicyRow
  <2>3. job'[c] = next
    BY <2>1 DEF Become, PInv
  <2>4. JobOK(c)'
    BY <2>1, <2>3 DEF JobOK, Creating, Deleting, Using
  <2>5. next.at \notin Creating \cup Deleting
    BY <2>1 DEF Creating, Deleting
  <2>. QED
    BY <2>1, <2>2, <2>4, <2>5, Moves
<1>7. CASE InsertRow(c)
  BY <1>7, InsertKeeps DEF InsertRow
<1>8. CASE RemoveRow(c)
  BY <1>8, RemoveKeeps DEF RemoveRow
<1>. QED
  BY <1>1, <1>2, <1>4, <1>5, <1>6, <1>7, <1>8, CreateKeeps, WriteKeeps DEF Manage

\* A store that fails did what was asked, or nothing.
LEMMA FailsKeep == ASSUME PInv, NEW c \in Procs, Fails(c) PROVE PInv'
<1>1. CASE WriteSecretFails(c) \/ EraseSecretFails(c)
  BY <1>1, Ends DEF WriteSecretFails, EraseSecretFails
<1>2. CASE InsertRowFails(c)
  <2>1. CASE rows' = rows
    BY <1>2, <2>1, Ends DEF InsertRowFails
  <2>2. CASE rows' = [rows EXCEPT ![job[c].profile] = job[c].storage]
    BY <1>2, <2>2, InsertKeeps DEF InsertRowFails
  <2>. QED
    BY <1>2, <2>1, <2>2 DEF InsertRowFails
<1>3. CASE RemoveRowFails(c)
  <2>1. CASE Removed(job[c].profile)
    BY <1>3, <2>1, RemoveKeeps DEF RemoveRowFails
  <2>2. CASE UNCHANGED <<rows, policy>>
    BY <1>3, <2>2, Ends DEF RemoveRowFails
  <2>. QED
    BY <1>3, <2>1, <2>2 DEF RemoveRowFails
<1>. QED
  BY <1>1, <1>2, <1>3 DEF Fails

\* The invariant is inductive.
LEMMA NextPInv == PInv /\ [Next]_vars => PInv'
<1>. SUFFICES ASSUME PInv, [Next]_vars PROVE PInv'
  OBVIOUS
<1>1. CASE UNCHANGED <<rows, used, policy, deleted, job>>
  BY <1>1 DEF PInv, Stores, Bound, Present, JobOK, Disjoint
<1>2. CASE (\E p \in Profiles : SecretLapses(p)) \/ Expire \/ UNCHANGED vars
  BY <1>1, <1>2 DEF SecretLapses, Expire, vars, profileVars
<1>3. ASSUME NEW c \in Procs, Manage(c) \/ Use(c) \/ Fails(c) PROVE PInv'
  BY <1>3, ManageKeeps, UseKeeps, FailsKeep
<1>. QED
  BY <1>2, <1>3 DEF Next

\* No task is bound to a profile that is not there, and no call runs on a
\* profile that was deleted before it began (profiles.resolve_profile_for_task).
THEOREM CallsUseLiveProfiles == Spec => []ServesLiveProfiles
<1>1. PInv => ServesLiveProfiles
  BY DEF PInv, Stores, Bound, JobOK, ServesLiveProfiles
<1>. QED
  BY <1>1, InitPInv, NextPInv, PTL DEF Spec

-----------------------------------------------------------------------------
(* Where a request stands between the two stores: what is to be inserted    *)
(* has its secret, unless that expired; what is to be removed has none.     *)
JobSec(c) ==
    /\ job[c].at = "write" => job[c].profile \notin secrets /\ job[c].storage \in External
    /\ job[c].at = "insert" => IF job[c].storage \in External THEN job[c].profile \in secrets \cup lapsed
                                                              ELSE job[c].profile \notin secrets
    /\ job[c].at = "remove" => job[c].profile \notin secrets

SecretsKept ==
    /\ secrets \subseteq used
    /\ \A p \in secrets : rows[p] \in External \cup {Nobody}

SInv == SecretsKept /\ \A c \in Procs : JobSec(c)

(* The profiles that are apart with nobody about to bring them together.    *)
Covered(p) == \E c \in Procs : job[c].at \in {"insert", "remove"} /\ job[c].profile = p
Broken == {p \in Profiles \ lapsed : Apart(p) /\ ~Covered(p)}

(* A step of c that touches both stores at most at p, and goes on with n.   *)
StepOn(c, p, n) ==
    /\ Become(c, n) /\ UNCHANGED lapsed /\ used \subseteq used'
    /\ rows' = rows \/ \E v : rows' = [rows EXCEPT ![p] = v]
    /\ \/ secrets' = secrets
       \/ secrets' = secrets \cup {p} /\ job[c].at \in Creating /\ p = job[c].profile
       \/ secrets' = secrets \ {p} /\ job[c].at \in Deleting /\ p = job[c].profile

\* The other requests stay where they are.
LEMMA OneMoves ==
    ASSUME PInv, NEW c \in Procs, NEW n, Become(c, n)
    PROVE  job'[c] = n /\ \A d \in Procs : d # c => job'[d] = job[d]
BY DEF PInv, Become

\* Between the stores, too.
LEMMA SecSteps ==
    ASSUME PInv, SInv, NEW c \in Procs, NEW p, NEW n, StepOn(c, p, n), JobSec(c)',
           secrets' \subseteq used', p \in secrets' => rows'[p] \in External \cup {Nobody}
    PROVE  SInv'
<1>1. job'[c] = n /\ \A d \in Procs : d # c => job'[d] = job[d]
  BY OneMoves DEF StepOn
<1>2. ASSUME NEW d \in Procs PROVE JobSec(d)'
  <2>1. CASE d = c
    BY <2>1
  <2>2. CASE d # c
    <3>1. JobSec(d) /\ Disjoint(d, c) /\ Disjoint(c, d) /\ job'[d] = job[d]
      BY <1>1, <2>2 DEF PInv, SInv
    <3>2. CASE secrets' = secrets
      BY <3>1, <3>2 DEF JobSec, StepOn
    <3>3. CASE secrets' = secrets \cup {p} /\ job[c].at \in Creating /\ p = job[c].profile
      BY <3>1, <3>3 DEF JobSec, StepOn, Disjoint, Creating, Deleting
    <3>4. CASE secrets' = secrets \ {p} /\ job[c].at \in Deleting /\ p = job[c].profile
      BY <3>1, <3>4 DEF JobSec, StepOn, Disjoint, Creating, Deleting
    <3>. QED
      BY <3>2, <3>3, <3>4 DEF StepOn
  <2>. QED
    BY <2>1, <2>2
<1>3. ASSUME NEW q \in secrets' PROVE rows'[q] \in External \cup {Nobody}
  <2>1. CASE q # p
    <3>1. q \in secrets
      BY <2>1 DEF StepOn
    <3>2. q \in Profiles
      BY <3>1 DEF SInv, SecretsKept, PInv, Stores
    <3>3. rows'[q] = rows[q]
      BY <2>1, <3>2 DEF StepOn, PInv, Stores
    <3>. QED
      BY <3>1, <3>3 DEF SInv, SecretsKept
  <2>. QED
    BY <2>1
<1>. QED
  BY <1>2, <1>3 DEF SInv, SecretsKept

\* Only where the step touches can a profile be broken that was not.
LEMMA BrokenSteps ==
    ASSUME PInv, NEW c \in Procs, NEW p, NEW n, StepOn(c, p, n),
           job[c].at \in {"insert", "remove"} => job[c].profile = p
    PROVE  Broken' \subseteq Broken \cup {p}
<1>1. job'[c] = n /\ \A d \in Procs : d # c => job'[d] = job[d]
  BY OneMoves DEF StepOn
<1>2. ASSUME NEW q \in Profiles \ lapsed, Apart(q)', ~Covered(q)', q # p PROVE Apart(q) /\ ~Covered(q)
  <2>1. rows'[q] = rows[q] /\ (q \in secrets' <=> q \in secrets)
    BY <1>2 DEF StepOn, PInv, Stores
  <2>2. ~Covered(q)
    BY <1>1, <1>2 DEF Covered
  <2>. QED
    BY <1>2, <2>1, <2>2 DEF Apart
<1>. QED
  BY <1>2 DEF Broken, StepOn

\* A step that leaves both stores alone, by a request that brings nothing together.
LEMMA BrokenRests ==
    ASSUME PInv, NEW c \in Procs, NEW n, Become(c, n), UNCHANGED <<rows, secrets, lapsed>>,
           job[c].at \notin {"insert", "remove"}
    PROVE  Broken' \subseteq Broken
<1>1. job'[c] = n /\ \A d \in Procs : d # c => job'[d] = job[d]
  BY OneMoves
<1>2. ASSUME NEW q \in Profiles, ~Covered(q)' PROVE ~Covered(q)
  BY <1>1, <1>2 DEF Covered
<1>. QED
  BY <1>2 DEF Broken, Apart

(* What a step may do: no profile breaks, or one does and a fault is counted. *)
Accounted ==
    \/ Broken' \subseteq Broken /\ faults' \in {faults, faults + 1}
    \/ \E p : Broken' \subseteq Broken \cup {p} /\ faults' = faults + 1

\* A request that manages no store leaves both alone.
LEMMA OtherSteps ==
    ASSUME PInv, SInv, NEW c \in Procs,
           \/ Use(c) \/ DeleteProfile(c) \/ UpsertPolicy(c) \/ ReadPolicyRow(c) \/ WritePolicyRow(c)
    PROVE  SInv' /\ Accounted
<1>1. /\ UNCHANGED <<rows, secrets, used, lapsed>> /\ faults' \in {faults, faults + 1}
      /\ job[c].at \notin {"insert", "remove"}
  BY DEF Use, Resolve, ReadBinding, ReadRow, ReadKey, Route, Attempt, SaveFeedback, DeleteProfile, UpsertPolicy,
         ReadPolicyRow, WritePolicyRow, Begin, At, Fault
<1>2. job' = job \/ \E n : Become(c, n) /\ n.at \notin {"write", "insert", "remove"}
  <2>1. CASE Resolve(c)
    <3>1. PICK s \in Slots : Become(c, [at |-> "policy", slot |-> s, gone |-> deleted])
      BY <2>1 DEF Resolve, Begin
    <3>2. [at |-> "policy", slot |-> s, gone |-> deleted].at = "policy"
      OBVIOUS
    <3>. QED
      BY <3>1, <3>2, Zenon
  <2>2. \A first : Resolved(c, first).at = "route"
    BY DEF Resolved
  <2>3. \A left : Calling(c, left).at = "feedback"
    BY DEF Calling
  <2>4. Idle.at = "idle"
    BY DEF Idle
  <2>5. CASE ReadBinding(c)
    <3> DEFINE n == [at |-> "row", gone |-> job[c].gone, profile |-> policy[job[c].slot]]
    <3>1. n.at = "row"
      OBVIOUS
    <3>2. Become(c, Resolved(c, Default)) \/ Become(c, n)
      BY <2>5 DEF ReadBinding
    <3>. HIDE DEF n
    <3>. QED
      BY <2>2, <3>1, <3>2
  <2>6. CASE ReadRow(c)
    <3> DEFINE n == [at |-> "key", gone |-> job[c].gone, profile |-> job[c].profile, storage |-> rows[job[c].profile]]
    <3>1. n.at = "key"
      OBVIOUS
    <3>2. Become(c, Resolved(c, Default)) \/ Become(c, n)
      BY <2>6 DEF ReadRow
    <3>. HIDE DEF n
    <3>. QED
      BY <2>2, <3>1, <3>2
  <2>7. CASE ReadKey(c)
    <3>1. PICK first : Become(c, Resolved(c, first))
      BY <2>7 DEF ReadKey
    <3>. QED
      BY <2>2, <3>1
  <2>8. CASE Route(c) \/ Attempt(c)
    <3>1. PICK left : Become(c, Calling(c, left))
      BY <2>8 DEF Route, Attempt
    <3>. QED
      BY <2>3, <3>1
  <2>9. CASE SaveFeedback(c) \/ WritePolicyRow(c)
    BY <2>4, <2>9 DEF SaveFeedback, WritePolicyRow, Answer
  <2>10. CASE DeleteProfile(c)
    <3>1. PICK p : Become(c, [at |-> "find", profile |-> p])
      BY <2>10 DEF DeleteProfile, Begin
    <3>2. [at |-> "find", profile |-> p].at = "find"
      OBVIOUS
    <3>. QED
      BY <3>1, <3>2, Zenon
  <2>11. CASE UpsertPolicy(c)
    <3>1. PICK wanted, experts : Become(c, [at |-> "read", wanted |-> wanted, experts |-> experts, seen |-> policy])
      BY <2>11 DEF UpsertPolicy, Begin
    <3>2. [at |-> "read", wanted |-> wanted, experts |-> experts, seen |-> policy].at = "read"
      OBVIOUS
    <3>. QED
      BY <3>1, <3>2, Zenon
  <2>12. CASE ReadPolicyRow(c)
    <3>1. Become(c, [at |-> "bind", wanted |-> job[c].wanted, experts |-> job[c].experts, seen |-> policy])
      BY <2>12 DEF ReadPolicyRow
    <3>2. [at |-> "bind", wanted |-> job[c].wanted, experts |-> job[c].experts, seen |-> policy].at = "bind"
      OBVIOUS
    <3>. QED
      BY <3>1, <3>2, Zenon
  <2>. QED
    BY <2>1, <2>5, <2>6, <2>7, <2>8, <2>9, <2>10, <2>11, <2>12 DEF Use
<1>3. CASE job' = job
  <2>1. SInv' /\ Broken' = Broken
    BY <1>1, <1>3 DEF SInv, SecretsKept, JobSec, Broken, Apart, Covered
  <2>. QED
    BY <1>1, <2>1 DEF Accounted
<1>4. ASSUME NEW n, Become(c, n), n.at \notin {"write", "insert", "remove"} PROVE SInv' /\ Accounted
  <2>1. job'[c] = n
    BY <1>4, OneMoves
  <2>2. JobSec(c)'
    BY <1>4, <2>1 DEF JobSec
  <2>3. StepOn(c, Nobody, n)
    BY <1>1, <1>4 DEF StepOn
  <2>4. SInv'
    BY <1>1, <2>2, <2>3, SecSteps DEF SInv, SecretsKept
  <2>5. Broken' \subseteq Broken
    BY <1>1, <1>4, BrokenRests
  <2>. QED
    BY <1>1, <2>4, <2>5 DEF Accounted
<1>. QED
  BY <1>2, <1>3, <1>4

\* The steps of a creation.
LEMMA CreationSteps ==
    ASSUME PInv, SInv, NEW c \in Procs,
           CreateProfile(c) \/ WriteSecret(c) \/ WriteSecretFails(c) \/ InsertRow(c) \/ InsertRowFails(c)
    PROVE  SInv' /\ Accounted
<1>p. PICK p : p = job[c].profile
  OBVIOUS
<1>. USE <1>p
<1> DEFINE inserting == [at |-> "insert", profile |-> p, storage |-> job[c].storage]
<1>j. JobOK(c) /\ JobSec(c)
  BY DEF PInv, SInv
<1>1. CASE CreateProfile(c)
  <2>1. PICK q \in Profiles \ used, storage \in Storages :
          /\ Become(c, [at |-> IF storage \in External THEN "write" ELSE "insert", profile |-> q, storage |-> storage])
          /\ used' = used \cup {q}
    BY <1>1 DEF CreateProfile, Begin
  <2> DEFINE n == [at |-> IF storage \in External THEN "write" ELSE "insert", profile |-> q, storage |-> storage]
  <2>2. /\ UNCHANGED <<rows, secrets, lapsed, faults>> /\ job[c].at = "idle"
    BY <1>1 DEF CreateProfile, Begin, At
  <2>3. /\ n.at = (IF storage \in External THEN "write" ELSE "insert") /\ n.profile = q /\ n.storage = storage
        /\ Become(c, n)
    BY <2>1
  <2>. HIDE DEF n
  <2>4. job'[c] = n /\ q \notin secrets
    BY <2>3, OneMoves DEF SInv, SecretsKept
  <2>5. JobSec(c)'
    BY <2>2, <2>3, <2>4 DEF JobSec
  <2>6. StepOn(c, Nobody, n)
    BY <2>1, <2>2, <2>3 DEF StepOn
  <2>7. SInv'
    BY <2>1, <2>2, <2>5, <2>6, SecSteps DEF SInv, SecretsKept
  <2>8. Broken' \subseteq Broken
    BY <2>2, <2>3, BrokenRests
  <2>. QED
    BY <2>2, <2>7, <2>8 DEF Accounted
<1>2. Idle.at = "idle"
  BY DEF Idle
<1>3. inserting.at = "insert" /\ inserting.profile = p /\ inserting.storage = job[c].storage
  OBVIOUS
<1>. HIDE DEF inserting
<1>4. CASE WriteSecret(c)
  <2>1. /\ Become(c, inserting) /\ secrets' = secrets \cup {p} /\ UNCHANGED <<rows, used, lapsed, faults>>
        /\ job[c].at = "write" /\ job[c].at \in Creating
    BY <1>4 DEF WriteSecret, At, Creating, inserting
  <2>2. rows[p] = Nobody /\ p \in used /\ job[c].storage \in External
    BY <1>j, <2>1 DEF JobOK, JobSec
  <2>3. job'[c] = inserting
    BY <2>1, OneMoves
  <2>4. JobSec(c)'
    BY <1>3, <2>1, <2>2, <2>3 DEF JobSec
  <2>5. StepOn(c, p, inserting)
    BY <2>1 DEF StepOn
  <2>6. SInv'
    BY <2>1, <2>2, <2>4, <2>5, SecSteps DEF SInv, SecretsKept
  <2>7. Broken' \subseteq Broken \cup {p}
    BY <2>1, <2>5, BrokenSteps
  <2>8. Covered(p)'
    BY <1>3, <2>3 DEF Covered
  <2>9. Broken' \subseteq Broken
    BY <2>7, <2>8 DEF Broken
  <2>. QED
    BY <2>1, <2>6, <2>9 DEF Accounted
<1>5. CASE WriteSecretFails(c)
  <2>1. /\ Become(c, Idle) /\ secrets' \in {secrets, secrets \cup {p}} /\ UNCHANGED <<rows, used, lapsed>>
        /\ job[c].at = "write" /\ job[c].at \in Creating /\ faults' = faults + 1
    BY <1>5 DEF WriteSecretFails, At, Creating, Answer, Fault
  <2>2. rows[p] = Nobody /\ p \in used
    BY <1>j, <2>1 DEF JobOK
  <2>3. JobSec(c)'
    BY <1>2, <2>1, OneMoves DEF JobSec
  <2>4. StepOn(c, p, Idle)
    BY <2>1 DEF StepOn
  <2>5. SInv'
    BY <2>1, <2>2, <2>3, <2>4, SecSteps DEF SInv, SecretsKept
  <2>6. Broken' \subseteq Broken \cup {p}
    BY <2>1, <2>4, BrokenSteps
  <2>. QED
    BY <2>1, <2>5, <2>6 DEF Accounted
<1>6. CASE InsertRow(c) \/ InsertRowFails(c)
  <2>1. /\ Become(c, Idle) /\ UNCHANGED <<secrets, used, lapsed>>
        /\ rows' \in {rows, [rows EXCEPT ![p] = job[c].storage]}
        /\ job[c].at = "insert" /\ job[c].at \in Creating
    BY <1>6 DEF InsertRow, InsertRowFails, At, Creating, Answer
  <2>2. /\ rows[p] = Nobody /\ p \in Profiles /\ job[c].storage \in Storages
        /\ IF job[c].storage \in External THEN p \in secrets \cup lapsed ELSE p \notin secrets
    BY <1>j, <2>1 DEF JobOK, JobSec, PInv, Stores
  <2>3. JobSec(c)'
    BY <1>2, <2>1, OneMoves DEF JobSec
  <2>4. StepOn(c, p, Idle)
    BY <2>1 DEF StepOn
  <2>5. p \in secrets' => rows'[p] \in External \cup {Nobody}
    BY <2>1, <2>2 DEF PInv, Stores
  <2>6. SInv'
    BY <2>1, <2>3, <2>4, <2>5, SecSteps DEF SInv, SecretsKept
  <2>7. Broken' \subseteq Broken \cup {p}
    BY <2>1, <2>4, BrokenSteps
  <2>8. CASE InsertRowFails(c)
    BY <2>6, <2>7, <2>8 DEF Accounted, InsertRowFails, Fault
  <2>9. CASE InsertRow(c)
    <3>1. rows' = [rows EXCEPT ![p] = job[c].storage] /\ UNCHANGED faults
      BY <2>9 DEF InsertRow
    <3>2. rows'[p] = job[c].storage
      BY <2>2, <3>1 DEF PInv, Stores
    <3>3. p \in lapsed' \/ ~Apart(p)'
      BY <2>1, <2>2, <3>2 DEF Apart
    <3>4. Broken' \subseteq Broken
      BY <2>7, <3>3 DEF Broken
    <3>. QED
      BY <2>6, <3>1, <3>4 DEF Accounted
  <2>. QED
    BY <1>6, <2>8, <2>9
<1>. QED
  BY <1>1, <1>4, <1>5, <1>6

\* The steps of a deletion.
LEMMA DeletionSteps ==
    ASSUME PInv, SInv, NEW c \in Procs,
           FindRow(c) \/ EraseSecret(c) \/ EraseSecretFails(c) \/ RemoveRow(c) \/ RemoveRowFails(c)
    PROVE  SInv' /\ Accounted
<1>p. PICK p : p = job[c].profile
  OBVIOUS
<1>. USE <1>p
<1>j. JobOK(c) /\ JobSec(c)
  BY DEF PInv, SInv
<1>1. Idle.at = "idle"
  BY DEF Idle
<1>2. \A step : Removing(c, step).at = step /\ Removing(c, step).profile = p
  BY DEF Removing
<1>3. CASE FindRow(c)
  <2>1. /\ UNCHANGED <<rows, secrets, used, lapsed, faults>> /\ job[c].at = "find" /\ p \in used
    BY <1>3, <1>j DEF FindRow, At, JobOK
  <2>2. PICK n : /\ Become(c, n)
                 /\ \/ n \in {Idle, Removing(c, "erase")}
                    \/ n = Removing(c, "remove") /\ rows[p] \notin External \cup {Nobody}
    <3>1. CASE rows[p] = Nobody
      BY <1>3, <3>1 DEF FindRow
    <3>2. CASE rows[p] # Nobody /\ rows[p] \in External
      <4>1. Become(c, Removing(c, "erase"))
        BY <1>3, <3>2 DEF FindRow
      <4>. WITNESS Removing(c, "erase")
      <4>. QED
        BY <4>1
    <3>3. CASE rows[p] # Nobody /\ rows[p] \notin External
      <4>1. Become(c, Removing(c, "remove"))
        BY <1>3, <3>3 DEF FindRow
      <4>2. rows[p] \notin External \cup {Nobody}
        BY <3>3
      <4>. WITNESS Removing(c, "remove")
      <4>. QED
        BY <4>1, <4>2
    <3>. QED
      BY <3>1, <3>2, <3>3
  <2>3. rows[p] \notin External \cup {Nobody} => p \notin secrets
    BY DEF SInv, SecretsKept
  <2>4. JobSec(c)'
    BY <1>1, <1>2, <2>1, <2>2, <2>3, OneMoves DEF JobSec
  <2>5. StepOn(c, Nobody, n)
    BY <2>1, <2>2 DEF StepOn
  <2>6. SInv'
    BY <2>1, <2>4, <2>5, SecSteps DEF SInv, SecretsKept
  <2>7. Broken' \subseteq Broken
    BY <2>1, <2>2, BrokenRests
  <2>. QED
    BY <2>1, <2>6, <2>7 DEF Accounted
<1>4. CASE EraseSecret(c) \/ EraseSecretFails(c)
  <2>1. /\ secrets' \in {secrets, secrets \ {p}} /\ UNCHANGED <<rows, used, lapsed>>
        /\ job[c].at = "erase" /\ job[c].at \in Deleting
    BY <1>4 DEF EraseSecret, EraseSecretFails, At, Deleting
  <2>2. \/ EraseSecret(c) /\ Become(c, Removing(c, "remove")) /\ secrets' = secrets \ {p} /\ UNCHANGED faults
        \/ Become(c, Idle) /\ faults' = faults + 1
    BY <1>4 DEF EraseSecret, EraseSecretFails, Answer, Fault
  <2>3. PICK n : /\ Become(c, n) /\ n \in {Idle, Removing(c, "remove")}
                 /\ \/ n = Removing(c, "remove") /\ secrets' = secrets \ {p} /\ UNCHANGED faults
                    \/ n = Idle /\ faults' = faults + 1
    BY <2>2
  <2>4. job'[c] = n
    BY <2>3, OneMoves
  <2>5. JobSec(c)'
    BY <1>1, <1>2, <2>3, <2>4 DEF JobSec
  <2>6. StepOn(c, p, n)
    BY <2>1, <2>3 DEF StepOn
  <2>7. SInv'
    BY <2>1, <2>5, <2>6, SecSteps DEF SInv, SecretsKept
  <2>8. Broken' \subseteq Broken \cup {p}
    BY <2>1, <2>6, BrokenSteps
  <2>9. CASE n = Removing(c, "remove") /\ UNCHANGED faults
    <3>1. Covered(p)'
      BY <1>2, <2>4, <2>9 DEF Covered
    <3>2. Broken' \subseteq Broken
      BY <2>8, <3>1 DEF Broken
    <3>. QED
      BY <2>7, <2>9, <3>2 DEF Accounted
  <2>10. CASE faults' = faults + 1
    BY <2>7, <2>8, <2>10 DEF Accounted
  <2>. QED
    BY <2>3, <2>9, <2>10
<1>5. CASE RemoveRow(c) \/ RemoveRowFails(c)
  <2>1. /\ Become(c, Idle) /\ UNCHANGED <<secrets, used, lapsed>>
        /\ rows' \in {rows, [rows EXCEPT ![p] = Nobody]} /\ job[c].at = "remove"
    BY <1>5 DEF RemoveRow, RemoveRowFails, At, Answer, Removed
  <2>2. p \notin secrets /\ p \in Profiles
    BY <1>j, <2>1 DEF JobSec, JobOK, Deleting, PInv, Stores
  <2>3. JobSec(c)'
    BY <1>1, <2>1, OneMoves DEF JobSec
  <2>4. StepOn(c, p, Idle)
    BY <2>1 DEF StepOn
  <2>5. SInv'
    BY <2>1, <2>2, <2>3, <2>4, SecSteps DEF SInv, SecretsKept
  <2>6. Broken' \subseteq Broken \cup {p}
    BY <2>1, <2>4, BrokenSteps
  <2>7. CASE RemoveRowFails(c)
    BY <2>5, <2>6, <2>7 DEF Accounted, RemoveRowFails, Fault
  <2>8. CASE RemoveRow(c)
    <3>1. rows' = [rows EXCEPT ![p] = Nobody] /\ UNCHANGED faults
      BY <2>8 DEF RemoveRow, Removed
    <3>2. rows'[p] = Nobody
      BY <2>2, <3>1 DEF PInv, Stores
    <3>3. ~Apart(p)'
      BY <2>1, <2>2, <3>2 DEF Apart, External
    <3>4. Broken' \subseteq Broken
      BY <2>6, <3>3 DEF Broken
    <3>. QED
      BY <2>5, <3>1, <3>4 DEF Accounted
  <2>. QED
    BY <1>5, <2>7, <2>8
<1>. QED
  BY <1>3, <1>4, <1>5

\* Every step: the stores stay in step, and what breaks is accounted for.
LEMMA NextSInv ==
    ASSUME PInv, SInv, [Next]_vars
    PROVE  SInv' /\ Accounted
<1>1. ASSUME NEW c \in Procs, Manage(c) \/ Use(c) \/ Fails(c) PROVE SInv' /\ Accounted
  BY <1>1, OtherSteps, CreationSteps, DeletionSteps DEF Manage, Fails
<1>2. ASSUME NEW p \in Profiles, SecretLapses(p) PROVE SInv' /\ Accounted
  <2>1. p \in secrets /\ secrets' = secrets \ {p} /\ lapsed' = lapsed \cup {p} /\ UNCHANGED <<rows, used, job, faults>>
    BY <1>2 DEF SecretLapses
  <2>2. \A c \in Procs : JobSec(c)'
    BY <2>1 DEF SInv, JobSec
  <2>3. SInv'
    BY <2>1, <2>2 DEF SInv, SecretsKept
  <2>4. Broken' \subseteq Broken
    BY <2>1 DEF Broken, Apart, Covered
  <2>. QED
    BY <2>1, <2>3, <2>4 DEF Accounted
<1>3. CASE Expire \/ UNCHANGED vars
  <2>1. UNCHANGED <<rows, secrets, used, lapsed, job, faults>>
    BY <1>3 DEF Expire, vars, profileVars
  <2>2. SInv' /\ Broken' = Broken
    BY <2>1 DEF SInv, SecretsKept, JobSec, Broken, Apart, Covered
  <2>. QED
    BY <2>1, <2>2 DEF Accounted
<1>. QED
  BY <1>1, <1>2, <1>3 DEF Next

(* As many profiles are broken as faults were counted, or fewer.            *)
Counted == faults \in Nat /\ IsFiniteSet(Broken) /\ Cardinality(Broken) <= faults

\* What breaks is counted.
LEMMA NextCounted ==
    ASSUME Counted, Accounted
    PROVE  Counted'
<1>1. CASE Broken' \subseteq Broken /\ faults' \in {faults, faults + 1}
  <2>1. IsFiniteSet(Broken') /\ Cardinality(Broken') <= Cardinality(Broken) /\ Cardinality(Broken') \in Nat
        /\ Cardinality(Broken) \in Nat
    BY <1>1, FS_Subset, FS_CardinalityType DEF Counted
  <2>. QED
    BY <1>1, <2>1 DEF Counted
<1>2. CASE \E p : Broken' \subseteq Broken \cup {p} /\ faults' = faults + 1
  <2>1. PICK p : Broken' \subseteq Broken \cup {p} /\ faults' = faults + 1
    BY <1>2
  <2>2. /\ IsFiniteSet(Broken \cup {p}) /\ Cardinality(Broken) \in Nat
        /\ Cardinality(Broken \cup {p}) \in {Cardinality(Broken), Cardinality(Broken) + 1}
    BY FS_AddElement, FS_CardinalityType DEF Counted
  <2>3. IsFiniteSet(Broken') /\ Cardinality(Broken') <= Cardinality(Broken \cup {p}) /\ Cardinality(Broken') \in Nat
    BY <2>1, <2>2, FS_Subset, FS_CardinalityType
  <2>. QED
    BY <2>1, <2>2, <2>3 DEF Counted
<1>. QED
  BY <1>1, <1>2 DEF Accounted

\* A profile has its row and its secret, or neither, unless a request is at
\* work on it or its secret expired; each failure of a store or death of a
\* process leaves at most one profile apart (create_provider_profile,
\* delete_provider_profile).
THEOREM SecretsStayAccounted == Spec => []SecretsAccounted
<1>1. Init => SInv /\ Counted
  <2>. SUFFICES ASSUME Init PROVE SInv /\ Counted
    OBVIOUS
  <2>1. SInv
    BY DEF Init, Idle, SInv, SecretsKept, JobSec
  <2>2. Broken = {}
    BY DEF Init, Broken, Apart, External
  <2>3. IsFiniteSet(Broken) /\ Cardinality(Broken) = 0 /\ faults = 0
    BY <2>2, FS_EmptySet DEF Init
  <2>. QED
    BY <2>1, <2>3 DEF Counted
<1>2. PInv /\ SInv /\ Counted /\ [Next]_vars => SInv' /\ Counted'
  BY NextSInv, NextCounted
<1>3. Counted => SecretsAccounted
  <2> DEFINE loose == {p \in Profiles \ lapsed : Apart(p) /\ ~AtWork(p)}
  <2>1. loose \subseteq Broken
    BY DEF Broken, Covered, AtWork
  <2>. SUFFICES ASSUME Counted PROVE Cardinality(loose) <= faults
    BY DEF SecretsAccounted
  <2>. HIDE DEF loose
  <2>2. /\ IsFiniteSet(loose) /\ Cardinality(loose) <= Cardinality(Broken)
        /\ Cardinality(loose) \in Nat /\ Cardinality(Broken) \in Nat
    BY <2>1, FS_Subset, FS_CardinalityType DEF Counted
  <2>. QED
    BY <2>2 DEF Counted
<1>. QED
  BY <1>1, <1>2, <1>3, InitPInv, NextPInv, PTL DEF Spec

-----------------------------------------------------------------------------
(* Statistics that claim nothing that was not reported, and ones that claim *)
(* all of it.                                                               *)
Tidy(stats) ==
    /\ stats = [m \in Models |-> stats[m]]
    /\ \A m \in Models : stats[m].attempts \in Nat /\ stats[m].successes \in Nat /\ stats[m].latency_ms \in Nat
    /\ Claims(stats)

Exact(stats) ==
    \A m \in Models : stats[m].attempts = given[m].attempts /\ stats[m].successes = given[m].successes

(* While feedbacks come one at a time, all that was reported is in Redis or *)
(* in the hands of the one process that is about to save it.                *)
RInv ==
    /\ given = [m \in Models |-> given[m]]
    /\ \A m \in Models : given[m].attempts \in Nat /\ given[m].successes \in Nat
    /\ fb = [p \in Procs |-> fb[p]] /\ memory = [p \in Procs |-> memory[p]]
    /\ Tidy(redisStats)
    /\ \A p \in Procs : /\ Tidy(memory[p]) /\ fb[p].busy \in BOOLEAN
                        /\ fb[p].busy => Tidy(fb[p].stats)
    /\ ~overlapped =>
         /\ \A p, q \in Procs : fb[p].busy /\ fb[q].busy => p = q
         /\ \A p \in Procs : fb[p].busy => Exact(fb[p].stats)
         /\ (\A p \in Procs : ~fb[p].busy) => Exact(redisStats)

\* What an attempt adds to what was read is what it adds to what was reported.
LEMMA LoadKeeps ==
    ASSUME RInv, NEW p \in Procs, NEW m, NEW success \in BOOLEAN, NEW latency \in Nat,
           NEW answered \in BOOLEAN, Load(p, m, success, latency, answered)
    PROVE  RInv'
<1> DEFINE seen == IF answered THEN _load_stats(p) ELSE memory[p]
           item == Updated(seen[m], success, latency)
           more == [attempts  |-> given[m].attempts + 1,
                    successes |-> given[m].successes + (IF success THEN 1 ELSE 0)]
<1>n. PICK now : now = [seen EXCEPT ![m] = item]
  OBVIOUS
<1>1. /\ fb' = [fb EXCEPT ![p] = [busy |-> TRUE, stats |-> now]]
      /\ given' = [given EXCEPT ![m] = more]
      /\ overlapped' = (overlapped \/ ~answered \/ \E q \in Procs : fb[q].busy)
      /\ UNCHANGED <<redisStats, memory>>
  BY <1>n DEF Load
<1>2. Tidy(seen)
  BY DEF RInv, _load_stats
<1>3. item.attempts = seen[m].attempts + 1 /\ item.successes = seen[m].successes + (IF success THEN 1 ELSE 0)
  BY DEF Updated
<1>l. m \in Models => item.latency_ms \in Nat
  <2>. SUFFICES ASSUME m \in Models PROVE item.latency_ms \in Nat
    OBVIOUS
  <2>1. PICK before \in Nat : before = seen[m].latency_ms
    BY <1>2 DEF Tidy
  <2>2. (before * 7 + latency * 3) \div 10 \in Nat
    OBVIOUS
  <2>3. item.latency_ms = IF seen[m].attempts = 0 THEN latency ELSE (before * 7 + latency * 3) \div 10
    BY <2>1 DEF Updated
  <2>. QED
    BY <2>2, <2>3
<1>4. ~overlapped' => Exact(seen)
  <2>. SUFFICES ASSUME ~overlapped' PROVE Exact(seen)
    OBVIOUS
  <2>0. ~(overlapped \/ ~answered \/ \E q \in Procs : fb[q].busy)
    BY <1>1
  <2>1. Exact(redisStats) /\ seen = _load_stats(p)
    BY <2>0 DEF RInv
  <2>2. CASE redisStats = Empty
    <3>1. \A x \in Models : given[x].attempts = 0 /\ given[x].successes = 0
      BY <2>1, <2>2 DEF Exact, Empty, NoItem
    <3>2. \A x \in Models : memory[p][x].attempts = 0 /\ memory[p][x].successes = 0
      <4>1. Tidy(memory[p])
        BY DEF RInv
      <4>. QED
        BY <3>1, <4>1 DEF Tidy, Claims
    <3>. QED
      BY <2>1, <2>2, <3>1, <3>2 DEF Exact, _load_stats
  <2>. QED
    BY <2>1, <2>2 DEF _load_stats
<1>. HIDE DEF seen, item
<1>5. /\ \A x \in Models : given'[x] = IF x = m THEN more ELSE given[x]
      /\ given' = [x \in Models |-> given'[x]]
  BY <1>1 DEF RInv
<1>6. /\ \A x \in Models : now[x] = IF x = m THEN item ELSE seen[x]
      /\ now = [x \in Models |-> now[x]]
  BY <1>2, <1>n DEF Tidy
<1>7. /\ more.attempts = given[m].attempts + 1
      /\ more.successes = given[m].successes + (IF success THEN 1 ELSE 0)
  OBVIOUS
<1>. HIDE DEF more
<1>8. \A x \in Models : /\ given[x].attempts \in Nat /\ given[x].successes \in Nat
                        /\ given'[x].attempts \in Nat /\ given'[x].successes \in Nat
                        /\ given'[x].attempts >= given[x].attempts /\ given'[x].successes >= given[x].successes
  BY <1>5, <1>7 DEF RInv
<1>9. ASSUME NEW stats, Tidy(stats) PROVE Tidy(stats)'
  BY <1>8, <1>9 DEF Tidy, Claims
<1>10. Tidy(now)'
  <2>1. \A x \in Models : seen[x].attempts \in Nat /\ seen[x].successes \in Nat /\ seen[x].latency_ms \in Nat
    BY <1>2 DEF Tidy
  <2>2. \A x \in Models : /\ seen[x].attempts <= given[x].attempts /\ seen[x].successes <= given[x].successes
                          /\ seen[x].successes <= seen[x].attempts
    BY <1>2 DEF Tidy, Claims
  <2>. QED
    BY <1>3, <1>l, <1>5, <1>6, <1>7, <1>8, <2>1, <2>2 DEF Tidy, Claims
<1>11. /\ fb' = [q \in Procs |-> fb'[q]]
       /\ fb'[p].busy = TRUE /\ fb'[p].stats = now /\ \A q \in Procs : q # p => fb'[q] = fb[q]
  BY <1>1 DEF RInv
<1>12. ASSUME NEW q \in Procs
       PROVE  /\ Tidy(memory[q])' /\ fb'[q].busy \in BOOLEAN
              /\ fb'[q].busy => Tidy(fb[q].stats)'
  <2>1. PICK own : own = memory[q]
    OBVIOUS
  <2>2. Tidy(memory[q])'
    BY <1>1, <1>9, <2>1 DEF RInv
  <2>3. CASE q = p
    BY <1>10, <1>11, <2>2, <2>3
  <2>4. CASE q # p
    <3>1. PICK held : held = fb[q].stats
      OBVIOUS
    <3>2. fb'[q] = fb[q] /\ fb[q].busy \in BOOLEAN /\ (fb[q].busy => Tidy(held)')
      BY <1>9, <1>11, <2>4, <3>1 DEF RInv
    <3>. QED
      BY <2>2, <3>1, <3>2
  <2>. QED
    BY <2>3, <2>4
<1>13. Tidy(redisStats)'
  <2>1. PICK shown : shown = redisStats
    OBVIOUS
  <2>. QED
    BY <1>1, <1>9, <2>1 DEF RInv
<1>14. ASSUME ~overlapped'
       PROVE  /\ \A q \in Procs : fb'[q].busy => q = p
              /\ Exact(now)'
  <2>1. \A q \in Procs : ~fb[q].busy
    BY <1>1, <1>14, Zenon
  <2>2. \A x \in Models : seen[x].attempts = given[x].attempts /\ seen[x].successes = given[x].successes
    BY <1>4, <1>14 DEF Exact
  <2>3. Exact(now)'
    BY <1>3, <1>5, <1>6, <1>7, <2>2 DEF Exact
  <2>. QED
    BY <1>11, <2>1, <2>3
<1>15. ~overlapped' =>
         /\ \A a, b \in Procs : fb'[a].busy /\ fb'[b].busy => a = b
         /\ \A a \in Procs : fb'[a].busy => Exact(fb[a].stats)'
         /\ (\A a \in Procs : ~fb'[a].busy) => Exact(redisStats)'
  BY <1>11, <1>14
<1>16. memory' = [q \in Procs |-> memory'[q]]
  BY <1>1 DEF RInv
<1>. QED
  BY <1>5, <1>8, <1>11, <1>12, <1>13, <1>15, <1>16 DEF RInv

\* What is saved is what was read with one attempt more.
LEMMA SaveKeeps ==
    ASSUME RInv, NEW p \in Procs, NEW answered \in BOOLEAN, Save(p, answered)
    PROVE  RInv'
<1>1. /\ fb[p].busy /\ memory' = [memory EXCEPT ![p] = fb[p].stats]
      /\ redisStats' = IF answered THEN fb[p].stats ELSE redisStats
      /\ fb' = [fb EXCEPT ![p] = Quiet] /\ overlapped' = (overlapped \/ ~answered) /\ UNCHANGED given
  BY DEF Save
<1>2. /\ fb' = [q \in Procs |-> fb'[q]] /\ memory' = [q \in Procs |-> memory'[q]]
      /\ fb'[p].busy = FALSE /\ memory'[p] = fb[p].stats
      /\ \A q \in Procs : q # p => fb'[q] = fb[q] /\ memory'[q] = memory[q]
  BY <1>1 DEF RInv, Quiet
<1>3. ASSUME NEW stats, Tidy(stats) PROVE Tidy(stats)'
  BY <1>1, <1>3 DEF Tidy, Claims
<1>4. PICK held : held = fb[p].stats /\ Tidy(held)'
  BY <1>1, <1>3 DEF RInv
<1>5. Tidy(redisStats)'
  <2>1. PICK shown : shown = redisStats /\ Tidy(shown)'
    BY <1>3 DEF RInv
  <2>. QED
    BY <1>1, <1>4, <2>1
<1>6. ASSUME NEW q \in Procs
      PROVE  /\ Tidy(memory[q])' /\ fb'[q].busy \in BOOLEAN
             /\ fb'[q].busy => Tidy(fb[q].stats)'
  <2>1. CASE q = p
    BY <1>2, <1>4, <2>1
  <2>2. CASE q # p
    <3>1. PICK own, mine : own = memory[q] /\ mine = fb[q].stats
      OBVIOUS
    <3>2. Tidy(own)' /\ fb[q].busy \in BOOLEAN /\ (fb[q].busy => Tidy(mine)')
      BY <1>3, <3>1 DEF RInv
    <3>. QED
      BY <1>2, <2>2, <3>1, <3>2
  <2>. QED
    BY <2>1, <2>2
<1>7. ASSUME ~overlapped'
      PROVE  (\A q \in Procs : ~fb'[q].busy) /\ Exact(redisStats)'
  <2>1. ~overlapped /\ answered
    BY <1>1, <1>7, Zenon
  <2>2. /\ \A q \in Procs : fb[q].busy => q = p
        /\ Exact(fb[p].stats)
    BY <1>1, <2>1 DEF RInv
  <2>3. redisStats' = fb[p].stats
    BY <1>1, <2>1
  <2>. QED
    BY <1>1, <1>2, <2>2, <2>3 DEF Exact
<1>8. \A m \in Models : given'[m].attempts \in Nat /\ given'[m].successes \in Nat
  BY <1>1 DEF RInv
<1>9. given' = [m \in Models |-> given'[m]]
  BY <1>1 DEF RInv
<1>. QED
  BY <1>2, <1>5, <1>6, <1>7, <1>8, <1>9 DEF RInv

\* The claims hold of the empty statistics, and every step keeps them.
LEMMA RInvHolds == (Init => RInv) /\ (RInv /\ [Next]_vars => RInv')
<1>1. Init => RInv
  <2>. SUFFICES ASSUME Init PROVE RInv
    OBVIOUS
  <2>1. Tidy(Empty) /\ Exact(Empty)
    BY DEF Init, RoutingInit, Tidy, Exact, Claims, Empty, NoItem
  <2>. QED
    BY <2>1 DEF Init, RoutingInit, RInv, Quiet
<1>2. RInv /\ [Next]_vars => RInv'
  <2>. SUFFICES ASSUME RInv, [Next]_vars PROVE RInv'
    OBVIOUS
  <2>1. CASE UNCHANGED routingVars
    BY <2>1 DEF RInv, Tidy, Claims, Exact, routingVars
  <2>2. ASSUME NEW c \in Procs, Attempt(c) PROVE RInv'
    <3> DEFINE entry == job[c].chain[Head(job[c].left)]
    <3>1. PICK success \in BOOLEAN, latency \in Latencies :
            \/ Load(c, entry.model, success, latency, TRUE)
            \/ Load(c, entry.model, success, latency, FALSE)
      BY <2>2 DEF Attempt
    <3>2. latency \in Nat
      BY RoutingAssumption
    <3>. QED
      BY <3>1, <3>2, LoadKeeps
  <2>3. ASSUME NEW c \in Procs, SaveFeedback(c) PROVE RInv'
    BY <2>3, SaveKeeps DEF SaveFeedback
  <2>4. CASE Expire
    <3>1. redisStats' = Empty /\ overlapped' = TRUE /\ UNCHANGED <<memory, fb, given>>
      BY <2>4 DEF Expire, StatsExpire
    <3>2. Tidy(redisStats)'
      BY <3>1 DEF RInv, Tidy, Claims, Empty, NoItem
    <3>. QED
      BY <3>1, <3>2 DEF RInv, Tidy, Claims
  <2>5. ASSUME NEW c \in Procs, Manage(c) \/ Fails(c) \/ (Use(c) /\ ~Attempt(c) /\ ~SaveFeedback(c))
        PROVE  UNCHANGED routingVars
    <3>1. CASE Manage(c)
      BY <3>1 DEF Manage, CreateProfile, WriteSecret, InsertRow, DeleteProfile, FindRow, EraseSecret, RemoveRow,
                  UpsertPolicy, ReadPolicyRow, WritePolicyRow
    <3>2. CASE Fails(c)
      BY <3>2 DEF Fails, WriteSecretFails, InsertRowFails, EraseSecretFails, RemoveRowFails
    <3>3. CASE Resolve(c) \/ ReadBinding(c) \/ ReadRow(c) \/ ReadKey(c) \/ Route(c)
      BY <3>3 DEF Resolve, ReadBinding, ReadRow, ReadKey, Route
    <3>. QED
      BY <2>5, <3>1, <3>2, <3>3 DEF Use
  <2>. QED
    BY <2>1, <2>2, <2>3, <2>4, <2>5 DEF Next, SecretLapses, vars
<1>. QED
  BY <1>1, <1>2

(* Whatever overlaps, fails or expires, no store of statistics claims an    *)
(* attempt or a success that was not made, and while feedbacks come one at  *)
(* a time with Redis answering none is lost (record_route_feedback).        *)
THEOREM FeedbackStaysCounted == Spec => []FeedbackCounted
<1>1. RInv => FeedbackCounted
  BY DEF RInv, FeedbackCounted, Tidy, Exact
<1>. QED
  BY <1>1, RInvHolds, PTL DEF Spec

(* The statistics are sound, and the order they give a call puts a model    *)
(* that only ever failed behind every model that never did, in whatever     *)
(* state races, outages and expiries have left them                         *)
(* (record_route_feedback, build_routing_order).                            *)
THEOREM RoutingStaysSound == Spec => []RoutingHolds
<1>1. RInv => FailingGoesLast
  <2>. SUFFICES ASSUME RInv, NEW stats \in {redisStats} \cup {memory[p] : p \in Procs}
       PROVE  \A i, j \in DOMAIN build_routing_order(stats, ModelOrder) :
                LET at(k) == stats[ModelOrder[build_routing_order(stats, ModelOrder)[k]]] IN
                  Hopeless(at(i)) /\ Spotless(at(j)) => j < i
    BY DEF FailingGoesLast
  <2>1. Tidy(stats)
    BY DEF RInv
  <2>2. \A m \in Models : Recorded(stats[m])
    BY <2>1 DEF Tidy, Claims, Recorded
  <2>. QED
    BY <2>2, OrderPutsFailingLast, RoutingAssumption
<1>2. RInv => FeedbackCounted
  BY DEF RInv, FeedbackCounted, Tidy, Exact
<1>. QED
  BY <1>1, <1>2, RInvHolds, PTL DEF Spec, RoutingHolds
=============================================================================
