------------------------- MODULE ModelGateway_proofs -------------------------
(***************************************************************************)
(* Proofs about ModelGateway, for any number of calls, profiles, processes *)
(* and failures and any limit, whenever the key expires.                   *)
(***************************************************************************)
EXTENDS ModelGateway, FiniteSetTheorems, TLAPS

USE LimitAssumption, FaultsAssumption

(* What the key counts bounds its type from below and conversely: a release *)
(* never counts below zero because the releasing call is counted.           *)
IInv == TypeOK /\ CountersCoverHolders

-----------------------------------------------------------------------------
(* A subset of the calls that gains or loses one call.                      *)
LEMMA Gain ==
    ASSUME NEW S \in SUBSET Calls, NEW c \in Calls, c \notin S
    PROVE  Cardinality(S) \in Nat /\ Cardinality(S \cup {c}) = Cardinality(S) + 1
<1>1. IsFiniteSet(S)
  BY CallsAssumption, FS_Subset
<1> QED
  BY <1>1, FS_CardinalityType, FS_AddElement

\* A set of calls with one taken away is one smaller.
LEMMA Lose ==
    ASSUME NEW S \in SUBSET Calls, NEW c \in S
    PROVE  /\ Cardinality(S) \in Nat \ {0}
           /\ Cardinality(S \ {c}) = Cardinality(S) - 1
<1>1. IsFiniteSet(S)
  BY CallsAssumption, FS_Subset
<1>2. Cardinality(S) \in Nat /\ (Cardinality(S) = 0 <=> S = {})
  BY <1>1, FS_CardinalityType, FS_EmptySet
<1> QED
  BY <1>1, <1>2, FS_RemoveElement

\* A part of a set of calls is no larger.
LEMMA Shrink ==
    ASSUME NEW S \in SUBSET Calls, NEW T \in SUBSET S
    PROVE  Cardinality(S) \in Nat /\ Cardinality(T) \in Nat /\ Cardinality(T) <= Cardinality(S)
<1>1. IsFiniteSet(S)
  BY CallsAssumption, FS_Subset
<1> QED
  BY <1>1, FS_CardinalityType, FS_Subset

\* No slot is held at first.
LEMMA InitIInv == Init => IInv
<1> SUFFICES ASSUME Init PROVE IInv
  OBVIOUS
<1>1. TypeOK
  <2>1. left \in [Calls -> SUBSET Profiles] /\ proc \in [Calls -> Procs] /\ phase \in [Calls -> Phase]
      BY DEF Init, Phase
  <2>2. key \in 0..Limit /\ local \in [Procs -> 0..Limit]
      BY DEF Init
  <2>4. expires \in BOOLEAN /\ up \in BOOLEAN
      BY DEF Init
  <2>3. lapsed \in Nat /\ faults \in 0..MaxFaults
      BY DEF Init
  <2> QED
      BY <2>1, <2>2, <2>3, <2>4 DEF TypeOK
<1>2. RedisHolders = {} /\ \A p \in Procs : LocalHolders(p) = {} /\ local[p] = 0
  BY DEF Init, RedisHolders, LocalHolders
<1> QED
  BY <1>1, <1>2, FS_EmptySet DEF Init, IInv, CountersCoverHolders

-----------------------------------------------------------------------------
(* Taking a local slot, after the Redis key went from key to key'.          *)
LEMMA TakesLocal ==
    ASSUME IInv, NEW c \in Calls, phase[c] = "choosing", Try(c), TakeLocal(c),
           key' \in 0..Limit, key <= key', expires' \in BOOLEAN, faults' \in 0..MaxFaults
    PROVE  IInv'
<1> USE DEF IInv, TypeOK
<1>1. /\ proc[c] \in Procs /\ local[proc[c]] \in 0..Limit /\ left' \in [Calls -> SUBSET Profiles]
      /\ proc' = proc /\ up' = up /\ lapsed' = lapsed
  BY DEF Try
<1>2. c \notin RedisHolders /\ \A p \in Procs : c \notin LocalHolders(p)
  BY DEF RedisHolders, LocalHolders
<1>3. CASE local[proc[c]] < Limit
  <2>1. local' = [local EXCEPT ![proc[c]] = @ + 1] /\ phase' = [phase EXCEPT ![c] = "local"]
      BY <1>3 DEF TakeLocal
  <2>2. TypeOK'
      BY <1>1, <1>3, <2>1 DEF Phase
  <2>0. \A d \in Calls : phase'[d] = IF d = c THEN "local" ELSE phase[d]
      BY <2>1
  <2>3. RedisHolders' = RedisHolders
      BY <1>2, <2>0 DEF RedisHolders
  <2>4. \A p \in Procs : LocalHolders(p)' = IF p = proc[c] THEN LocalHolders(p) \cup {c} ELSE LocalHolders(p)
      BY <1>1, <1>2, <2>0 DEF LocalHolders
  <2>5. ASSUME NEW p \in Procs PROVE Cardinality(LocalHolders(p)') = local'[p]
    <3>1. LocalHolders(p) \in SUBSET Calls /\ Cardinality(LocalHolders(p)) = local[p]
        BY DEF LocalHolders, CountersCoverHolders
    <3>2. CASE p = proc[c]
      <4>1. Cardinality(LocalHolders(p) \cup {c}) = Cardinality(LocalHolders(p)) + 1
          BY <1>2, <3>1, Gain
      <4> QED
          BY <1>1, <2>1, <2>4, <3>1, <3>2, <4>1
    <3>3. CASE p # proc[c]
        BY <2>1, <2>4, <3>1, <3>3
    <3> QED
        BY <3>2, <3>3
  <2>6. Cardinality(RedisHolders') <= key' + lapsed'
    <3>1. Cardinality(RedisHolders) \in Nat
        BY Shrink DEF RedisHolders
    <3> QED
        BY <1>1, <2>3, <3>1 DEF CountersCoverHolders
  <2> QED
      BY <2>2, <2>5, <2>6 DEF CountersCoverHolders
<1>4. CASE ~(local[proc[c]] < Limit)
  <2>1. local' = local /\ phase' = phase
      BY <1>4 DEF TakeLocal
  <2>2. RedisHolders' = RedisHolders /\ \A p \in Procs : LocalHolders(p)' = LocalHolders(p)
      BY <1>1, <2>1 DEF RedisHolders, LocalHolders
  <2>3. Cardinality(RedisHolders) \in Nat
      BY Shrink DEF RedisHolders
  <2> QED
      BY <1>1, <2>1, <2>2, <2>3 DEF CountersCoverHolders
<1> QED
  BY <1>3, <1>4

\* Taking a slot counts its holder, also when the answer is lost.
LEMMA AcquireIInv ==
    ASSUME IInv, NEW c \in Calls, AcquireRedis(c) \/ AcquireLocal(c) \/ AcquireReplyLost(c)
    PROVE  IInv'
<1> USE DEF IInv, TypeOK
<1>1. phase[c] = "choosing"
  BY DEF AcquireRedis, AcquireLocal, AcquireReplyLost, Try
<1>2. CASE AcquireLocal(c)
  BY <1>1, <1>2, TakesLocal DEF AcquireLocal
<1>3. CASE AcquireReplyLost(c)
  BY <1>1, <1>3, TakesLocal DEF AcquireReplyLost, Increment, Fault
<1>4. CASE AcquireRedis(c)
  <2>1. TypeOK'
      BY <1>4 DEF AcquireRedis, Try, Increment, Phase
  <2>2. c \notin RedisHolders /\ \A p \in Procs : c \notin LocalHolders(p)
      BY <1>1 DEF RedisHolders, LocalHolders
  <2>3. RedisHolders \in SUBSET Calls /\ Cardinality(RedisHolders) \in Nat /\ Cardinality(RedisHolders) <= key + lapsed
      BY Shrink DEF RedisHolders, CountersCoverHolders
  <2>4. CASE key < Limit
    <3>1. /\ phase' = [phase EXCEPT ![c] = "redis"] /\ key' = key + 1
          /\ proc' = proc /\ local' = local /\ lapsed' = lapsed
        BY <1>4, <2>4 DEF AcquireRedis, Increment, Try
    <3>0. \A d \in Calls : phase'[d] = IF d = c THEN "redis" ELSE phase[d]
        BY <3>1
    <3>2. RedisHolders' = RedisHolders \cup {c} /\ \A p \in Procs : LocalHolders(p)' = LocalHolders(p)
        BY <2>2, <3>0, <3>1 DEF RedisHolders, LocalHolders
    <3>3. Cardinality(RedisHolders') = Cardinality(RedisHolders) + 1
        BY <2>2, <2>3, <3>2, Gain
    <3> QED
        BY <2>1, <2>3, <3>1, <3>2, <3>3 DEF CountersCoverHolders
  <2>5. CASE ~(key < Limit)
    <3>1. phase' = phase /\ key' = key /\ proc' = proc /\ local' = local /\ lapsed' = lapsed
        BY <1>1, <1>4, <2>5 DEF AcquireRedis, Increment, Try
    <3>2. RedisHolders' = RedisHolders /\ \A p \in Procs : LocalHolders(p)' = LocalHolders(p)
        BY <3>1 DEF RedisHolders, LocalHolders
    <3> QED
        BY <2>1, <3>1, <3>2 DEF CountersCoverHolders
  <2> QED
      BY <2>4, <2>5
<1> QED
  BY <1>2, <1>3, <1>4

\* Giving a slot back uncounts at most its holder.
LEMMA ReleaseIInv ==
    ASSUME IInv, NEW c \in Calls, ReleaseRedis(c) \/ ReleaseLocal(c)
    PROVE  IInv'
<1> USE DEF IInv, TypeOK
<1>1. PICK next \in {"answered", "choosing", "raised"} : phase' = [phase EXCEPT ![c] = next]
  BY DEF ReleaseRedis, ReleaseLocal, Outcome
<1>2. /\ proc' = proc /\ left' = left /\ up' = up /\ lapsed' = lapsed /\ faults' = faults
      /\ \A d \in Calls : phase'[d] = IF d = c THEN next ELSE phase[d]
  BY <1>1 DEF ReleaseRedis, ReleaseLocal
<1>3. RedisHolders \in SUBSET Calls /\ RedisHolders' = RedisHolders \ {c}
  BY <1>2 DEF RedisHolders
<1>4. \A p \in Procs : LocalHolders(p) \in SUBSET Calls /\ LocalHolders(p)' = LocalHolders(p) \ {c}
  BY <1>2 DEF LocalHolders
<1>5. phase' \in [Calls -> Phase]
  BY <1>1 DEF Phase
<1>6. CASE ReleaseRedis(c)
  <2>1. c \in RedisHolders /\ \A p \in Procs : c \notin LocalHolders(p)
      BY <1>6 DEF ReleaseRedis, RedisHolders, LocalHolders
  <2>2. Cardinality(RedisHolders) \in Nat \ {0} /\ Cardinality(RedisHolders') = Cardinality(RedisHolders) - 1
      BY <1>3, <2>1, Lose
  <2>3. local' = local /\ \A p \in Procs : LocalHolders(p)' = LocalHolders(p)
      BY <1>4, <1>6, <2>1 DEF ReleaseRedis
  <2>4. key' = key \/ key' = (IF key > 1 THEN key - 1 ELSE 0)
      BY <1>6 DEF ReleaseRedis, Decrement
  <2>6. key' \in 0..Limit
      BY <2>4
  <2>7. expires' \in BOOLEAN
    <3>1. expires' = expires \/ expires' = (expires /\ key > 1)
        BY <1>6 DEF ReleaseRedis, Decrement
    <3> QED
        BY <3>1
  <2>5. Cardinality(RedisHolders') <= key' + lapsed'
      BY <1>2, <2>2, <2>4 DEF CountersCoverHolders
  <2> QED
      BY <1>2, <1>5, <2>3, <2>5, <2>6, <2>7 DEF CountersCoverHolders
<1>7. CASE ReleaseLocal(c)
  <2>1. c \notin RedisHolders /\ proc[c] \in Procs /\ \A p \in Procs : c \in LocalHolders(p) <=> p = proc[c]
      BY <1>7 DEF ReleaseLocal, RedisHolders, LocalHolders
  <2>2. local' = [local EXCEPT ![proc[c]] = @ - 1] /\ key' = key /\ expires' = expires
      BY <1>7 DEF ReleaseLocal
  <2>3. RedisHolders' = RedisHolders
      BY <1>3, <2>1
  <2>4. local[proc[c]] \in 1..Limit
    <3>1. Cardinality(LocalHolders(proc[c])) \in Nat \ {0}
        BY <1>4, <2>1, Lose
    <3> QED
        BY <2>1, <3>1 DEF CountersCoverHolders
  <2>5. local' \in [Procs -> 0..Limit]
    <3>1. local[proc[c]] - 1 \in 0..Limit
        BY <2>4
    <3> QED
        BY <2>2, <3>1
  <2>6. ASSUME NEW p \in Procs PROVE Cardinality(LocalHolders(p)') = local'[p]
    <3>1. CASE p = proc[c]
      <4>1. Cardinality(LocalHolders(p) \ {c}) = Cardinality(LocalHolders(p)) - 1
          BY <1>4, <2>1, <3>1, Lose
      <4> QED
          BY <1>4, <2>2, <3>1, <4>1 DEF CountersCoverHolders
    <3>2. CASE p # proc[c]
      <4>1. LocalHolders(p)' = LocalHolders(p)
          BY <1>4, <2>1, <3>2
      <4> QED
          BY <2>2, <3>2, <4>1 DEF CountersCoverHolders
    <3> QED
        BY <3>1, <3>2
  <2> QED
      BY <1>2, <1>5, <2>2, <2>3, <2>5, <2>6 DEF CountersCoverHolders
<1> QED
  BY <1>6, <1>7

(* What happens to the calls: a process that dies takes its counter along.  *)
LEMMA ProcessDiesIInv ==
    ASSUME IInv, NEW q \in Procs, ProcessDies(q)
    PROVE  IInv'
<1> USE DEF IInv, TypeOK
<1>1. /\ proc' = proc /\ left' = left /\ up' = up /\ key' = key /\ expires' = expires /\ lapsed' = lapsed
      /\ phase' = [c \in Calls |-> IF proc[c] = q /\ ~Ended(c) THEN "dead" ELSE phase[c]]
      /\ local' = [local EXCEPT ![q] = 0] /\ faults' \in 0..MaxFaults
  BY DEF ProcessDies, Fault
<1>2. phase' \in [Calls -> Phase] /\ local' \in [Procs -> 0..Limit]
  BY <1>1 DEF Phase
<1>3. RedisHolders' \in SUBSET RedisHolders /\ RedisHolders \in SUBSET Calls
  BY <1>1 DEF RedisHolders
<1>4. Cardinality(RedisHolders') <= key' + lapsed'
  <2>1. Cardinality(RedisHolders) \in Nat /\ Cardinality(RedisHolders') \in Nat
        /\ Cardinality(RedisHolders') <= Cardinality(RedisHolders)
      BY <1>3, Shrink
  <2> QED
      BY <1>1, <2>1 DEF CountersCoverHolders
<1>5. ASSUME NEW p \in Procs PROVE Cardinality(LocalHolders(p)') = local'[p]
  <2>1. CASE p = q
    <3>1. LocalHolders(p)' = {}
        BY <1>1, <2>1 DEF LocalHolders, Ended
    <3> QED
        BY <1>1, <2>1, <3>1, FS_EmptySet
  <2>2. CASE p # q
    <3>1. LocalHolders(p)' = LocalHolders(p)
        BY <1>1, <2>2 DEF LocalHolders
    <3> QED
        BY <1>1, <2>2, <3>1 DEF CountersCoverHolders
  <2> QED
      BY <2>1, <2>2
<1> QED
  BY <1>1, <1>2, <1>4, <1>5 DEF CountersCoverHolders

\* Every step keeps the counters above their holders.
LEMMA NextIInv ==
    ASSUME IInv, [Next]_vars
    PROVE  IInv'
<1> USE DEF IInv, TypeOK
<1>1. ASSUME NEW c \in Calls, AcquireRedis(c) \/ AcquireLocal(c) \/ AcquireReplyLost(c)
      PROVE  IInv'
  BY <1>1, AcquireIInv
<1>2. ASSUME NEW c \in Calls, ReleaseRedis(c) \/ ReleaseLocal(c)
      PROVE  IInv'
  BY <1>2, ReleaseIInv
<1>3. ASSUME NEW c \in Calls, GiveUp(c)
      PROVE  IInv'
  <2>1. TypeOK'
      BY <1>3 DEF GiveUp, Phase
  <2>2. \A d \in Calls : phase'[d] = IF d = c THEN "unavailable" ELSE phase[d]
      BY <1>3 DEF GiveUp
  <2>3. phase[c] = "choosing" /\ proc' = proc /\ key' = key /\ local' = local /\ lapsed' = lapsed
      BY <1>3 DEF GiveUp
  <2>4. RedisHolders' = RedisHolders /\ \A p \in Procs : LocalHolders(p)' = LocalHolders(p)
      BY <2>2, <2>3 DEF RedisHolders, LocalHolders
  <2> QED
      BY <2>1, <2>3, <2>4 DEF CountersCoverHolders
<1>4. ASSUME NEW q \in Procs, ProcessDies(q)
      PROVE  IInv'
  BY <1>4, ProcessDiesIInv
<1>5. CASE Expire \/ Outage \/ Recover \/ UNCHANGED vars
  <2>0. /\ proc' = proc /\ phase' = phase /\ local' = local /\ left' = left
        /\ key' \in 0..Limit
      BY <1>5 DEF Expire, Outage, Recover, vars
  <2>5. expires' \in BOOLEAN /\ up' \in BOOLEAN
      BY <1>5 DEF Expire, Outage, Recover, vars
  <2>4. faults' \in 0..MaxFaults
      BY <1>5 DEF Expire, Outage, Recover, vars, Fault
  <2>2. RedisHolders' = RedisHolders /\ \A p \in Procs : LocalHolders(p)' = LocalHolders(p)
      BY <2>0 DEF RedisHolders, LocalHolders
  <2>3. Cardinality(RedisHolders) \in Nat
      BY Shrink DEF RedisHolders
  <2>6. \/ key' = key /\ lapsed' = lapsed
        \/ key' = 0 /\ lapsed' = Cardinality(RedisHolders)
      BY <1>5 DEF Expire, Outage, Recover, vars
  <2>1. TypeOK'
      BY <2>0, <2>3, <2>4, <2>5, <2>6
  <2>7. Cardinality(RedisHolders') <= key' + lapsed'
      BY <2>2, <2>3, <2>6 DEF CountersCoverHolders
  <2> QED
      BY <2>0, <2>1, <2>2, <2>7 DEF CountersCoverHolders
<1> QED
  BY <1>1, <1>2, <1>3, <1>4, <1>5 DEF Next, CallStep

-----------------------------------------------------------------------------
(* The inductive invariant holds throughout.                                *)
LEMMA Invariance == Spec => []IInv
BY InitIInv, NextIInv, PTL DEF Spec

(* The counters stay between zero and the limit: nothing is ever released   *)
(* that was not counted (concurrency_limiter._RELEASE_LUA, _local_slot).    *)
THEOREM TypeCorrect == Spec => []TypeOK
<1>1. IInv => TypeOK
  BY DEF IInv
<1> QED
  BY <1>1, Invariance, PTL

(* Through outages, lost replies, lost releases, dead processes and keys    *)
(* that run out under their holders, the key undercounts the slots held in  *)
(* Redis by no more than were held when a key last expired, and every       *)
(* process counts its own exactly, for any number of calls                  *)
(* (acquire_concurrency_slot).                                              *)
THEOREM CountersCover == Spec => []CountersCoverHolders
<1>1. IInv => CountersCoverHolders
  BY DEF IInv
<1> QED
  BY <1>1, Invariance, PTL

(* So the limit is exceeded by no more than the slots a key expired under,  *)
(* and not at all before one does or after one expires with no slot held;   *)
(* and each process's own counter keeps it always.                          *)
THEOREM LimitHolds ==
    Spec => [](/\ Cardinality(RedisHolders) <= Limit + lapsed
               /\ \A p \in Procs : Cardinality(LocalHolders(p)) <= Limit)
<1>1. IInv => /\ Cardinality(RedisHolders) <= Limit + lapsed
              /\ \A p \in Procs : Cardinality(LocalHolders(p)) <= Limit
  <2>1. Cardinality(RedisHolders) \in Nat
      BY Shrink DEF RedisHolders
  <2> QED
      BY <2>1 DEF IInv, TypeOK, CountersCoverHolders
<1> QED
  BY <1>1, Invariance, PTL

===============================================================================
