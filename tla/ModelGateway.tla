---------------------------- MODULE ModelGateway ----------------------------
(***************************************************************************)
(* Calls to the language models: a call works through its fallback chain   *)
(* of provider profiles, and every attempt needs one of the concurrency    *)
(* slots of its project and task.  The slots are counted by a Redis key    *)
(* that two scripts increment and decrement, and, while Redis does not     *)
(* answer, by a counter in each process.                                   *)
(*                                                                         *)
(* The key's time to live starts when its count goes from 0 to 1 and is    *)
(* never renewed, so the key may expire while slots are held; the history  *)
(* variable lapsed remembers how many were, and no action reads it.        *)
(***************************************************************************)
EXTENDS Naturals, FiniteSets

CONSTANTS
    Calls,       \* calls of one project and task type
    Profiles,    \* the fallback chain of that project and task type
    Procs,       \* worker and API processes
    Limit,       \* _limit_for(project, task): at least 1
    MaxFaults    \* bound on outages, lost replies and dead processes

ASSUME LimitAssumption == Limit \in Nat \ {0}
ASSUME CallsAssumption == IsFiniteSet(Calls)
ASSUME FaultsAssumption == MaxFaults \in Nat

VARIABLES
    proc,     \* proc[c]: the process that makes call c
    left,     \* left[c]: the profiles of the chain call c has not tried
    phase,    \* phase[c]: where call c is
    key,      \* the number in the Redis key, 0 when there is no key
    expires,  \* has the key a time to live?
    local,    \* local[p]: _LOCAL_COUNTS of process p
    up,       \* does Redis answer?
    lapsed,   \* slots held in Redis when the last key expired
    faults    \* failures so far (bounded by MaxFaults)

vars == <<proc, left, phase, key, expires, local, up, lapsed, faults>>

(* "redis" and "local": an attempt holds a slot of that counter.            *)
Phase == {"choosing", "redis", "local"} \cup {"answered", "unavailable", "raised", "dead"}

Ended(c) == phase[c] \in {"answered", "unavailable", "raised", "dead"}

RedisHolders == {c \in Calls : phase[c] = "redis"}

LocalHolders(p) == {c \in Calls : phase[c] = "local" /\ proc[c] = p}

Init ==
    /\ proc \in [Calls -> Procs]
    /\ left = [c \in Calls |-> Profiles]
    /\ phase = [c \in Calls |-> "choosing"]
    /\ key = 0 /\ expires = FALSE
    /\ local = [p \in Procs |-> 0]
    /\ up = TRUE
    /\ lapsed = 0
    /\ faults = 0

Fault == faults < MaxFaults /\ faults' = faults + 1

-----------------------------------------------------------------------------
(* Mutant: the script does not set a time to live.                          *)
IncrementForGood ==
    /\ key' = IF key < Limit THEN key + 1 ELSE key
    /\ UNCHANGED expires

(* Mutant: a refused slot is taken back, and then released as well.         *)
IncrementReleased ==
    /\ key' = IF key < Limit THEN key + 1 ELSE key - 1
    /\ expires' = (expires \/ key = 0)

(* _ACQUIRE_LUA: one atomic script, which starts the time to live of a new  *)
(* key and takes its increment back when the limit is exceeded.             *)
Increment ==
    /\ key' = IF key < Limit THEN key + 1 ELSE key
    /\ expires' = (expires \/ key = 0)

(* _RELEASE_LUA: decrement, and delete the key when nothing is left.        *)
Decrement ==
    /\ key' = IF key > 1 THEN key - 1 ELSE 0
    /\ expires' = (expires /\ key > 1)

(* The chain: routing puts the profiles in an order of its own, so the next *)
(* one may be any that is left.                                             *)
Try(c) ==
    /\ phase[c] = "choosing"
    /\ \E p \in left[c] : left' = [left EXCEPT ![c] = @ \ {p}]
    /\ UNCHANGED <<proc, up, lapsed>>

(* acquire_concurrency_slot with Redis: a slot, or ConcurrencyLimitExceeded *)
(* and on to the next profile.                                              *)
AcquireRedis(c) ==
    /\ up
    /\ Try(c)
    /\ Increment
    /\ phase' = [phase EXCEPT ![c] = IF key < Limit THEN "redis" ELSE "choosing"]
    /\ UNCHANGED <<local, faults>>

(* _local_slot.                                                             *)
TakeLocal(c) ==
    IF local[proc[c]] < Limit
      THEN /\ local' = [local EXCEPT ![proc[c]] = @ + 1]
           /\ phase' = [phase EXCEPT ![c] = "local"]
      ELSE UNCHANGED <<local, phase>>

(* Redis does not answer: the process counts for itself.                    *)
AcquireLocal(c) ==
    /\ ~up
    /\ Try(c)
    /\ TakeLocal(c)
    /\ UNCHANGED <<key, expires, faults>>

(* The script ran but its reply is lost: counted twice, in Redis for nobody.*)
AcquireReplyLost(c) ==
    /\ up
    /\ Try(c)
    /\ Fault
    /\ Increment
    /\ TakeLocal(c)

(* How an attempt ends: with an answer, with AdapterUnavailableError (the   *)
(* next profile is tried), or with any other exception.                     *)
Outcome(c) == \E next \in {"answered", "choosing", "raised"} : phase' = [phase EXCEPT ![c] = next]

(* The finally clause of the slot: a release Redis does not answer is lost. *)
ReleaseRedis(c) ==
    /\ phase[c] = "redis"
    /\ Outcome(c)
    /\ IF up THEN Decrement ELSE UNCHANGED <<key, expires>>
    /\ UNCHANGED <<proc, left, local, up, lapsed, faults>>

ReleaseLocal(c) ==
    /\ phase[c] = "local"
    /\ Outcome(c)
    /\ local' = [local EXCEPT ![proc[c]] = @ - 1]
    /\ UNCHANGED <<proc, left, key, expires, up, lapsed, faults>>

(* Mutant: with every profile refused, the chain is tried again.            *)
ChainAgain(c) ==
    /\ phase[c] = "choosing" /\ left[c] = {}
    /\ left' = [left EXCEPT ![c] = Profiles]
    /\ UNCHANGED <<proc, phase, key, expires, local, up, lapsed, faults>>

(* Every profile failed or was refused: the chain raises.                   *)
GiveUp(c) ==
    /\ phase[c] = "choosing" /\ left[c] = {}
    /\ phase' = [phase EXCEPT ![c] = "unavailable"]
    /\ UNCHANGED <<proc, left, key, expires, local, up, lapsed, faults>>

-----------------------------------------------------------------------------
(* The key's time is up, whoever holds a slot it counts.                    *)
Expire ==
    /\ key > 0 /\ expires
    /\ key' = 0 /\ expires' = FALSE
    /\ lapsed' = Cardinality(RedisHolders)
    /\ UNCHANGED <<proc, left, phase, local, up, faults>>

Outage ==
    /\ up
    /\ Fault
    /\ up' = FALSE
    /\ UNCHANGED <<proc, left, phase, key, expires, local, lapsed>>

Recover ==
    /\ ~up
    /\ up' = TRUE
    /\ UNCHANGED <<proc, left, phase, key, expires, local, lapsed, faults>>

(* A process dies with its calls and its counters; its slots in Redis stay. *)
ProcessDies(p) ==
    /\ Fault
    /\ \E c \in Calls : proc[c] = p /\ ~Ended(c)
    /\ phase' = [c \in Calls |-> IF proc[c] = p /\ ~Ended(c) THEN "dead" ELSE phase[c]]
    /\ local' = [local EXCEPT ![p] = 0]
    /\ UNCHANGED <<proc, left, key, expires, up, lapsed>>

CallStep(c) ==
    \/ AcquireRedis(c) \/ AcquireLocal(c) \/ GiveUp(c)
    \/ ReleaseRedis(c) \/ ReleaseLocal(c)

Next ==
    \/ \E c \in Calls : CallStep(c) \/ AcquireReplyLost(c)
    \/ \E p \in Procs : ProcessDies(p)
    \/ Expire \/ Outage \/ Recover

Spec == Init /\ [][Next]_vars

(* Provider calls time out, so an attempt ends; and time passes.            *)
FairSpec == Spec /\ WF_vars(Expire) /\ \A c \in Calls : WF_vars(CallStep(c))

-----------------------------------------------------------------------------
(* The counters stay within the limit they enforce, with everything else    *)
(* of its type.                                                             *)
TypeOK ==
    /\ proc \in [Calls -> Procs]
    /\ left \in [Calls -> SUBSET Profiles]
    /\ phase \in [Calls -> Phase]
    /\ key \in 0..Limit
    /\ expires \in BOOLEAN
    /\ local \in [Procs -> 0..Limit]
    /\ up \in BOOLEAN
    /\ lapsed \in Nat
    /\ faults \in 0..MaxFaults

(* The counters undercount by no more than the slots whose key expired      *)
(* under them: through outages, lost replies, dead processes and keys that  *)
(* run out, the key counts at least the slots held in Redis less those held *)
(* when a key last expired, also once their releases have been counted down *)
(* on the next key; and a process counts its own exactly.                   *)
CountersCoverHolders ==
    /\ Cardinality(RedisHolders) <= key + lapsed
    /\ \A p \in Procs : Cardinality(LocalHolders(p)) = local[p]

(* A slot leaked by a dead process, a lost release or a lost reply is given *)
(* back: time and again the key counts exactly the slots that are held.     *)
LeaksHeal == []<>(key = Cardinality(RedisHolders))

(* Every call ends, with an answer or an error, whatever its profiles do    *)
(* and however often it is refused a slot.                                  *)
CallsEnd == \A c \in Calls : <>Ended(c)
=============================================================================
