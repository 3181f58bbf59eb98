---------------------------- MODULE RoutingStats ----------------------------
(***************************************************************************)
(* services/routing_optimizer.py: every attempt of a model call records    *)
(* its success and latency, and the statistics order the next call's       *)
(* profiles.  The statistics are one value, read, changed and written back *)
(* without a lock: in Redis, and in a dictionary of each process for when  *)
(* Redis fails or holds nothing.  One project and task type.               *)
(***************************************************************************)
EXTENDS Integers, Sequences, FiniteSets

CONSTANTS Procs, Models,
          ModelOrder,    \* get_fallback_chain: the registry's models for the task
          Latencies,     \* the latencies an attempt may take, in milliseconds
          MaxFeedback    \* bound: attempts recorded in one behaviour

ASSUME RoutingAssumption ==
    ModelOrder \in Seq(Models) /\ Latencies \subseteq Nat /\ MaxFeedback \in Nat

VARIABLES
    redisStats,   \* [Models -> item or NoItem], Empty when the key is absent
    memory,       \* [Procs -> the process's own statistics]
    fb,           \* [Procs -> the feedback under way]
    given,        \* history, [Models -> attempts and successes reported so far]
    overlapped    \* history: whether two feedbacks were ever under way at once,
                  \* or one was recorded without Redis

routingVars == <<redisStats, memory, fb, given, overlapped>>

NoItem == [attempts |-> 0, successes |-> 0, latency_ms |-> 0]
Empty == [m \in Models |-> NoItem]
Quiet == [busy |-> FALSE]

RoutingInit ==
    /\ redisStats = Empty
    /\ memory = [p \in Procs |-> Empty]
    /\ fb = [p \in Procs |-> Quiet]
    /\ given = [m \in Models |-> [attempts |-> 0, successes |-> 0]]
    /\ overlapped = FALSE

Reported ==
    LET sum[S \in SUBSET Models] ==
          IF S = {} THEN 0
          ELSE LET m == CHOOSE x \in S : TRUE IN given[m].attempts + sum[S \ {m}]
    IN  sum[Models]

\* Redis's value, or the process's own when the key is absent.
_load_stats(p) == IF redisStats = Empty THEN memory[p] ELSE redisStats

\* record_route_feedback: one attempt more, and a moving average of the latency.
Updated(item, success, latency) ==
    [attempts   |-> item.attempts + 1,
     successes  |-> item.successes + (IF success THEN 1 ELSE 0),
     latency_ms |-> IF item.attempts = 0 THEN latency
                    ELSE (item.latency_ms * 7 + latency * 3) \div 10]

\* An attempt ended: the statistics are read.
Load(p, m, success, latency, answered) ==
    /\ ~fb[p].busy /\ Reported < MaxFeedback
    /\ LET seen == IF answered THEN _load_stats(p) ELSE memory[p] IN
         fb' = [fb EXCEPT ![p] =
                  [busy |-> TRUE, stats |-> [seen EXCEPT ![m] = Updated(@, success, latency)]]]
    /\ given' = [given EXCEPT ![m] =
                   [attempts |-> @.attempts + 1,
                    successes |-> @.successes + (IF success THEN 1 ELSE 0)]]
    /\ overlapped' = (overlapped \/ ~answered \/ \E q \in Procs : fb[q].busy)
    /\ UNCHANGED <<redisStats, memory>>

\* _save_stats: the process's own dictionary, and Redis unless it fails.
Save(p, answered) ==
    /\ fb[p].busy
    /\ memory' = [memory EXCEPT ![p] = fb[p].stats]
    /\ redisStats' = IF answered THEN fb[p].stats ELSE redisStats
    /\ fb' = [fb EXCEPT ![p] = Quiet]
    /\ overlapped' = (overlapped \/ ~answered)
    /\ UNCHANGED given

\* The key's seven days are over.
StatsExpire ==
    /\ redisStats # Empty
    /\ redisStats' = Empty /\ overlapped' = TRUE
    /\ UNCHANGED <<memory, fb, given>>

----------------------------------------------------------------------------
(* _reward: 0.85 of the success rate and 0.15 for a latency below four     *)
(* seconds, 0.5 for a model never tried; in units of 1/80000.              *)
Quick(item) == 4000 - (IF item.latency_ms > 4000 THEN 4000 ELSE item.latency_ms)

\* Mutant: the weights of success and latency are exchanged.
RewardMutant(item) ==
    IF item.attempts = 0 THEN [num |-> 40000, den |-> 1]
    ELSE [num |-> item.successes * 12000 + item.attempts * Quick(item) * 17,
          den |-> item.attempts]

Reward(item) ==
    IF item.attempts = 0 THEN [num |-> 40000, den |-> 1]
    ELSE [num |-> item.successes * 68000 + item.attempts * Quick(item) * 3,
          den |-> item.attempts]

\* _sort_key, in reverse: reward, then attempts, then the chain's own order.
Better(stats, chain, i, j) ==
    LET a == Reward(stats[chain[i]]) b == Reward(stats[chain[j]])
        more == stats[chain[i]].attempts - stats[chain[j]].attempts
    IN  \/ a.num * b.den > b.num * a.den
        \/ a.num * b.den = b.num * a.den /\ (more > 0 \/ (more = 0 /\ i < j))

\* build_routing_order without exploration: the chain's indices, best first.
build_routing_order(stats, chain) ==
    LET place(i) == 1 + Cardinality({j \in DOMAIN chain : Better(stats, chain, j, i)})
    IN  [k \in DOMAIN chain |-> CHOOSE i \in DOMAIN chain : place(i) = k]

----------------------------------------------------------------------------
(* Whatever overlaps, fails or expires, no store ever claims an attempt or *)
(* a success that was not made; and while feedbacks came one at a time     *)
(* with Redis answering, none is lost (they are, when two overlap).        *)
Claims(stats) ==
    \A m \in Models :
        /\ stats[m].attempts <= given[m].attempts
        /\ stats[m].successes <= given[m].successes
        /\ stats[m].successes <= stats[m].attempts

FeedbackCounted ==
    /\ Claims(redisStats)
    /\ \A p \in Procs : Claims(memory[p]) /\ (fb[p].busy => Claims(fb[p].stats))
    /\ ~overlapped /\ (\A p \in Procs : ~fb[p].busy) =>
          \A m \in Models : redisStats[m].attempts = given[m].attempts
                         /\ redisStats[m].successes = given[m].successes

(* A model that has only ever failed is tried after every model that has   *)
(* only ever succeeded or was never tried, whatever statistics the races   *)
(* and outages have left behind.                                           *)
Hopeless(item) == item.attempts > 0 /\ item.successes = 0
Spotless(item) == item.successes = item.attempts

FailingGoesLast ==
    \A stats \in {redisStats} \cup {memory[p] : p \in Procs} :
    \A i, j \in DOMAIN build_routing_order(stats, ModelOrder) :
        LET at(k) == stats[ModelOrder[build_routing_order(stats, ModelOrder)[k]]] IN
          Hopeless(at(i)) /\ Spotless(at(j)) => j < i
============================================================================
