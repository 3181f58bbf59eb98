-------------------------- MODULE ProviderProfiles --------------------------
(***************************************************************************)
(* Provider profiles (services/byok/profiles.py) with the handlers that    *)
(* manage them, and the calls that use them.  A profile is a row in the    *)
(* database and, unless its key is encrypted in that row, a secret in      *)
(* Redis or in a vault; a project's policy binds profiles to tasks.        *)
(* Processes create, delete, bind and resolve profiles at the same time;   *)
(* every store may fail, before or after it did what was asked.  A call    *)
(* resolves a chain, tries it in the order the routing statistics give,    *)
(* and records each attempt (RoutingStats).                                *)
(***************************************************************************)
EXTENDS RoutingStats

CONSTANTS Profiles,      \* the fresh uuids profiles get
          Storages,      \* KeyStorage
          Slots,         \* what a policy binds: the tasks' columns, with a foreign key,
          ExpertSlots,   \*   and the experts' bindings, inside concurrency_limits
          Nobody,        \* no profile, no row
          ModelOf,       \* [Profiles -> the profile's provider and model]
          GlobalKeys,    \* the models whose provider has a key in the environment
          MaxRequests, MaxFaults

ASSUME ProfilesAssumption ==
    /\ ModelOf \in [Profiles -> Models] /\ GlobalKeys \subseteq Models
    /\ Slots \cap ExpertSlots = {} /\ Nobody \notin Profiles \cup Storages
    /\ MaxRequests \in Nat /\ MaxFaults \in Nat

VARIABLES
    rows,       \* provider_profile: [Profiles -> storage or Nobody]
    secrets,    \* the profiles whose secret is in Redis or in the vault
    used,       \* the uuids given away
    policy,     \* project_model_policy: [Slots and ExpertSlots -> profile or Nobody]
    job,        \* [Procs -> the request under way]
    deleted,    \* history: profiles whose deletion was answered
    lapsed,     \* history: profiles whose temporary secret expired
    requests, faults

profileVars == <<rows, secrets, used, policy, job, deleted, lapsed, requests, faults>>
vars == <<profileVars, routingVars>>

AllSlots == Slots \cup ExpertSlots
External == Storages \ {"ENCRYPTED_DB"}
Present == {p \in Profiles : rows[p] # Nobody}

Idle == [at |-> "idle"]

TypeOK ==
    /\ rows \in [Profiles -> Storages \cup {Nobody}]
    /\ secrets \subseteq used /\ Present \subseteq used /\ used \subseteq Profiles
    /\ \A p \in secrets : rows[p] # "ENCRYPTED_DB"
    /\ policy \in [AllSlots -> Profiles \cup {Nobody}]
    /\ \A c \in Procs : job[c].at \in
         {"idle", "write", "insert", "find", "erase", "remove", "read", "bind",
          "policy", "row", "key", "route", "feedback"}
    /\ requests \in 0..MaxRequests /\ faults \in 0..MaxFaults

Init ==
    /\ rows = [p \in Profiles |-> Nobody] /\ secrets = {} /\ used = {}
    /\ policy = [s \in AllSlots |-> Nobody]
    /\ job = [c \in Procs |-> Idle]
    /\ deleted = {} /\ lapsed = {} /\ requests = 0 /\ faults = 0
    /\ RoutingInit

----------------------------------------------------------------------------
At(c, step) == job[c].at = step
Become(c, next) == job' = [job EXCEPT ![c] = next]
Answer(c) == Become(c, Idle)

Begin(c, next) ==
    /\ At(c, "idle") /\ requests < MaxRequests
    /\ requests' = requests + 1
    /\ Become(c, next)

Fault == faults < MaxFaults /\ faults' = faults + 1

(* create_provider_profile: the secret first, then the row.                *)
CreateProfile(c) ==
    /\ \E p \in Profiles \ used, storage \in Storages :
         /\ Begin(c, [at |-> IF storage \in External THEN "write" ELSE "insert",
                      profile |-> p, storage |-> storage])
         /\ used' = used \cup {p}
    /\ UNCHANGED <<rows, secrets, policy, deleted, lapsed, faults, routingVars>>

WriteSecret(c) ==
    /\ At(c, "write")
    /\ secrets' = secrets \cup {job[c].profile}
    /\ Become(c, [at |-> "insert", profile |-> job[c].profile, storage |-> job[c].storage])
    /\ UNCHANGED <<rows, used, policy, deleted, lapsed, requests, faults, routingVars>>

\* Redis or the vault raises: 400, and nobody knows whether the secret was written.
WriteSecretFails(c) ==
    /\ At(c, "write") /\ Fault /\ Answer(c)
    /\ secrets' \in {secrets, secrets \cup {job[c].profile}}
    /\ UNCHANGED <<rows, used, policy, deleted, lapsed, requests, routingVars>>

InsertRow(c) ==
    /\ At(c, "insert") /\ Answer(c)
    /\ rows' = [rows EXCEPT ![job[c].profile] = job[c].storage]
    /\ UNCHANGED <<secrets, used, policy, deleted, lapsed, requests, faults, routingVars>>

\* A dead process, or a database that does not answer, before or after the commit.
InsertRowFails(c) ==
    /\ At(c, "insert") /\ Fault /\ Answer(c)
    /\ rows' \in {rows, [rows EXCEPT ![job[c].profile] = job[c].storage]}
    /\ UNCHANGED <<secrets, used, policy, deleted, lapsed, requests, routingVars>>

(* delete_provider_profile: the row is found, the secret erased, the row   *)
(* deleted, which by the foreign keys clears the tasks bound to it.        *)
DeleteProfile(c) ==
    /\ \E p \in used : Begin(c, [at |-> "find", profile |-> p])
    /\ UNCHANGED <<rows, secrets, used, policy, deleted, lapsed, faults, routingVars>>

Removing(c, step) == [at |-> step, profile |-> job[c].profile]

\* Mutant: a deletion leaves the secret where it is.
FindRowMutant(c) ==
    /\ At(c, "find")
    /\ Become(c, IF rows[job[c].profile] = Nobody THEN Idle ELSE Removing(c, "remove"))
    /\ UNCHANGED <<rows, secrets, used, policy, deleted, lapsed, requests, faults, routingVars>>

FindRow(c) ==
    /\ At(c, "find")
    /\ Become(c, IF rows[job[c].profile] = Nobody THEN Idle
                 ELSE Removing(c, IF rows[job[c].profile] \in External THEN "erase" ELSE "remove"))
    /\ UNCHANGED <<rows, secrets, used, policy, deleted, lapsed, requests, faults, routingVars>>

EraseSecret(c) ==
    /\ At(c, "erase")
    /\ secrets' = secrets \ {job[c].profile}
    /\ Become(c, Removing(c, "remove"))
    /\ UNCHANGED <<rows, used, policy, deleted, lapsed, requests, faults, routingVars>>

EraseSecretFails(c) ==
    /\ At(c, "erase") /\ Fault /\ Answer(c)
    /\ secrets' \in {secrets, secrets \ {job[c].profile}}
    /\ UNCHANGED <<rows, used, policy, deleted, lapsed, requests, routingVars>>

Removed(p) ==
    /\ rows' = [rows EXCEPT ![p] = Nobody]
    /\ policy' = [s \in AllSlots |-> IF s \in Slots /\ policy[s] = p THEN Nobody ELSE policy[s]]

\* Mutant: the row is only marked, so that the policy keeps its binding.
RemoveRowMutant(c) ==
    /\ At(c, "remove") /\ Answer(c)
    /\ deleted' = deleted \cup {job[c].profile}
    /\ UNCHANGED <<rows, secrets, used, policy, lapsed, requests, faults, routingVars>>

RemoveRow(c) ==
    /\ At(c, "remove") /\ Answer(c)
    /\ Removed(job[c].profile)
    /\ deleted' = deleted \cup {job[c].profile}
    /\ UNCHANGED <<secrets, used, lapsed, requests, faults, routingVars>>

RemoveRowFails(c) ==
    /\ At(c, "remove") /\ Fault /\ Answer(c)
    /\ Removed(job[c].profile) \/ UNCHANGED <<rows, policy>>
    /\ UNCHANGED <<secrets, used, deleted, lapsed, requests, routingVars>>

\* secret_temp_key_ttl_seconds after it was written; a vault that is not configured
\* keeps its secrets in Redis too, with the same time to live.
SecretLapses(p) ==
    /\ p \in secrets
    /\ secrets' = secrets \ {p} /\ lapsed' = lapsed \cup {p}
    /\ UNCHANGED <<rows, used, policy, job, deleted, requests, faults, routingVars>>

(* upsert_project_model_policy: the policy is read, changed and written    *)
(* back; only columns that differ from what was read are written, but the  *)
(* experts' bindings are one column.  A profile that does not exist breaks *)
(* the foreign key, and the request fails.                                 *)
UpsertPolicy(c) ==
    /\ \E wanted \in [AllSlots -> used \cup {Nobody}], experts \in BOOLEAN :
         Begin(c, [at |-> "read", wanted |-> wanted, experts |-> experts, seen |-> policy])
    /\ UNCHANGED <<rows, secrets, used, policy, deleted, lapsed, faults, routingVars>>

ReadPolicyRow(c) ==
    /\ At(c, "read")
    /\ Become(c, [at |-> "bind", wanted |-> job[c].wanted, experts |-> job[c].experts, seen |-> policy])
    /\ UNCHANGED <<rows, secrets, used, policy, deleted, lapsed, requests, faults, routingVars>>

\* A request without the experts' bindings leaves those that are there.
Changed(c) ==
    {s \in IF job[c].experts THEN AllSlots ELSE Slots : job[c].wanted[s] # job[c].seen[s]}
Written(c) ==
    IF Changed(c) \cap ExpertSlots = {} THEN Changed(c) ELSE Changed(c) \cup ExpertSlots

KeysHold(c) ==
    \A s \in Changed(c) \cap Slots : job[c].wanted[s] \in Present \cup {Nobody}

WritePolicyRow(c) ==
    /\ At(c, "bind") /\ Answer(c)
    /\ policy' = IF KeysHold(c)
                 THEN [s \in AllSlots |-> IF s \in Written(c) THEN job[c].wanted[s] ELSE policy[s]]
                 ELSE policy
    /\ UNCHANGED <<rows, secrets, used, deleted, lapsed, requests, faults, routingVars>>

----------------------------------------------------------------------------
(* resolve_profile_for_task: policy, row and secret are read one after     *)
(* another; whatever is missing falls back to the registry's default model *)
(* or to the environment's key.                                            *)
Resolve(c) ==
    /\ \E s \in Slots : Begin(c, [at |-> "policy", slot |-> s, gone |-> deleted])
    /\ UNCHANGED <<rows, secrets, used, policy, deleted, lapsed, faults, routingVars>>

Entry(p, m, own) == [profile |-> p, model |-> m, own |-> own, key |-> own \/ m \in GlobalKeys]

Others(model) == SelectSeq(ModelOrder, LAMBDA m : m # model)

\* resolve_profile_chain_for_task: the registry's models follow, each once.
Chain(first) ==
    LET rest == Others(first.model)
    IN  [i \in 1..(Len(rest) + 1) |-> IF i = 1 THEN first ELSE Entry(Nobody, rest[i - 1], FALSE)]

Resolved(c, first) ==
    [at |-> "route", gone |-> job[c].gone, chain |-> Chain(first), left |-> <<>>]

Default == Entry(Nobody, Head(ModelOrder), FALSE)

ReadBinding(c) ==
    /\ At(c, "policy")
    /\ Become(c, IF policy[job[c].slot] = Nobody THEN Resolved(c, Default)
                 ELSE [at |-> "row", gone |-> job[c].gone, profile |-> policy[job[c].slot]])
    /\ UNCHANGED <<rows, secrets, used, policy, deleted, lapsed, requests, faults, routingVars>>

\* allowed_tasks may leave the task out.
ReadRow(c) ==
    /\ At(c, "row")
    /\ \/ /\ rows[job[c].profile] # Nobody
          /\ Become(c, [at |-> "key", gone |-> job[c].gone, profile |-> job[c].profile,
                        storage |-> rows[job[c].profile]])
       \/ Become(c, Resolved(c, Default))
    /\ UNCHANGED <<rows, secrets, used, policy, deleted, lapsed, requests, faults, routingVars>>

HasKey(c) == job[c].storage = "ENCRYPTED_DB" \/ job[c].profile \in secrets

\* _resolve_api_key: an error counts as no key.
ReadKey(c) ==
    /\ At(c, "key")
    /\ \/ Become(c, Resolved(c, Entry(job[c].profile, ModelOf[job[c].profile], HasKey(c))))
          /\ UNCHANGED faults
       \/ Fault /\ Become(c, Resolved(c, Entry(job[c].profile, ModelOf[job[c].profile], FALSE)))
    /\ UNCHANGED <<rows, secrets, used, policy, deleted, lapsed, requests, routingVars>>

----------------------------------------------------------------------------
(* The call: the chain in the order of the statistics, or in any order     *)
(* when the routing explores; the first attempt that succeeds ends it.     *)
Orders(c) ==
    LET n == 1..Len(job[c].chain) IN
      {[k \in n |-> build_routing_order(_load_stats(c), [i \in n |-> job[c].chain[i].model])[k]]}
      \cup {f \in [n -> n] : \A i, j \in n : i # j => f[i] # f[j]}

Calling(c, left) == [at |-> "feedback", gone |-> job[c].gone, chain |-> job[c].chain, left |-> left]

Route(c) ==
    /\ At(c, "route")
    /\ \E order \in Orders(c) :
         Become(c, Calling(c, order))
    /\ UNCHANGED <<rows, secrets, used, policy, deleted, lapsed, requests, faults, routingVars>>

Attempt(c) ==
    /\ At(c, "feedback") /\ ~fb[c].busy
    /\ LET entry == job[c].chain[Head(job[c].left)] IN
         \E success \in IF entry.key THEN BOOLEAN ELSE {FALSE}, latency \in Latencies :
           /\ \/ Load(c, entry.model, success, latency, TRUE) /\ UNCHANGED faults
              \/ Load(c, entry.model, success, latency, FALSE) /\ Fault
           /\ Become(c, Calling(c, IF success THEN <<>> ELSE Tail(job[c].left)))
    /\ UNCHANGED <<rows, secrets, used, policy, deleted, lapsed, requests>>

SaveFeedback(c) ==
    /\ At(c, "feedback") /\ fb[c].busy
    /\ \/ Save(c, TRUE) /\ UNCHANGED faults
       \/ Save(c, FALSE) /\ Fault
    /\ IF job[c].left = <<>> THEN Answer(c) ELSE UNCHANGED job
    /\ UNCHANGED <<rows, secrets, used, policy, deleted, lapsed, requests>>

Expire == StatsExpire /\ UNCHANGED profileVars

Manage(c) ==
    \/ CreateProfile(c) \/ WriteSecret(c) \/ InsertRow(c)
    \/ DeleteProfile(c) \/ FindRow(c) \/ EraseSecret(c) \/ RemoveRow(c)
    \/ UpsertPolicy(c) \/ ReadPolicyRow(c) \/ WritePolicyRow(c)

Use(c) ==
    \/ Resolve(c) \/ ReadBinding(c) \/ ReadRow(c) \/ ReadKey(c)
    \/ Route(c) \/ Attempt(c) \/ SaveFeedback(c)

Fails(c) ==
    \/ WriteSecretFails(c) \/ InsertRowFails(c) \/ EraseSecretFails(c) \/ RemoveRowFails(c)

Next ==
    \/ \E c \in Procs : Manage(c) \/ Use(c) \/ Fails(c)
    \/ \E p \in Profiles : SecretLapses(p)
    \/ Expire

Spec == Init /\ [][Next]_vars

----------------------------------------------------------------------------
(* Row and secret are in different stores, written one after the other:    *)
(* a profile has both or neither unless a request is at work on it, its    *)
(* secret has expired, or a store failed; and each failure leaves at most  *)
(* one profile apart.                                                      *)
Apart(p) == (rows[p] \in External) # (p \in secrets)

AtWork(p) ==
    \E c \in Procs : job[c].at \in {"write", "insert", "find", "erase", "remove"} /\ job[c].profile = p

SecretsAccounted ==
    Cardinality({p \in Profiles \ lapsed : Apart(p) /\ ~AtWork(p)}) <= faults

(* A task is only ever bound to a profile that exists, and a call that     *)
(* started after a profile's deletion was answered never runs on it.       *)
ServesLiveProfiles ==
    /\ \A s \in Slots : policy[s] \in Present \cup {Nobody}
    /\ \A c \in Procs : job[c].at \in {"route", "feedback"} =>
         \A i \in DOMAIN job[c].chain : job[c].chain[i].profile \notin job[c].gone

RoutingHolds == FeedbackCounted /\ FailingGoesLast
=============================================================================
