---------------------------- MODULE TokenBudget ----------------------------
(***************************************************************************)
(* reserve_budget_persistent (services/llm_audit.py) and reserve_budget    *)
(* (services/governance.py): a draft reserves its tokens in the project's  *)
(* row under a row lock; when the database fails, or has no such row, in a *)
(* Redis hash under WATCH; when Redis fails, in a dictionary of its own    *)
(* process.  A failure may come after the store already took the tokens.   *)
(* Every worker is a process: it has a local dictionary of its own.        *)
(***************************************************************************)
EXTENDS Naturals

CONSTANTS Workers,        \* processes that produce drafts of one project
          ProjectTotal,   \* project.token_budget_total
          DefaultTotal,   \* settings.project_token_budget_default
          Sizes,          \* the token estimates a reservation may ask for
          MaxFaults       \* bound: store failures in one behaviour

ASSUME BudgetAssumption ==
    /\ ProjectTotal \in Nat /\ DefaultTotal \in Nat /\ MaxFaults \in Nat
    /\ Sizes \subseteq Nat \ {0}

VARIABLES
    row,      \* whether the project has a row in the database
    db,       \* project.token_budget_used
    redis,    \* the "used" field of the Redis hash
    local,    \* [Workers -> the used tokens in the process's dictionary]
    rsv,      \* [Workers -> the reservation under way]
    granted,  \* tokens granted so far, in any store
    faults

budgetVars == <<row, db, redis, local, rsv, granted, faults>>

Stages == {"idle", "db", "watch", "exec", "local", "done"}

NoReservation == [at |-> "idle", need |-> 0, seen |-> 0, ok |-> FALSE]

BudgetTypeOK ==
    /\ row \in BOOLEAN
    /\ db \in Nat /\ redis \in Nat /\ granted \in Nat
    /\ local \in [Workers -> Nat]
    /\ rsv \in [Workers -> [at : Stages, need : Sizes \cup {0}, seen : Nat, ok : BOOLEAN]]
    /\ \A w \in Workers : rsv[w].at # "idle" => rsv[w].need \in Sizes
    /\ faults \in 0..MaxFaults

BudgetInit ==
    /\ row \in BOOLEAN
    /\ db = 0 /\ redis = 0 /\ granted = 0 /\ faults = 0
    /\ local = [w \in Workers |-> 0]
    /\ rsv = [w \in Workers |-> NoReservation]

----------------------------------------------------------------------------
Fits(used, total, n) == used + n <= total

Move(w, stage) == rsv' = [rsv EXCEPT ![w].at = stage]

Answer(w, yes) ==
    /\ rsv' = [rsv EXCEPT ![w].at = "done", ![w].ok = yes]
    /\ granted' = IF yes THEN granted + rsv[w].need ELSE granted

StartReserve(w, n) ==
    /\ rsv[w].at = "idle"
    /\ rsv' = [rsv EXCEPT ![w] = [NoReservation EXCEPT !.at = "db", !.need = n]]
    /\ UNCHANGED <<row, db, redis, local, granted, faults>>

\* Without a project there is no store: the estimate is compared with the default.
AnswerUnbound(w, n) ==
    /\ rsv[w].at = "idle"
    /\ rsv' = [rsv EXCEPT ![w] = [at |-> "done", need |-> n, seen |-> 0,
                                  ok |-> Fits(0, DefaultTotal, n)]]
    /\ UNCHANGED <<row, db, redis, local, granted, faults>>

TakeReservation(w) ==
    /\ rsv[w].at = "done"
    /\ rsv' = [rsv EXCEPT ![w] = NoReservation]
    /\ UNCHANGED <<row, db, redis, local, granted, faults>>

\* One transaction: SELECT ... FOR UPDATE, the test, the update, the commit.
ReserveRow(w) ==
    /\ rsv[w].at = "db" /\ row
    /\ LET fits == Fits(db, ProjectTotal, rsv[w].need) IN
         /\ db' = IF fits THEN db + rsv[w].need ELSE db
         /\ Answer(w, fits)
    /\ UNCHANGED <<row, redis, local, faults>>

NoSuchRow(w) ==
    /\ rsv[w].at = "db" /\ ~row
    /\ Move(w, "watch")
    /\ UNCHANGED <<row, db, redis, local, granted, faults>>

\* Mutant: the error path takes back a reservation it may not have made.
RowFailsMutant(w) ==
    /\ rsv[w].at = "db" /\ faults < MaxFaults
    /\ db' = db - rsv[w].need
    /\ Move(w, "watch")
    /\ faults' = faults + 1
    /\ UNCHANGED <<row, redis, local, granted>>

\* SQLAlchemyError, at the query or at the commit: the row may have been written.
RowFails(w) ==
    /\ rsv[w].at = "db" /\ faults < MaxFaults
    /\ \/ db' = db
       \/ row /\ Fits(db, ProjectTotal, rsv[w].need) /\ db' = db + rsv[w].need
    /\ Move(w, "watch")
    /\ faults' = faults + 1
    /\ UNCHANGED <<row, redis, local, granted>>

WatchHash(w) ==
    /\ rsv[w].at = "watch"
    /\ IF Fits(redis, DefaultTotal, rsv[w].need)
       THEN /\ rsv' = [rsv EXCEPT ![w].at = "exec", ![w].seen = redis]
            /\ UNCHANGED granted
       ELSE Answer(w, FALSE)
    /\ UNCHANGED <<row, db, redis, local, faults>>

\* MULTI/EXEC succeeds only if no one wrote the hash since WATCH; else it reads again.
ExecHash(w) ==
    /\ rsv[w].at = "exec"
    /\ IF redis = rsv[w].seen
       THEN redis' = rsv[w].seen + rsv[w].need /\ Answer(w, TRUE)
       ELSE Move(w, "watch") /\ UNCHANGED <<redis, granted>>
    /\ UNCHANGED <<row, db, local, faults>>

RedisFails(w) ==
    /\ rsv[w].at \in {"watch", "exec"} /\ faults < MaxFaults
    /\ \/ redis' = redis
       \/ /\ rsv[w].at = "exec" /\ redis = rsv[w].seen
          /\ redis' = rsv[w].seen + rsv[w].need
    /\ Move(w, "local")
    /\ faults' = faults + 1
    /\ UNCHANGED <<row, db, local, granted>>

ReserveLocal(w) ==
    /\ rsv[w].at = "local"
    /\ LET fits == Fits(local[w], DefaultTotal, rsv[w].need) IN
         /\ local' = [local EXCEPT ![w] = IF fits THEN @ + rsv[w].need ELSE @]
         /\ Answer(w, fits)
    /\ UNCHANGED <<row, db, redis, faults>>

Reserve(w) ==
    \/ ReserveRow(w) \/ NoSuchRow(w) \/ WatchHash(w) \/ ExecHash(w) \/ ReserveLocal(w)

StoreFails(w) == RowFails(w) \/ RedisFails(w)

BudgetNext ==
    \E w \in Workers :
        \/ \E n \in Sizes : StartReserve(w, n) \/ AnswerUnbound(w, n)
        \/ Reserve(w) \/ StoreFails(w) \/ TakeReservation(w)

BudgetSpec == BudgetInit /\ [][BudgetNext]_budgetVars

----------------------------------------------------------------------------
(* Each store keeps to its own total whatever happens to the others, and   *)
(* what a reservation read under WATCH still fits when it is executed.     *)
StoresWithinTotals ==
    /\ db <= ProjectTotal /\ redis <= DefaultTotal
    /\ \A w \in Workers : local[w] <= DefaultTotal

ReadsStillFit ==
    \A w \in Workers : rsv[w].at = "exec" => Fits(rsv[w].seen, DefaultTotal, rsv[w].need)

(* Nothing but a failing store makes a project with a row spend more than  *)
(* its own total: every granted token is then in that row.                 *)
RowIsTheBudget ==
    row /\ faults = 0 =>
        /\ granted = db
        /\ \A w \in Workers : rsv[w].at \notin {"watch", "exec", "local"}

BudgetHolds == StoresWithinTotals /\ ReadsStillFit /\ RowIsTheBudget

RowLedger == INSTANCE TokenLedger WITH BudgetTotal <- ProjectTotal, used <- db
HashLedger == INSTANCE TokenLedger WITH BudgetTotal <- DefaultTotal, used <- redis
ProcessLedger(w) == INSTANCE TokenLedger WITH BudgetTotal <- DefaultTotal, used <- local[w]
=============================================================================
