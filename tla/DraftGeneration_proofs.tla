----------------------- MODULE DraftGeneration_proofs -----------------------
(***************************************************************************)
(* Proofs about DraftGeneration, for any number of workers, drafts, texts  *)
(* and store failures: whatever the drafts do, each of the three kinds of  *)
(* budget store is a ledger; what is answered as supported has passed the  *)
(* judgements, and so has what either tier of the cache holds.             *)
(***************************************************************************)
EXTENDS DraftGeneration, FiniteSetTheorems, TLAPS

USE BudgetAssumption

(* What a draft can do to the budget.                                       *)
BudgetStep(w) ==
    \/ \E n \in Sizes : StartReserve(w, n) \/ AnswerUnbound(w, n)
    \/ Reserve(w) \/ StoreFails(w) \/ TakeReservation(w)

(* All but the count of faults.                                             *)
NoBudgetStep ==
    /\ UNCHANGED <<row, db, redis, local, rsv, granted>>
    /\ \/ faults' = faults
       \/ faults < MaxFaults /\ faults' = faults + 1

BInv == BudgetTypeOK /\ ReadsStillFit

-----------------------------------------------------------------------------
(* The text a worker asks tokens for is one of those the sizes are of.      *)
LEMMA WrittenText ==
    ASSUME NEW w \in Workers, NEW g \in Generated(w), NEW text \in Enhanced(w, g.text)
    PROVE  text.size \in Sizes
<1>1. g.text \in Texts \cup {HumanText}
  <2>1. CASE g \in [text : Texts, unbound : {FALSE}]
      BY <2>1
  <2>2. CASE g.text = HumanText
      BY <2>2
  <2>3. g \in [text : Texts, unbound : {FALSE}] \/ g.text = HumanText
    <3> SUFFICES ASSUME g \notin [text : Texts, unbound : {FALSE}] PROVE g.text = HumanText
        OBVIOUS
    <3>1. PICK blocks : g = [text |-> HumanText, unbound |-> validate_generation_payload(blocks)]
        BY ZenonT(30) DEF Generated
    <3> QED
        BY <3>1
  <2> QED
      BY <2>1, <2>2, <2>3
<1>2. text \in Texts \cup {HumanText}
  BY <1>1 DEF Enhanced
<1> QED
  BY <1>2, TextsAssumption

\* A step of a draft is a step of the budget, or leaves the budget alone.
LEMMA DraftsUseTheBudget ==
    ASSUME [Next]_vars
    PROVE  (\E w \in Workers : BudgetStep(w)) \/ NoBudgetStep
<1> USE DEF budgetVars
<1>1. ASSUME NEW w \in Workers, Write(w) PROVE BudgetStep(w) \/ NoBudgetStep
  <2>1. PICK g \in Generated(w) : \E text \in Enhanced(w, g.text) :
          \/ UNCHANGED budgetVars
          \/ StartReserve(w, text.size) \/ AnswerUnbound(w, text.size)
      BY <1>1 DEF Write
  <2>2. PICK text \in Enhanced(w, g.text) :
          \/ UNCHANGED budgetVars
          \/ StartReserve(w, text.size) \/ AnswerUnbound(w, text.size)
      BY <2>1
  <2>3. text.size \in Sizes
      BY WrittenText
  <2> QED
      BY <2>2, <2>3 DEF BudgetStep, NoBudgetStep
<1>2. ASSUME NEW w \in Workers, Budget(w) \/ BudgetFails(w) \/ Review(w) PROVE BudgetStep(w)
  BY <1>2 DEF Budget, BudgetFails, Review, BudgetStep
<1>3. ASSUME NEW w \in Workers,
             \/ get_cache(w) \/ set_cache(w) \/ ReadLinks(w) \/ WriteLinks(w) \/ Return(w) \/ invalidate_cache(w)
             \/ get_cache_fails(w) \/ set_cache_fails(w) \/ WriteLinksFails(w) \/ invalidate_cache_fails(w)
      PROVE  NoBudgetStep
  BY <1>3 DEF get_cache, set_cache, ReadLinks, WriteLinks, Return, invalidate_cache, get_cache_fails, set_cache_fails,
              WriteLinksFails, invalidate_cache_fails, NoBudgetStep
<1>4. ASSUME NEW w \in Workers, NEW r \in Requests, Start(w, r) \/ StartFails(w, r) PROVE NoBudgetStep
  BY <1>4 DEF Start, StartFails, NoBudgetStep
<1>5. CASE (\E k \in Keys : Expire(k)) \/ EvidenceAges \/ UNCHANGED vars
  BY <1>5 DEF Expire, EvidenceAges, vars, NoBudgetStep
<1> QED
  BY <1>1, <1>2, <1>3, <1>4, <1>5 DEF Next, Work, Faulty

-----------------------------------------------------------------------------

\* The ledgers are empty at first.
LEMMA InitBInv == Init => BInv
BY DEF Init, BudgetInit, BInv, BudgetTypeOK, ReadsStillFit, NoReservation, Stages

\* What a reservation under way holds.
LEMMA RsvTypes ==
    ASSUME BInv, NEW w \in Workers
    PROVE  /\ rsv[w] \in [at : Stages, need : Sizes \cup {0}, seen : Nat, ok : BOOLEAN]
           /\ rsv[w].need \in Nat /\ rsv[w].seen \in Nat /\ local[w] \in Nat
           /\ rsv[w].at # "idle" => rsv[w].need \in Sizes
<1>1. rsv[w] \in [at : Stages, need : Sizes \cup {0}, seen : Nat, ok : BOOLEAN] /\ local[w] \in Nat
  BY DEF BInv, BudgetTypeOK
<1>2. rsv[w].need \in Sizes \cup {0} /\ rsv[w].seen \in Nat
  BY <1>1
<1>3. rsv[w].need \in Nat
  <2>1. CASE rsv[w].need = 0
      BY <2>1
  <2>2. CASE rsv[w].need \in Sizes
    <3>1. Sizes \subseteq Nat
        BY BudgetAssumption
    <3> QED
        BY <2>2, <3>1
  <2> QED
      BY <1>2, <2>1, <2>2
<1>4. rsv[w].at # "idle" => rsv[w].need \in Sizes
  BY DEF BInv, BudgetTypeOK
<1> QED
  BY <1>1, <1>2, <1>3, <1>4

(* An answer gives the reservation its type, and leaves those of the other  *)
(* workers alone.                                                           *)
LEMMA AnswerKeeps ==
    ASSUME BInv, NEW w \in Workers, rsv[w].at # "idle", NEW yes \in BOOLEAN, Answer(w, yes)
    PROVE  /\ rsv' \in [Workers -> [at : Stages, need : Sizes \cup {0}, seen : Nat, ok : BOOLEAN]]
           /\ granted' \in Nat
           /\ rsv'[w].at = "done" /\ rsv'[w].need \in Sizes
           /\ \A v \in Workers \ {w} : rsv'[v] = rsv[v]
<1> USE DEF BInv, BudgetTypeOK, Stages
<1>1. rsv' = [rsv EXCEPT ![w] = [at |-> "done", need |-> rsv[w].need, seen |-> rsv[w].seen, ok |-> yes]]
  <2>1. rsv' = [rsv EXCEPT ![w] = [[rsv[w] EXCEPT !.at = "done"] EXCEPT !.ok = yes]]
      BY DEF Answer
  <2>2. rsv[w] \in [at : Stages, need : Sizes \cup {0}, seen : Nat, ok : BOOLEAN]
      BY RsvTypes
  <2>3. [[rsv[w] EXCEPT !.at = "done"] EXCEPT !.ok = yes]
           = [at |-> "done", need |-> rsv[w].need, seen |-> rsv[w].seen, ok |-> yes]
    <3>1. \A r \in [at : Stages, need : Sizes \cup {0}, seen : Nat, ok : BOOLEAN] :
            [r EXCEPT !.at = "done"] = [at |-> "done", need |-> r.need, seen |-> r.seen, ok |-> r.ok]
        OBVIOUS
    <3>2. [[at |-> "done", need |-> rsv[w].need, seen |-> rsv[w].seen, ok |-> rsv[w].ok] EXCEPT !.ok = yes]
             = [at |-> "done", need |-> rsv[w].need, seen |-> rsv[w].seen, ok |-> yes]
        OBVIOUS
    <3> QED
        BY <2>2, <3>1, <3>2, Zenon
  <2> QED
      BY <2>1, <2>3
<1>2. rsv[w].need \in Sizes /\ rsv[w].seen \in Nat /\ rsv[w].need \in Nat
  BY RsvTypes
<1>3. [at |-> "done", need |-> rsv[w].need, seen |-> rsv[w].seen, ok |-> yes]
         \in [at : Stages, need : Sizes \cup {0}, seen : Nat, ok : BOOLEAN]
  BY <1>2
<1>4. granted' \in Nat
  BY <1>2 DEF Answer
<1> QED
  BY <1>1, <1>2, <1>3, <1>4

(* A reservation begins at the row, or is answered at once.                 *)
LEMMA Started ==
    ASSUME NEW w \in Workers, NEW n \in Sizes, StartReserve(w, n) \/ AnswerUnbound(w, n)
    PROVE  \E a \in {"db", "done"}, yes \in BOOLEAN :
             rsv' = [rsv EXCEPT ![w] = [at |-> a, need |-> n, seen |-> 0, ok |-> yes]]
<1>1. CASE StartReserve(w, n)
  <2>1. rsv' = [rsv EXCEPT ![w] = [[NoReservation EXCEPT !.at = "db"] EXCEPT !.need = n]]
      BY <1>1 DEF StartReserve
  <2>2. [[NoReservation EXCEPT !.at = "db"] EXCEPT !.need = n]
           = [at |-> "db", need |-> n, seen |-> 0, ok |-> FALSE]
    <3>1. \A r \in [at : Stages, need : Sizes \cup {0}, seen : Nat, ok : BOOLEAN] :
            [r EXCEPT !.at = "db"] = [at |-> "db", need |-> r.need, seen |-> r.seen, ok |-> r.ok]
        OBVIOUS
    <3>2. /\ NoReservation \in [at : Stages, need : Sizes \cup {0}, seen : Nat, ok : BOOLEAN]
          /\ NoReservation.need = 0 /\ NoReservation.seen = 0 /\ NoReservation.ok = FALSE
        BY DEF NoReservation, Stages
    <3>3. \A b \in BOOLEAN : [[at |-> "db", need |-> 0, seen |-> 0, ok |-> b] EXCEPT !.need = n]
                               = [at |-> "db", need |-> n, seen |-> 0, ok |-> b]
        OBVIOUS
    <3> QED
        BY <3>1, <3>2, <3>3, Zenon
  <2> QED
      BY <2>1, <2>2
<1>2. CASE AnswerUnbound(w, n)
  <2>1. Fits(0, DefaultTotal, n) \in BOOLEAN
      BY DEF Fits
  <2> QED
      BY <1>2, <2>1 DEF AnswerUnbound
<1> QED
  BY <1>1, <1>2

\* A step of the budget keeps the invariant.
LEMMA StepBInv ==
    ASSUME BInv, NEW w \in Workers, BudgetStep(w)
    PROVE  BInv'
<1> USE DEF BInv, BudgetTypeOK, ReadsStillFit
<1>1. ASSUME NEW n \in Sizes, StartReserve(w, n) \/ AnswerUnbound(w, n) PROVE BInv'
  <2>1. PICK a \in {"db", "done"}, yes \in BOOLEAN :
             rsv' = [rsv EXCEPT ![w] = [at |-> a, need |-> n, seen |-> 0, ok |-> yes]]
      BY <1>1, Started
  <2>2. UNCHANGED <<row, db, redis, local, granted, faults>>
      BY <1>1 DEF StartReserve, AnswerUnbound
  <2>3. [at |-> a, need |-> n, seen |-> 0, ok |-> yes] \in [at : Stages, need : Sizes \cup {0}, seen : Nat, ok : BOOLEAN]
      BY DEF Stages
  <2> QED
      BY <2>1, <2>2, <2>3
<1>2. ASSUME NEW yes \in BOOLEAN, rsv[w].at # "idle", Answer(w, yes),
             db' \in Nat, redis' \in Nat, local' \in [Workers -> Nat], row' = row, faults' = faults
      PROVE  BInv'
  <2>1. /\ rsv' \in [Workers -> [at : Stages, need : Sizes \cup {0}, seen : Nat, ok : BOOLEAN]]
        /\ granted' \in Nat /\ rsv'[w].at = "done" /\ rsv'[w].need \in Sizes
        /\ \A v \in Workers \ {w} : rsv'[v] = rsv[v]
      BY <1>2, AnswerKeeps
  <2> QED
      BY <1>2, <2>1
<1>3. CASE ReserveRow(w)
  <2>1. Fits(db, ProjectTotal, rsv[w].need) \in BOOLEAN
      BY DEF Fits
  <2>2. rsv[w].need \in Nat
      BY RsvTypes
  <2>3. db' \in Nat
      BY <1>3, <2>2 DEF ReserveRow
  <2> QED
      BY <1>2, <1>3, <2>1, <2>3 DEF ReserveRow
<1>4. CASE NoSuchRow(w) \/ WatchHash(w)
  BY <1>4 DEF NoSuchRow, WatchHash, Answer, Move, Fits, Stages
<1>5. CASE ExecHash(w)
  BY <1>5 DEF ExecHash, Answer, Move, Stages
<1>6. CASE ReserveLocal(w)
  <2>1. Fits(local[w], DefaultTotal, rsv[w].need) \in BOOLEAN
      BY DEF Fits
  <2>2. rsv[w].need \in Nat /\ local[w] \in Nat
      BY RsvTypes
  <2>3. local' \in [Workers -> Nat]
      BY <1>6, <2>2 DEF ReserveLocal
  <2> QED
      BY <1>2, <1>6, <2>1, <2>3 DEF ReserveLocal
<1>7. CASE RowFails(w)
  BY <1>7 DEF RowFails, Move, Fits, Stages
<1>8. CASE RedisFails(w)
  BY <1>8 DEF RedisFails, Move, Fits, Stages
<1>9. CASE TakeReservation(w)
  BY <1>9 DEF TakeReservation, NoReservation, Stages
<1> QED
  BY <1>1, <1>3, <1>4, <1>5, <1>6, <1>7, <1>8, <1>9 DEF BudgetStep, Reserve, StoreFails

\* Every step keeps the budget's invariant.
LEMMA NextBInv == BInv /\ [Next]_vars => BInv'
<1> SUFFICES ASSUME BInv, [Next]_vars PROVE BInv'
  OBVIOUS
<1>1. CASE NoBudgetStep
  BY <1>1 DEF NoBudgetStep, BInv, BudgetTypeOK, ReadsStillFit
<1> QED
  BY <1>1, DraftsUseTheBudget, StepBInv

\* The budget's invariant holds in every state.
LEMMA Invariance == Spec => []BInv
BY InitBInv, NextBInv, PTL DEF Spec

-----------------------------------------------------------------------------
(* What a step does to the stores.                                          *)
LEMMA StoresMove ==
    ASSUME BInv, [Next]_vars
    PROVE  /\ db' = db \/ \E n \in Sizes : db + n <= ProjectTotal /\ db' = db + n
           /\ redis' = redis \/ \E n \in Sizes : redis + n <= DefaultTotal /\ redis' = redis + n
           /\ \A w \in Workers : \/ local'[w] = local[w]
                                 \/ \E n \in Sizes : local[w] + n <= DefaultTotal /\ local'[w] = local[w] + n
<1>1. CASE NoBudgetStep
  BY <1>1 DEF NoBudgetStep
<1>2. ASSUME NEW v \in Workers, BudgetStep(v)
      PROVE  /\ db' = db \/ (db + rsv[v].need <= ProjectTotal /\ db' = db + rsv[v].need /\ rsv[v].at = "db")
             /\ \/ redis' = redis
                \/ redis + rsv[v].need <= DefaultTotal /\ redis' = redis + rsv[v].need /\ rsv[v].at = "exec"
             /\ \/ local' = local
                \/ /\ local[v] + rsv[v].need <= DefaultTotal /\ rsv[v].at = "local"
                   /\ local' = [local EXCEPT ![v] = @ + rsv[v].need]
  BY <1>2 DEF BudgetStep, StartReserve, AnswerUnbound, TakeReservation, Reserve, ReserveRow, NoSuchRow, WatchHash,
              ExecHash, ReserveLocal, StoreFails, RowFails, RedisFails, Fits, Move, BInv, BudgetTypeOK, ReadsStillFit
<1>3. ASSUME NEW v \in Workers, BudgetStep(v)
      PROVE  rsv[v].at # "idle" => rsv[v].need \in Sizes
  BY DEF BInv, BudgetTypeOK
<1>4. local \in [Workers -> Nat]
  BY DEF BInv, BudgetTypeOK
<1> QED
  BY <1>1, <1>2, <1>3, <1>4, DraftsUseTheBudget

(* The project's row, the Redis hash and every process's dictionary are     *)
(* ledgers, with as many drafts and failures as there may be: each takes a  *)
(* whole reservation or nothing, gives none back, and never exceeds its     *)
(* total (reserve_budget_persistent, governance.reserve_budget).            *)
THEOREM BudgetIsLedgers == Spec => StoresAreLedgers
<1>1. Init => RowLedger!Unspent /\ HashLedger!Unspent /\ \A w \in Workers : ProcessLedger(w)!Unspent
  BY DEF Init, BudgetInit, RowLedger!Unspent, HashLedger!Unspent, ProcessLedger!Unspent
<1>2. BInv /\ [Next]_vars =>
        /\ [RowLedger!Reservation]_db
        /\ [HashLedger!Reservation]_redis
        /\ [\A w \in Workers : [ProcessLedger(w)!Reservation]_(local[w])]_local
  <2> SUFFICES ASSUME BInv, [Next]_vars
               PROVE  /\ [RowLedger!Reservation]_db
                      /\ [HashLedger!Reservation]_redis
                      /\ [\A w \in Workers : [ProcessLedger(w)!Reservation]_(local[w])]_local
      OBVIOUS
  <2>1. /\ db \in Nat /\ redis \in Nat /\ \A w \in Workers : local[w] \in Nat
        /\ ProjectTotal \in Nat /\ DefaultTotal \in Nat /\ Sizes \subseteq Nat
      BY BudgetAssumption DEF BInv, BudgetTypeOK
  <2>2. [RowLedger!Reservation]_db
      BY <2>1, StoresMove DEF RowLedger!Reservation, RowLedger!reserve_budget, RowLedger!remaining
  <2>3. [HashLedger!Reservation]_redis
      BY <2>1, StoresMove DEF HashLedger!Reservation, HashLedger!reserve_budget, HashLedger!remaining
  <2>4. ASSUME NEW w \in Workers PROVE [ProcessLedger(w)!Reservation]_(local[w])
      BY <2>1, StoresMove DEF ProcessLedger!Reservation, ProcessLedger!reserve_budget, ProcessLedger!remaining
  <2> QED
      BY <2>2, <2>3, <2>4
<1> QED
  BY <1>1, <1>2, Invariance, PTL DEF Spec, StoresAreLedgers, RowLedger!LedgerSpec, HashLedger!LedgerSpec

-----------------------------------------------------------------------------
(* What the three stores together promise.                                  *)
LEMMA NextWithinTotals == BInv /\ StoresWithinTotals /\ [Next]_vars => StoresWithinTotals'
<1> SUFFICES ASSUME BInv, StoresWithinTotals, [Next]_vars PROVE StoresWithinTotals'
  OBVIOUS
<1>1. db' <= ProjectTotal /\ redis' <= DefaultTotal
  BY StoresMove DEF StoresWithinTotals, BInv, BudgetTypeOK
<1>2. ASSUME NEW w \in Workers PROVE local'[w] <= DefaultTotal
  BY StoresMove DEF StoresWithinTotals, BInv, BudgetTypeOK
<1> QED
  BY <1>1, <1>2 DEF StoresWithinTotals

\* While nothing failed, every step keeps the row the whole budget.
LEMMA NextRowIsTheBudget == BInv /\ RowIsTheBudget /\ [Next]_vars => RowIsTheBudget'
<1> SUFFICES ASSUME BInv, RowIsTheBudget, [Next]_vars, row', faults' = 0 PROVE RowIsTheBudget'
  BY DEF RowIsTheBudget
<1>1. CASE NoBudgetStep
  BY <1>1 DEF NoBudgetStep, RowIsTheBudget, BInv, BudgetTypeOK
<1>2. ASSUME NEW w \in Workers, BudgetStep(w) PROVE RowIsTheBudget'
  <2>1. row' = row /\ faults' \in {faults, faults + 1}
    <3>1. CASE StoreFails(w)
        BY <3>1 DEF StoreFails, RowFails, RedisFails
    <3>2. CASE ~StoreFails(w)
        BY <1>2, <3>2 DEF BudgetStep, StartReserve, AnswerUnbound, TakeReservation, Reserve, ReserveRow, NoSuchRow,
                          WatchHash, ExecHash, ReserveLocal
    <3> QED
        BY <3>1, <3>2
  <2>0. faults \in Nat
      BY DEF BInv, BudgetTypeOK
  <2>2. row /\ faults = 0 /\ faults' = faults
      BY <2>0, <2>1
  <2>3. granted = db /\ \A v \in Workers : rsv[v].at \notin {"watch", "exec", "local"}
      BY <2>2 DEF RowIsTheBudget
  <2>4. \/ \E n \in Sizes : StartReserve(w, n) \/ AnswerUnbound(w, n)
        \/ ReserveRow(w) \/ TakeReservation(w)
    <3>1. ~StoreFails(w)
        BY <2>0, <2>2 DEF StoreFails, RowFails, RedisFails
    <3>2. ~NoSuchRow(w) /\ ~WatchHash(w) /\ ~ExecHash(w) /\ ~ReserveLocal(w)
        BY <2>2, <2>3 DEF NoSuchRow, WatchHash, ExecHash, ReserveLocal
    <3> QED
        BY <1>2, <3>1, <3>2 DEF BudgetStep, Reserve
  <2>5. granted' = db'
      BY <2>3, <2>4 DEF StartReserve, AnswerUnbound, ReserveRow, TakeReservation, Answer
  <2>6. ASSUME NEW v \in Workers PROVE rsv'[v].at \notin {"watch", "exec", "local"}
    <3>1. CASE v = w
      <4>1. rsv[w] \in [at : Stages, need : Sizes \cup {0}, seen : Nat, ok : BOOLEAN]
          BY RsvTypes
      <4>2. rsv'[w].at \in {"db", "done", "idle"}
        <5>1. rsv \in [Workers -> [at : Stages, need : Sizes \cup {0}, seen : Nat, ok : BOOLEAN]]
            BY DEF BInv, BudgetTypeOK
        <5>2. CASE \E n \in Sizes : StartReserve(w, n) \/ AnswerUnbound(w, n)
            BY <5>1, <5>2, Started
        <5>3. CASE ReserveRow(w)
            BY <5>1, <5>3 DEF ReserveRow, Answer
        <5>4. CASE TakeReservation(w)
            BY <5>1, <5>4 DEF TakeReservation, NoReservation
        <5> QED
            BY <2>4, <5>2, <5>3, <5>4
      <4> QED
          BY <3>1, <4>2
    <3>2. CASE v # w
      <4>1. rsv'[v] = rsv[v]
          BY <2>4, <3>2 DEF StartReserve, AnswerUnbound, ReserveRow, TakeReservation, Answer, BInv, BudgetTypeOK
      <4> QED
          BY <2>3, <4>1
    <3> QED
        BY <3>1, <3>2
  <2> QED
      BY <2>5, <2>6 DEF RowIsTheBudget
<1> QED
  BY <1>1, <1>2, DraftsUseTheBudget

(* No store lends beyond its total, and as long as no store fails a project *)
(* that has a row spends no more than that row says, however many workers   *)
(* reserve at once (reserve_budget_persistent).                             *)
THEOREM BudgetIsKept == Spec => []BudgetHolds
<1>1. Init => StoresWithinTotals /\ RowIsTheBudget
  BY DEF Init, BudgetInit, StoresWithinTotals, RowIsTheBudget, NoReservation
<1>2. BInv /\ StoresWithinTotals /\ RowIsTheBudget => BudgetHolds
  BY DEF BInv, BudgetHolds
<1> QED
  BY <1>1, <1>2, Invariance, NextWithinTotals, NextRowIsTheBudget, PTL DEF Spec


-----------------------------------------------------------------------------
DraftFields ==
    {"at", "req", "ids", "mapped", "near", "text", "unbound", "approved", "status", "cached", "linked"}

IsDraft(j) == DOMAIN j = DraftFields /\ j = [f \in DraftFields |-> j[f]]

Reviewing(r) == r.enable_review \/ select_generation_plan(r).critical

(* Sound, and without prices.                                               *)
Passed(j) ==
    /\ j.ids # {} /\ j.text.grounded /\ ~j.near /\ ~j.unbound
    /\ ~CoverageTooLow(j.mapped, Subs, j.req.must)
    /\ detect_global_fact_conflicts(j.req.facts, extract_with_rules(j.text)) = {}
    /\ disqualify_level_missing(j.text, Conditions(j.req)) = {}
    /\ ~detect_pricing_content(j.text.pricing)

(* What a draft has passed at each point of its way.                        *)
DraftOK(j) ==
    /\ IsDraft(j) /\ j.ids \subseteq Evidence
    /\ j.at # "idle" => j.req \in Requests
    /\ j.at \in {"lookup", "generate", "reserve"} => ~j.cached
    /\ j.at \in {"store", "links", "write"} => j.status = "SUPPORTED" /\ ~j.cached
    /\ j.at \in {"reserve", "store", "links", "write", "reply"} /\ j.status = "SUPPORTED" =>
          /\ ~j.cached => Passed(j)
          /\ ~detect_pricing_content(j.text.pricing)
    /\ j.at \in {"store", "links", "write", "reply"} /\ j.status = "SUPPORTED" =>
          (Reviewing(j.req) => ~j.cached /\ j.approved)

JobsOK ==
    /\ job = [w \in Workers |-> job[w]]
    /\ \A w \in Workers : DraftOK(job[w])

CacheOK(c) ==
    /\ c = [k \in Keys |-> c[k]]
    /\ \A k \in Keys : CheckedEntry(k, c[k])

CachesOK ==
    /\ CacheOK(shared)
    /\ private = [w \in Workers |-> private[w]]
    /\ \A w \in Workers : CacheOK(private[w])

DInv == JobsOK /\ CachesOK

-----------------------------------------------------------------------------
(* A refusal is no supported draft.                                         *)
LEMMA RefusalOK ==
    ASSUME NEW r \in Requests, NEW status, status # "SUPPORTED"
    PROVE  DraftOK(Refusal(r, status)) /\ DraftOK([Refusal(r, status) EXCEPT !.at = "reserve"])
<1>1. IsDraft(NoDraft) /\ NoDraft.cached = FALSE /\ NoDraft.ids = {}
  BY DEF IsDraft, DraftFields, NoDraft
<1>2. /\ IsDraft(Refusal(r, status)) /\ Refusal(r, status).at = "reply"
      /\ Refusal(r, status).req = r /\ Refusal(r, status).status = status /\ Refusal(r, status).cached = FALSE
      /\ Refusal(r, status).ids = {}
  BY <1>1 DEF IsDraft, DraftFields, Refusal
<1> DEFINE n == [Refusal(r, status) EXCEPT !.at = "reserve"]
<1>3. IsDraft(n) /\ n.at = "reserve" /\ n.req = r /\ n.status = status /\ n.cached = FALSE /\ n.ids = {}
  BY <1>2 DEF IsDraft, DraftFields
<1> HIDE DEF n
<1>4. DraftOK(Refusal(r, status)) /\ DraftOK(n)
  BY <1>2, <1>3 DEF DraftOK
<1> QED
  BY <1>4 DEF n

(* What the judgements let through has passed them.                         *)
LEMMA JudgedOK ==
    ASSUME NEW j, IsDraft(j), j.ids \subseteq Evidence, j.req \in Requests, ~j.cached
    PROVE  DraftOK(Judged(j))
<1>1. CASE Verdict(j) = "SUPPORTED"
  <2>1. Passed(j)
      BY <1>1 DEF Passed, Verdict, HumanNeeded, run_three_gates, gate1_evidence_binding, gate2_deterministic_check
  <2>2. Judged(j) = [j EXCEPT !.at = "reserve", !.status = "SUPPORTED"]
      BY <1>1 DEF Judged
  <2> DEFINE n == [j EXCEPT !.at = "reserve", !.status = "SUPPORTED"]
  <2>3. IsDraft(n) /\ n.at = "reserve" /\ n.req = j.req /\ ~n.cached
        /\ n.ids = j.ids /\ n.mapped = j.mapped /\ n.near = j.near /\ n.text = j.text /\ n.unbound = j.unbound
      BY DEF IsDraft, DraftFields
  <2> HIDE DEF n
  <2>4. Passed(n)
      BY <2>1, <2>3 DEF Passed
  <2>5. ~detect_pricing_content(n.text.pricing)
      BY <2>4 DEF Passed
  <2> QED
      BY <2>2, <2>3, <2>4, <2>5 DEF DraftOK, n
<1>2. CASE Verdict(j) # "SUPPORTED"
  BY <1>2, RefusalOK DEF Judged
<1> QED
  BY <1>1, <1>2

(* A draft that moves on keeps what it has passed.                          *)
LEMMA MovedOK ==
    ASSUME NEW j, DraftOK(j), NEW from, j.at = from, NEW to,
           \/ from = "lookup" /\ to = "generate"
           \/ from \in {"store", "links", "write"} /\ to \in {"links", "write", "reply"}
    PROVE  DraftOK([j EXCEPT !.at = to])
<1> DEFINE n == [j EXCEPT !.at = to]
<1>1. /\ IsDraft(n) /\ n.at = to /\ n.req = j.req /\ n.cached = j.cached /\ n.status = j.status
      /\ n.ids = j.ids /\ n.mapped = j.mapped /\ n.near = j.near /\ n.text = j.text
      /\ n.unbound = j.unbound /\ n.approved = j.approved
  BY DEF DraftOK, IsDraft, DraftFields
<1> HIDE DEF n
<1>2. Passed(j) => Passed(n)
  BY <1>1 DEF Passed
<1>3. DraftOK(n)
  BY <1>1, <1>2 DEF DraftOK
<1> QED
  BY <1>3 DEF n

(* A worker whose draft is one such leaves all the drafts so.               *)
LEMMA SetOK ==
    ASSUME JobsOK, NEW w \in Workers, NEW j, DraftOK(j), job' = [job EXCEPT ![w] = j]
    PROVE  JobsOK'
<1>1. job' = [v \in Workers |-> IF v = w THEN j ELSE job[v]]
  BY DEF JobsOK
<1>2. \A v \in Workers : job'[v] = IF v = w THEN j ELSE job[v]
  BY <1>1
<1>3. job' = [v \in Workers |-> job'[v]]
  BY <1>1
<1>4. \A v \in Workers : DraftOK(job'[v])
  BY <1>2 DEF JobsOK
<1> QED
  BY <1>3, <1>4 DEF JobsOK, DraftOK, IsDraft, DraftFields, Passed, Reviewing

(* The key of a request is one of the cache's.                              *)
LEMMA KeyOK ==
    ASSUME JobsOK, NEW w \in Workers, job[w].at # "idle"
    PROVE  /\ Key(w) \in Keys /\ Key(w).reviewed = Reviewing(job[w].req) /\ Key(w).ids = job[w].ids
           /\ ReviewRequired(w) = Reviewing(job[w].req)
<1>1. job[w].req \in Requests /\ job[w].ids \subseteq Evidence
  BY DEF JobsOK, DraftOK
<1>2. ReviewRequired(w) = Reviewing(job[w].req)
  BY DEF ReviewRequired, Reviewing, Plan, Req
<1>3. ReviewRequired(w) \in BOOLEAN
  BY DEF ReviewRequired
<1>4. job[w].req.project \in BOOLEAN
  BY <1>1, RequestsAssumption
<1> QED
  BY <1>1, <1>2, <1>3, <1>4 DEF Key, Keys, build_cache_key, Req

(* An entry that is used is one of the cache's.                             *)
LEMMA UsedOK ==
    ASSUME JobsOK, NEW w \in Workers, At(w, "lookup"), NEW e, CheckedEntry(Key(w), e), UseEntry(w, e)
    PROVE  JobsOK'
<1>1. DraftOK(job[w]) /\ job[w].at = "lookup" /\ ReviewRequired(w) = Reviewing(job[w].req)
  BY KeyOK DEF JobsOK, At
<1>2. CASE e # NoEntry /\ ~ReviewRequired(w)
  <2> DEFINE n == [job[w] EXCEPT !.at = "reply", !.cached = TRUE, !.status = e.status, !.text = e.text]
  <2>1. IsDraft(n) /\ n.at = "reply" /\ n.cached /\ n.text = e.text /\ n.req = job[w].req /\ n.ids = job[w].ids
      BY <1>1 DEF DraftOK, IsDraft, DraftFields
  <2>2. job' = [job EXCEPT ![w] = n]
      BY <1>2 DEF UseEntry
  <2> HIDE DEF n
  <2>3. ~detect_pricing_content(n.text.pricing)
      BY <1>2, <2>1 DEF CheckedEntry
  <2>4. DraftOK(n)
      BY <1>1, <1>2, <2>1, <2>3 DEF DraftOK
  <2> QED
      BY <2>2, <2>4, SetOK
<1>3. CASE ~(e # NoEntry /\ ~ReviewRequired(w))
  <2>1. job' = [job EXCEPT ![w] = [job[w] EXCEPT !.at = "generate"]]
      BY <1>3 DEF UseEntry
  <2>2. DraftOK([job[w] EXCEPT !.at = "generate"])
      BY <1>1, MovedOK
  <2> QED
      BY <2>1, <2>2, SetOK
<1> QED
  BY <1>2, <1>3

(* Retrieval hands on no more than the evidence there is.                   *)
LEMMA RetrievedOK ==
    ASSUME NEW r \in Requests, NEW n
    PROVE  DraftOK(Retrieved(r, n))
<1>1. IsDraft(NoDraft) /\ NoDraft.cached = FALSE
  BY DEF IsDraft, DraftFields, NoDraft
<1> DEFINE ids == IF n = 0 THEN {} ELSE Evidence
           near == (n > 0 /\ age = "near")
           j == [NoDraft EXCEPT !.at = "lookup", !.req = r, !.mapped = n, !.ids = ids, !.near = near]
<1> HIDE DEF ids, near
<1>2. IsDraft(j) /\ j.at = "lookup" /\ j.req = r /\ j.cached = FALSE /\ j.ids = ids
  BY <1>1 DEF IsDraft, DraftFields
<1>3. j = Retrieved(r, n)
  BY DEF Retrieved, ids, near
<1>4. ids \subseteq Evidence
  BY DEF ids
<1> HIDE DEF j
<1> QED
  BY <1>2, <1>3, <1>4 DEF DraftOK

(* A text is judged before it is supported.                                 *)
LEMMA WriteOK ==
    ASSUME JobsOK, NEW w \in Workers, Write(w)
    PROVE  JobsOK'
<1>1. DraftOK(job[w]) /\ job[w].at = "generate"
  BY DEF JobsOK, Write, At
<1>2. PICK g \in Generated(w) : \E text \in Enhanced(w, g.text) :
          \/ job' = [job EXCEPT ![w] = Refusal(Req(w), "NEED_HUMAN_INPUT")]
          \/ job' = [job EXCEPT ![w] = Judged([job[w] EXCEPT !.text = text, !.unbound = g.unbound])]
  BY DEF Write
<1>3. PICK text \in Enhanced(w, g.text) :
          \/ job' = [job EXCEPT ![w] = Refusal(Req(w), "NEED_HUMAN_INPUT")]
          \/ job' = [job EXCEPT ![w] = Judged([job[w] EXCEPT !.text = text, !.unbound = g.unbound])]
  BY <1>2
<1>4. DraftOK(Refusal(Req(w), "NEED_HUMAN_INPUT"))
  BY <1>1, RefusalOK DEF DraftOK, Req
<1> DEFINE n == [job[w] EXCEPT !.text = text, !.unbound = g.unbound]
<1>5. IsDraft(n) /\ n.ids = job[w].ids /\ n.req = job[w].req /\ n.cached = job[w].cached
  BY <1>1 DEF DraftOK, IsDraft, DraftFields
<1>6. job' = [job EXCEPT ![w] = Refusal(Req(w), "NEED_HUMAN_INPUT")] \/ job' = [job EXCEPT ![w] = Judged(n)]
  BY <1>3
<1> HIDE DEF n
<1>7. DraftOK(Judged(n))
  BY <1>1, <1>5, JudgedOK DEF DraftOK
<1> QED
  BY <1>4, <1>6, <1>7, SetOK

(* Where a review is required, only an approval leads on.                   *)
LEMMA ReviewOK ==
    ASSUME JobsOK, NEW w \in Workers, Review(w)
    PROVE  JobsOK'
<1>1. DraftOK(job[w]) /\ job[w].at = "reserve" /\ ReviewRequired(w) = Reviewing(job[w].req)
  BY KeyOK DEF JobsOK, Review, At
<1>2. PICK approved \in IF Reviewed(w) THEN BOOLEAN ELSE {FALSE} :
         job' = [job EXCEPT ![w] =
           IF Reviewed(w) /\ ~approved THEN Refusal(Req(w), "NEED_HUMAN_INPUT")
           ELSE IF job[w].status = "SUPPORTED" THEN [job[w] EXCEPT !.at = "store", !.approved = approved]
           ELSE [job[w] EXCEPT !.at = "reply"]]
  BY DEF Review
<1>3. CASE Reviewed(w) /\ ~approved
  <2>1. DraftOK(Refusal(Req(w), "NEED_HUMAN_INPUT"))
      BY <1>1, RefusalOK DEF DraftOK, Req
  <2> QED
      BY <1>2, <1>3, <2>1, SetOK
<1>4. CASE ~(Reviewed(w) /\ ~approved) /\ job[w].status = "SUPPORTED"
  <2> DEFINE n == [job[w] EXCEPT !.at = "store", !.approved = approved]
  <2>1. /\ IsDraft(n) /\ n.at = "store" /\ n.req = job[w].req /\ n.cached = job[w].cached
        /\ n.status = job[w].status /\ n.ids = job[w].ids /\ n.mapped = job[w].mapped
        /\ n.near = job[w].near /\ n.text = job[w].text /\ n.unbound = job[w].unbound /\ n.approved = approved
      BY <1>1 DEF DraftOK, IsDraft, DraftFields
  <2>2. job' = [job EXCEPT ![w] = n]
      BY <1>2, <1>4
  <2> HIDE DEF n
  <2>3. Passed(job[w]) => Passed(n)
      BY <2>1 DEF Passed
  <2>4. Reviewing(n.req) => n.approved
      BY <1>1, <1>4, <2>1 DEF Reviewed
  <2>5. DraftOK(n)
      BY <1>1, <1>4, <2>1, <2>3, <2>4 DEF DraftOK
  <2> QED
      BY <2>2, <2>5, SetOK
<1>5. CASE ~(Reviewed(w) /\ ~approved) /\ job[w].status # "SUPPORTED"
  <2> DEFINE n == [job[w] EXCEPT !.at = "reply"]
  <2>1. IsDraft(n) /\ n.at = "reply" /\ n.req = job[w].req /\ n.status = job[w].status /\ n.ids = job[w].ids
      BY <1>1 DEF DraftOK, IsDraft, DraftFields
  <2>2. job' = [job EXCEPT ![w] = n]
      BY <1>2, <1>5
  <2> HIDE DEF n
  <2>3. DraftOK(n)
      BY <1>1, <1>5, <2>1 DEF DraftOK
  <2> QED
      BY <2>2, <2>3, SetOK
<1> QED
  BY <1>3, <1>4, <1>5

(* Reading the links changes nothing of what a draft has passed.            *)
LEMMA ReadLinksOK ==
    ASSUME JobsOK, NEW w \in Workers, ReadLinks(w)
    PROVE  JobsOK'
<1>1. DraftOK(job[w]) /\ job[w].at = "links"
  BY DEF JobsOK, ReadLinks, At
<1>2. CASE Req(w).project
  <2> DEFINE n == [job[w] EXCEPT !.at = "write", !.linked = links[Req(w).section]]
  <2>1. /\ IsDraft(n) /\ n.at = "write" /\ n.req = job[w].req /\ n.cached = job[w].cached
        /\ n.status = job[w].status /\ n.ids = job[w].ids /\ n.mapped = job[w].mapped /\ n.approved = job[w].approved
        /\ n.near = job[w].near /\ n.text = job[w].text /\ n.unbound = job[w].unbound
      BY <1>1 DEF DraftOK, IsDraft, DraftFields
  <2>2. job' = [job EXCEPT ![w] = n]
      BY <1>2 DEF ReadLinks
  <2> HIDE DEF n
  <2>3. Passed(job[w]) => Passed(n)
      BY <2>1 DEF Passed
  <2>4. DraftOK(n)
      BY <1>1, <2>1, <2>3 DEF DraftOK
  <2> QED
      BY <2>2, <2>4, SetOK
<1>3. CASE ~Req(w).project
  <2>1. job' = [job EXCEPT ![w] = [job[w] EXCEPT !.at = "reply"]]
      BY <1>3 DEF ReadLinks
  <2>2. DraftOK([job[w] EXCEPT !.at = "reply"])
      BY <1>1, MovedOK
  <2> QED
      BY <2>1, <2>2, SetOK
<1> QED
  BY <1>2, <1>3

(* Every step keeps the drafts right.                                       *)
LEMMA NextJobs ==
    ASSUME DInv, [Next]_vars
    PROVE  JobsOK'
<1>1. CASE UNCHANGED job
  BY <1>1 DEF DInv, JobsOK, DraftOK, IsDraft, Passed, Reviewing
<1>2. ASSUME NEW w \in Workers, Write(w) \/ Review(w) \/ ReadLinks(w) PROVE JobsOK'
  BY <1>2, WriteOK, ReviewOK, ReadLinksOK DEF DInv
<1>3. ASSUME NEW w \in Workers, get_cache(w) \/ get_cache_fails(w) PROVE JobsOK'
  <2>1. At(w, "lookup") /\ Key(w) \in Keys
      BY <1>3, KeyOK DEF get_cache, get_cache_fails, At, DInv
  <2>2. CheckedEntry(Key(w), shared[Key(w)]) /\ CheckedEntry(Key(w), private[w][Key(w)])
      BY <2>1 DEF DInv, CachesOK, CacheOK
  <2>3. \/ UseEntry(w, shared[Key(w)])
        \/ UseEntry(w, private[w][Key(w)])
      BY <1>3 DEF get_cache, get_cache_fails
  <2> QED
      BY <2>1, <2>2, <2>3, UsedOK DEF DInv
<1>4. ASSUME NEW w \in Workers, set_cache(w) \/ set_cache_fails(w) \/ WriteLinks(w) \/ WriteLinksFails(w)
      PROVE  JobsOK'
  <2>1. PICK to \in {"links", "reply"} : job[w].at \in {"store", "write"} /\ job' = [job EXCEPT ![w] = [job[w] EXCEPT !.at = to]]
      BY <1>4 DEF set_cache, set_cache_fails, WriteLinks, WriteLinksFails, At, GoTo
  <2>2. DraftOK(job[w])
      BY DEF DInv, JobsOK
  <2>3. DraftOK([job[w] EXCEPT !.at = to])
      BY <2>1, <2>2, MovedOK
  <2> QED
      BY <2>1, <2>3, SetOK DEF DInv
<1>5. ASSUME NEW w \in Workers, Return(w) PROVE JobsOK'
  <2>1. DraftOK(NoDraft)
      BY DEF NoDraft, DraftOK, IsDraft, DraftFields
  <2> QED
      BY <1>5, <2>1, SetOK DEF Return, DInv
<1>6. ASSUME NEW w \in Workers, NEW r \in Requests, Start(w, r) \/ StartFails(w, r) PROVE JobsOK'
  <2>1. \/ job' = [job EXCEPT ![w] = Refusal(r, "BLOCKED_PRICING_CONTENT")]
        \/ job' = [job EXCEPT ![w] = Refusal(r, "ERROR")]
        \/ \E n \in {0} \cup (0..Subs) : job' = [job EXCEPT ![w] = Retrieved(r, n)]
      BY <1>6 DEF Start, StartFails
  <2> QED
      BY <2>1, RefusalOK, RetrievedOK, SetOK DEF DInv
<1>7. ASSUME NEW w \in Workers,
             Budget(w) \/ BudgetFails(w) \/ invalidate_cache(w) \/ invalidate_cache_fails(w)
      PROVE  UNCHANGED job
  BY <1>7 DEF Budget, BudgetFails, invalidate_cache, invalidate_cache_fails, draftVars
<1>8. CASE (\E k \in Keys : Expire(k)) \/ EvidenceAges \/ UNCHANGED vars
  BY <1>1, <1>8 DEF Expire, EvidenceAges, vars, draftVars
<1> QED
  BY <1>1, <1>2, <1>3, <1>4, <1>5, <1>6, <1>7, <1>8 DEF Next, Work, Faulty

-----------------------------------------------------------------------------
(* A tier of the cache takes what may be in it.                             *)
LEMMA EntryOK ==
    ASSUME NEW c, CacheOK(c), NEW key, NEW e, CheckedEntry(key, e)
    PROVE  CacheOK([c EXCEPT ![key] = e])
<1> DEFINE d == [c EXCEPT ![key] = e]
<1>1. d = [k \in Keys |-> IF k = key THEN e ELSE c[k]]
  BY DEF CacheOK
<1> HIDE DEF d
<1>2. d = [k \in Keys |-> d[k]] /\ \A k \in Keys : d[k] = IF k = key THEN e ELSE c[k]
  BY <1>1
<1>3. \A k \in Keys : CheckedEntry(k, d[k])
  BY <1>2 DEF CacheOK
<1>4. CacheOK(d)
  BY <1>2, <1>3 DEF CacheOK
<1> QED
  BY <1>4 DEF d

(* A tier without entries.                                                  *)
LEMMA EmptyOK == CacheOK([k \in Keys |-> NoEntry])
BY DEF CacheOK, CheckedEntry

(* What one process does to its own entries leaves the others' alone.       *)
LEMMA PrivateOK ==
    ASSUME CachesOK, NEW w \in Workers, NEW c, CacheOK(c), private' = [private EXCEPT ![w] = c]
    PROVE  private' = [v \in Workers |-> private'[v]] /\ \A v \in Workers : CacheOK(private'[v])
<1>1. private' = [v \in Workers |-> IF v = w THEN c ELSE private[v]]
  BY DEF CachesOK
<1>2. \A v \in Workers : private'[v] = IF v = w THEN c ELSE private[v]
  BY <1>1
<1>3. private' = [v \in Workers |-> private'[v]]
  BY <1>1
<1>4. \A v \in Workers : CacheOK(private'[v])
  BY <1>2 DEF CachesOK
<1> QED
  BY <1>3, <1>4

(* What a worker stores has been checked.                                   *)
LEMMA StoredOK ==
    ASSUME DInv, NEW w \in Workers, At(w, "store"), Cacheable(w)
    PROVE  CheckedEntry(Key(w), Entry(w))
<1>1. DraftOK(job[w]) /\ job[w].at = "store"
  BY DEF DInv, JobsOK, At
<1>2. Key(w).reviewed = Reviewing(job[w].req) /\ Key(w).ids = job[w].ids /\ ~Reviewing(job[w].req)
  BY <1>1, KeyOK DEF DInv, Cacheable
<1>3. Passed(job[w]) /\ job[w].status = "SUPPORTED"
  BY <1>1 DEF DraftOK
<1> QED
  BY <1>2, <1>3 DEF Entry, CheckedEntry, Passed

(* Every step keeps both tiers right.                                       *)
LEMMA NextCaches ==
    ASSUME DInv, [Next]_vars
    PROVE  CachesOK'
<1> USE DEF DInv
<1>1. ASSUME UNCHANGED <<shared, private>> PROVE CachesOK'
  BY <1>1 DEF CachesOK, CacheOK, CheckedEntry
<1>2. ASSUME CacheOK(shared'), private' = [v \in Workers |-> private'[v]],
             \A v \in Workers : CacheOK(private'[v])
      PROVE  CachesOK'
  BY <1>2 DEF CachesOK, CacheOK, CheckedEntry
<1>3. ASSUME UNCHANGED private, CacheOK(shared') PROVE CachesOK'
  BY <1>2, <1>3 DEF CachesOK
<1>4. ASSUME CacheOK(shared'), NEW w \in Workers, NEW c, CacheOK(c), private' = [private EXCEPT ![w] = c]
      PROVE  CachesOK'
  BY <1>2, <1>4, PrivateOK
<1>5. ASSUME NEW w \in Workers, set_cache(w) PROVE CachesOK'
  <2>1. CASE Cacheable(w)
    <3>1. CheckedEntry(Key(w), Entry(w))
        BY <1>5, <2>1, StoredOK DEF set_cache
    <3>2. shared' = [shared EXCEPT ![Key(w)] = Entry(w)] /\ UNCHANGED private
        BY <1>5, <2>1 DEF set_cache
    <3>3. CacheOK(shared')
        BY <3>1, <3>2, EntryOK DEF CachesOK
    <3> QED
        BY <1>3, <3>2, <3>3
  <2>2. CASE ~Cacheable(w)
      BY <1>1, <1>5, <2>2 DEF set_cache
  <2> QED
      BY <2>1, <2>2
<1>6. ASSUME NEW w \in Workers, set_cache_fails(w) PROVE CachesOK'
  <2>1. CheckedEntry(Key(w), Entry(w)) /\ UNCHANGED shared
      BY <1>6, StoredOK DEF set_cache_fails
  <2>2. private' = [private EXCEPT ![w] = [private[w] EXCEPT ![Key(w)] = Entry(w)]]
      BY <1>6 DEF set_cache_fails
  <2>3. CacheOK([private[w] EXCEPT ![Key(w)] = Entry(w)])
      BY <2>1, EntryOK DEF CachesOK
  <2> QED
      BY <1>4, <2>1, <2>2, <2>3 DEF CachesOK
<1>7. ASSUME NEW k \in Keys, Expire(k) PROVE CachesOK'
  <2>1. CheckedEntry(k, NoEntry)
      BY DEF CheckedEntry
  <2>2. CASE shared' = [shared EXCEPT ![k] = NoEntry] /\ UNCHANGED private
      BY <1>3, <2>1, <2>2, EntryOK DEF CachesOK
  <2>3. CASE \E w \in Workers : private' = [private EXCEPT ![w][k] = NoEntry] /\ UNCHANGED shared
    <3>1. PICK w \in Workers : private' = [private EXCEPT ![w] = [private[w] EXCEPT ![k] = NoEntry]] /\ UNCHANGED shared
        BY <2>3
    <3>2. CacheOK([private[w] EXCEPT ![k] = NoEntry])
        BY <2>1, EntryOK DEF CachesOK
    <3> QED
        BY <1>4, <3>1, <3>2 DEF CachesOK
  <2> QED
      BY <1>7, <2>2, <2>3 DEF Expire
<1>8. ASSUME NEW w \in Workers, invalidate_cache(w) \/ invalidate_cache_fails(w) PROVE CachesOK'
  <2>1. CacheOK(shared')
      BY <1>8, EmptyOK DEF invalidate_cache, invalidate_cache_fails, CachesOK
  <2>2. private' = [private EXCEPT ![w] = [k \in Keys |-> NoEntry]]
      BY <1>8 DEF invalidate_cache, invalidate_cache_fails, ClearOwn
  <2> QED
      BY <1>4, <2>1, <2>2, EmptyOK
<1>9. ASSUME NEW w \in Workers,
             \/ Write(w) \/ Review(w) \/ ReadLinks(w) \/ get_cache(w) \/ get_cache_fails(w) \/ WriteLinks(w)
             \/ WriteLinksFails(w) \/ Return(w) \/ Budget(w) \/ BudgetFails(w)
      PROVE  UNCHANGED <<shared, private>>
  BY <1>9 DEF Write, Review, ReadLinks, get_cache, get_cache_fails, WriteLinks, WriteLinksFails, Return, Budget,
              BudgetFails, draftVars
<1>10. ASSUME NEW w \in Workers, NEW r \in Requests, Start(w, r) \/ StartFails(w, r)
       PROVE  UNCHANGED <<shared, private>>
  BY <1>10 DEF Start, StartFails
<1>11. CASE EvidenceAges \/ UNCHANGED vars
  BY <1>1, <1>11 DEF EvidenceAges, vars, draftVars
<1> QED
  BY <1>1, <1>5, <1>6, <1>7, <1>8, <1>9, <1>10, <1>11 DEF Next, Work, Faulty

(* No draft is under way at first, and both tiers are empty.                *)
LEMMA InitDInv == Init => DInv
<1> SUFFICES ASSUME Init PROVE DInv
  OBVIOUS
<1>1. DraftOK(NoDraft)
  BY DEF NoDraft, DraftOK, IsDraft, DraftFields
<1>2. JobsOK
  BY <1>1 DEF Init, JobsOK
<1>3. CachesOK
  BY EmptyOK DEF Init, CachesOK
<1> QED
  BY <1>2, <1>3 DEF DInv

\* What drafts and caches hold has been checked, in every state.
LEMMA DraftInvariance == Spec => []DInv
<1>1. DInv /\ [Next]_vars => DInv'
  BY NextJobs, NextCaches DEF DInv
<1> QED
  BY <1>1, InitDInv, PTL DEF Spec

(* A draft answered as SUPPORTED passed every judgement for its own request *)
(* and was approved where a review is asked for, whatever the texts, the    *)
(* requests and the store failures (generate_draft_with_retrieval).         *)
THEOREM SupportedIsSound == Spec => []SupportedIsJustified
<1>1. DInv => SupportedIsJustified
  <2> SUFFICES ASSUME DInv, NEW w \in Workers, Supported(w)
               PROVE  /\ ~detect_pricing_content(job[w].text.pricing)
                      /\ ReviewRequired(w) => ~job[w].cached /\ job[w].approved
                      /\ ~job[w].cached => Sound(w)
      BY DEF SupportedIsJustified
  <2>1. DraftOK(job[w]) /\ job[w].at = "reply" /\ job[w].status = "SUPPORTED"
      BY DEF DInv, JobsOK, Supported, At
  <2>2. ReviewRequired(w) = Reviewing(job[w].req)
      BY <2>1, KeyOK DEF DInv
  <2> QED
      BY <2>1, <2>2 DEF DraftOK, Passed, Sound
<1> QED
  BY <1>1, DraftInvariance, PTL

-----------------------------------------------------------------------------
(* The workers about to link the evidence of a section.                     *)
Linking(s) == {w \in Workers : job[w].at = "write" /\ job[w].req.section = s /\ job[w].linked = 0}

(* Once a section is linked, only those who read it before can link it.     *)
LinksOK ==
    /\ links = [s \in Sections |-> links[s]]
    /\ \A s \in Sections :
         /\ links[s] \in Nat
         /\ links[s] # 0 => links[s] + Cardinality(Linking(s)) <= Cardinality(Workers)

(* How many are about to link a section.                                    *)
LEMMA LinkingSize ==
    ASSUME NEW s
    PROVE  /\ IsFiniteSet(Linking(s)) /\ Cardinality(Linking(s)) \in Nat /\ Cardinality(Workers) \in Nat
           /\ Cardinality(Linking(s)) <= Cardinality(Workers)
<1>1. Linking(s) \subseteq Workers
  BY DEF Linking
<1> QED
  BY <1>1, WorkersAssumption, FS_Subset, FS_CardinalityType

(* Only a worker that has just read the links starts to write them.         *)
LEMMA OnlyReadersLink ==
    ASSUME DInv, [Next]_vars, NEW v \in Workers, job'[v].at = "write", job'[v] # job[v]
    PROVE  ReadLinks(v)
<1>1. job = [w \in Workers |-> job[w]] /\ \A w \in Workers : IsDraft(job[w])
  BY DEF DInv, JobsOK, DraftOK
<1>2. ASSUME NEW w \in Workers, NEW n, job' = [job EXCEPT ![w] = n] PROVE v = w /\ n.at = "write"
  <2>1. job' = [u \in Workers |-> IF u = w THEN n ELSE job[u]]
      BY <1>1, <1>2
  <2> QED
      BY <2>1
<1>3. ASSUME NEW w \in Workers, NEW to, to # "write", job' = [job EXCEPT ![w] = [job[w] EXCEPT !.at = to]] PROVE FALSE
  <2>1. [job[w] EXCEPT !.at = to].at = to
      BY <1>1 DEF IsDraft, DraftFields
  <2> QED
      BY <1>2, <1>3, <2>1
<1>4. ASSUME NEW w \in Workers, Write(w) PROVE FALSE
  <2>1. ASSUME NEW r, NEW st PROVE Refusal(r, st).at = "reply" /\ [Refusal(r, st) EXCEPT !.at = "reserve"].at = "reserve"
      BY DEF Refusal, NoDraft
  <2>2. PICK g \in Generated(w) : \E text \in Enhanced(w, g.text) :
          \/ job' = [job EXCEPT ![w] = Refusal(Req(w), "NEED_HUMAN_INPUT")]
          \/ job' = [job EXCEPT ![w] = Judged([job[w] EXCEPT !.text = text, !.unbound = g.unbound])]
      BY <1>4 DEF Write
  <2>3. PICK text \in Enhanced(w, g.text) :
          \/ job' = [job EXCEPT ![w] = Refusal(Req(w), "NEED_HUMAN_INPUT")]
          \/ job' = [job EXCEPT ![w] = Judged([job[w] EXCEPT !.text = text, !.unbound = g.unbound])]
      BY <2>2
  <2> DEFINE j == [job[w] EXCEPT !.text = text, !.unbound = g.unbound]
  <2>4. IsDraft(j)
      BY <1>1 DEF IsDraft, DraftFields
  <2>5. job' = [job EXCEPT ![w] = Refusal(Req(w), "NEED_HUMAN_INPUT")] \/ job' = [job EXCEPT ![w] = Judged(j)]
      BY <2>3
  <2> HIDE DEF j
  <2>6. [j EXCEPT !.at = "reserve", !.status = "SUPPORTED"].at = "reserve"
      BY <2>4 DEF IsDraft, DraftFields
  <2>7. Judged(j).at = "reserve"
      BY <2>1, <2>6 DEF Judged
  <2> QED
      BY <1>2, <2>1, <2>5, <2>7
<1>5. ASSUME NEW w \in Workers, Review(w) PROVE FALSE
  <2>1. Refusal(Req(w), "NEED_HUMAN_INPUT").at = "reply"
      BY DEF Refusal, NoDraft
  <2>2. PICK approved \in BOOLEAN :
          \/ job' = [job EXCEPT ![w] = Refusal(Req(w), "NEED_HUMAN_INPUT")]
          \/ job' = [job EXCEPT ![w] = [job[w] EXCEPT !.at = "store", !.approved = approved]]
          \/ job' = [job EXCEPT ![w] = [job[w] EXCEPT !.at = "reply"]]
      BY <1>5 DEF Review
  <2>3. [job[w] EXCEPT !.at = "store", !.approved = approved].at = "store"
      BY <1>1 DEF IsDraft, DraftFields
  <2> QED
      BY <1>2, <1>3, <2>1, <2>2, <2>3
<1>6. ASSUME NEW w \in Workers, get_cache(w) \/ get_cache_fails(w) PROVE FALSE
  <2>1. PICK e : UseEntry(w, e)
      BY <1>6 DEF get_cache, get_cache_fails
  <2>2. [job[w] EXCEPT !.at = "reply", !.cached = TRUE, !.status = e.status, !.text = e.text].at = "reply"
      BY <1>1 DEF IsDraft, DraftFields
  <2>3. \/ job' = [job EXCEPT ![w] = [job[w] EXCEPT !.at = "reply", !.cached = TRUE, !.status = e.status, !.text = e.text]]
        \/ job' = [job EXCEPT ![w] = [job[w] EXCEPT !.at = "generate"]]
      BY <2>1 DEF UseEntry
  <2> QED
      BY <1>2, <1>3, <2>2, <2>3
<1>7. ASSUME NEW w \in Workers, set_cache(w) \/ set_cache_fails(w) \/ WriteLinks(w) \/ WriteLinksFails(w) PROVE FALSE
  BY <1>3, <1>7 DEF set_cache, set_cache_fails, WriteLinks, WriteLinksFails, GoTo
<1>8. ASSUME NEW w \in Workers, Return(w) PROVE FALSE
  BY <1>2, <1>8 DEF Return, NoDraft
<1>9. ASSUME NEW w \in Workers, NEW r \in Requests, Start(w, r) \/ StartFails(w, r) PROVE FALSE
  <2>1. \/ \E st : job' = [job EXCEPT ![w] = Refusal(r, st)]
        \/ \E n : job' = [job EXCEPT ![w] = Retrieved(r, n)]
      BY <1>9 DEF Start, StartFails
  <2>2. \A n, st : Retrieved(r, n).at = "lookup" /\ Refusal(r, st).at = "reply"
      BY DEF Retrieved, Refusal, NoDraft
  <2> QED
      BY <1>2, <2>1, <2>2
<1>10. ASSUME NEW w \in Workers, ReadLinks(w) PROVE v = w
  BY <1>2, <1>10 DEF ReadLinks
<1>11. ASSUME NEW w \in Workers,
             Budget(w) \/ BudgetFails(w) \/ invalidate_cache(w) \/ invalidate_cache_fails(w)
       PROVE  FALSE
  BY <1>11 DEF Budget, BudgetFails, invalidate_cache, invalidate_cache_fails, draftVars
<1>12. ~((\E k \in Keys : Expire(k)) \/ EvidenceAges \/ UNCHANGED vars)
  BY DEF Expire, EvidenceAges, vars, draftVars
<1> QED
  BY <1>4, <1>5, <1>6, <1>7, <1>8, <1>9, <1>10, <1>11, <1>12 DEF Next, Work, Faulty

(* A step that leaves the links alone adds nobody about to link a section   *)
(* that is linked.                                                          *)
LEMMA NoMoreLinking ==
    ASSUME DInv, [Next]_vars, NEW s \in Sections, links[s] # 0
    PROVE  Linking(s)' \subseteq Linking(s)
<1> SUFFICES ASSUME NEW v \in Workers, job'[v].at = "write", job'[v].req.section = s, job'[v].linked = 0
             PROVE  job'[v] = job[v]
  BY DEF Linking
<1> SUFFICES ASSUME job'[v] # job[v] PROVE FALSE
  OBVIOUS
<1>1. ReadLinks(v)
  BY OnlyReadersLink
<1>2. IsDraft(job[v]) /\ job = [w \in Workers |-> job[w]]
  BY DEF DInv, JobsOK, DraftOK
<1>3. [job[v] EXCEPT !.at = "reply"].at = "reply"
  BY <1>2 DEF IsDraft, DraftFields
<1> DEFINE n == [job[v] EXCEPT !.at = "write", !.linked = links[Req(v).section]]
<1>4. n.linked = links[Req(v).section] /\ n.req = job[v].req
  BY <1>2 DEF IsDraft, DraftFields
<1>5. job'[v] = n \/ job'[v] = [job[v] EXCEPT !.at = "reply"]
  BY <1>1, <1>2 DEF ReadLinks
<1> HIDE DEF n
<1> QED
  BY <1>3, <1>4, <1>5 DEF Req

(* Every step keeps the links within the workers.                           *)
LEMMA NextLinks ==
    ASSUME DInv, LinksOK, [Next]_vars
    PROVE  LinksOK'
<1>1. CASE UNCHANGED links
  <2>1. ASSUME NEW s \in Sections, links[s] # 0 PROVE Cardinality(Linking(s)') <= Cardinality(Linking(s))
      BY <2>1, NoMoreLinking, LinkingSize, FS_Subset
  <2>2. ASSUME NEW s \in Sections PROVE Cardinality(Linking(s)') \in Nat
    <3>1. Linking(s)' \subseteq Workers
        BY DEF Linking
    <3> QED
        BY <3>1, WorkersAssumption, FS_Subset, FS_CardinalityType
  <2>3. ASSUME NEW s \in Sections, links[s] # 0
        PROVE  links[s] + Cardinality(Linking(s)') <= Cardinality(Workers)
      BY <2>1, <2>2, <2>3, LinkingSize DEF LinksOK
  <2> QED
      BY <1>1, <2>3 DEF LinksOK, Sections
<1>2. ASSUME NEW w \in Workers, WriteLinks(w), job[w].linked = 0 PROVE LinksOK'
  <2> DEFINE sec == job[w].req.section
  <2>1. IsDraft(job[w]) /\ job = [v \in Workers |-> job[v]] /\ sec \in Sections /\ job[w].at = "write"
      BY <1>2 DEF DInv, JobsOK, DraftOK, WriteLinks, At, Sections
  <2>2. w \in Linking(sec)
      BY <1>2, <2>1 DEF Linking
  <2>3. [job[w] EXCEPT !.at = "reply"].at = "reply"
      BY <2>1 DEF IsDraft, DraftFields
  <2>4. job' = [v \in Workers |-> IF v = w THEN [job[w] EXCEPT !.at = "reply"] ELSE job[v]]
      BY <1>2, <2>1 DEF WriteLinks, GoTo
  <2>5. \A s \in Sections : Linking(s)' = Linking(s) \ {w}
      BY <2>3, <2>4 DEF Linking
  <2>6. links' = [s \in Sections |-> IF s = sec THEN links[s] + 1 ELSE links[s]]
      BY <1>2 DEF WriteLinks, LinksOK, Req
  <2> HIDE DEF sec
  <2>7. Cardinality(Linking(sec) \ {w}) = Cardinality(Linking(sec)) - 1
    <3>1. IsFiniteSet(Linking(sec))
        BY LinkingSize
    <3> QED
        BY <2>2, <3>1, FS_RemoveElement, Zenon
  <2>8. ASSUME NEW s \in Sections
        PROVE  /\ links'[s] \in Nat
               /\ links'[s] # 0 => links'[s] + Cardinality(Linking(s)') <= Cardinality(Workers)
    <3>1. CASE s = sec
      <4>1. links'[s] = links[s] + 1 /\ Cardinality(Linking(s)') = Cardinality(Linking(s)) - 1
          BY <2>5, <2>6, <2>7, <3>1
      <4>2. links[s] \in Nat /\ (links[s] # 0 => links[s] + Cardinality(Linking(s)) <= Cardinality(Workers))
          BY DEF LinksOK
      <4>3. Cardinality(Linking(s)) \in Nat /\ Cardinality(Linking(s)) <= Cardinality(Workers)
            /\ Cardinality(Workers) \in Nat
          BY LinkingSize
      <4> QED
          BY <4>1, <4>2, <4>3
    <3>2. CASE s # sec
      <4>1. w \notin Linking(s)
          BY <3>2 DEF Linking, sec
      <4>2. links'[s] = links[s] /\ Linking(s)' = Linking(s)
          BY <2>5, <2>6, <3>2, <4>1
      <4> QED
          BY <4>2 DEF LinksOK
    <3> QED
        BY <3>1, <3>2
  <2>9. links' = [s \in Sections |-> links'[s]]
      BY <2>6
  <2> QED
      BY <2>8, <2>9 DEF LinksOK, Sections
<1>3. ASSUME NEW w \in Workers, WriteLinks(w), job[w].linked # 0 PROVE UNCHANGED links
  BY <1>3 DEF WriteLinks
<1>4. ASSUME NEW w \in Workers, Work(w) \/ Faulty(w) \/ invalidate_cache(w) PROVE WriteLinks(w) \/ UNCHANGED links
  BY <1>4 DEF Work, Faulty, get_cache, get_cache_fails, Write, Budget, BudgetFails, Review, set_cache, set_cache_fails,
              ReadLinks, WriteLinksFails, Return, invalidate_cache, invalidate_cache_fails, draftVars
<1>5. ASSUME NEW w \in Workers, NEW r \in Requests, Start(w, r) \/ StartFails(w, r) PROVE UNCHANGED links
  BY <1>5 DEF Start, StartFails
<1>6. (\E k \in Keys : Expire(k)) \/ EvidenceAges \/ UNCHANGED vars => UNCHANGED links
  BY DEF Expire, EvidenceAges, vars, draftVars
<1> QED
  BY <1>1, <1>2, <1>3, <1>4, <1>5, <1>6 DEF Next

(* Whatever fails, neither tier of the cache ever holds a draft that was    *)
(* not supported, or one that was to be reviewed, and a section's evidence  *)
(* is linked no more often than there are workers (semantic_cache,          *)
(* persist_chapter_evidence_links).                                         *)
THEOREM StoresAreChecked == Spec => []StoresHoldCheckedDrafts
<1>1. Init => LinksOK
  BY DEF Init, LinksOK
<1>2. DInv /\ LinksOK => StoresHoldCheckedDrafts
  <2> SUFFICES ASSUME DInv, LinksOK PROVE StoresHoldCheckedDrafts
      OBVIOUS
  <2>1. ASSUME NEW s \in Sections PROVE links[s] <= Cardinality(Workers)
      BY LinkingSize DEF LinksOK
  <2>2. \A k \in Keys : CheckedEntry(k, shared[k])
      BY DEF DInv, CachesOK, CacheOK
  <2>3. \A w \in Workers, k \in Keys : CheckedEntry(k, private[w][k])
      BY DEF DInv, CachesOK, CacheOK
  <2> QED
      BY <2>1, <2>2, <2>3 DEF StoresHoldCheckedDrafts
<1> QED
  BY <1>1, <1>2, NextLinks, DraftInvariance, PTL DEF Spec
=============================================================================
