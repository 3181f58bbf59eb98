---------------------------- MODULE GenerationRun ----------------------------
(***************************************************************************)
(* The G2..G8 orchestrator of a GenerationRun row.  run_step executes one  *)
(* step while it holds the row's lock, so two calls never interleave, and  *)
(* commits the step's result together with the resume pointer.             *)
(* resume_run reads the pointer without the lock and then calls run_step   *)
(* for every step from there on, so several resumers of one run, and       *)
(* redelivered run_step calls, interleave between steps.  A caller that    *)
(* dies inside run_step rolls its transaction back: the row is as before,  *)
(* but the handler has run.  The redline status that closes the barrier is *)
(* written by others, between the steps: run_step reads it in every call   *)
(* and puts the output_json it read back over whatever its handler set.    *)
(*                                                                         *)
(* Steps are numbered 1..NumSteps in the order of GenerationStep.          *)
(***************************************************************************)
EXTENDS Naturals, FiniteSetsExt

CONSTANTS
    Clients,     \* callers of resume_run
    NumSteps,    \* len(_STEP_ORDER)
    Barrier,     \* the index of G4_OUTLINE
    MaxRetries,  \* _MAX_RETRIES
    MaxCrashes,  \* bound on the callers that die inside a step
    OutOfOrder   \* may run_step be called for a step the run has not reached?

ASSUME StepsAssumption == NumSteps \in Nat /\ Barrier \in 1..NumSteps
ASSUME RetriesAssumption == MaxRetries \in Nat /\ MaxCrashes \in Nat
ASSUME OrderAssumption == OutOfOrder \in BOOLEAN

Steps == 1..NumSteps

ResultStatus == {"none", "success", "failed"}

VARIABLES
    result,   \* result[k]: step_results[k]["status"]
    tries,    \* tries[k]: step_results[k]["retry_count"]
    total,    \* run.retry_count
    last,     \* run.current_step and run.step_status
    status,   \* run.status
    pointer,  \* run.resume_from_step
    blocked,  \* output_json["redline_status"] = "BLOCKED"
    next,     \* next[c]: the step resumer c calls next, 0 when it is idle
    calls,    \* calls[k]: how often the handler of step k has run
    crashes   \* callers that died inside a step (bounded by MaxCrashes)

rowVars == <<result, tries, total, last, status, pointer, blocked>>
vars == <<rowVars, next, calls, crashes>>

Init ==
    /\ result = [k \in Steps |-> "none"]
    /\ tries = [k \in Steps |-> 0]
    /\ total = 0
    /\ last = [step |-> 0, status |-> "paused"]
    /\ status = "PENDING"
    /\ pointer = 1
    /\ blocked = FALSE
    /\ next = [c \in Clients |-> 0]
    /\ calls = [k \in Steps |-> 0]
    /\ crashes = 0

-----------------------------------------------------------------------------
(* Mutant: the barrier is off by one.                                       *)
IsBlockedLate(k) == result[k] # "success" /\ blocked /\ k > Barrier + 1

(* Mutant: the results are not consulted.                                   *)
ExecutesAgain(k) == ~(blocked /\ k > Barrier) /\ tries[k] < MaxRetries

(* The early returns of run_step, in their order.                           *)
Skipped(k) == result[k] = "success"

IsBlocked(k) == ~Skipped(k) /\ blocked /\ k > Barrier

Exhausted(k) == ~Skipped(k) /\ ~IsBlocked(k) /\ tries[k] >= MaxRetries

Executes(k) == ~Skipped(k) /\ ~IsBlocked(k) /\ ~Exhausted(k)

(* The handler runs.                                                        *)
Call(k) == calls' = [calls EXCEPT ![k] = @ + 1]

Record(k, outcome) ==
    /\ result' = [result EXCEPT ![k] = outcome]
    /\ last' = [step |-> k, status |-> outcome]

(* Mutant: the pointer follows the last step, too.                          *)
SucceedPastEnd(k) ==
    /\ Executes(k)
    /\ Call(k)
    /\ Record(k, "success")
    /\ pointer' = k + 1
    /\ IF k < NumSteps THEN UNCHANGED status ELSE status' = "COMPLETED"
    /\ UNCHANGED <<tries, total, blocked>>

(* Mutant: the run is completed by the step before the last.                *)
SucceedEarly(k) ==
    /\ Executes(k)
    /\ Call(k)
    /\ Record(k, "success")
    /\ IF k + 1 < NumSteps
         THEN pointer' = k + 1 /\ UNCHANGED status
         ELSE pointer' = k /\ status' = "COMPLETED"
    /\ UNCHANGED <<tries, total, blocked>>

(* run_step(k) succeeds: the pointer moves to the next step, or the run is  *)
(* completed.                                                               *)
Succeed(k) ==
    /\ Executes(k)
    /\ Call(k)
    /\ Record(k, "success")
    /\ IF k < NumSteps
         THEN pointer' = k + 1 /\ UNCHANGED status
         ELSE pointer' = k /\ status' = "COMPLETED"
    /\ UNCHANGED <<tries, total, blocked>>

(* Mutant: the failure is counted before the handler runs.                  *)
FailBeforeCall(k) ==
    /\ Executes(k)
    /\ Record(k, "failed")
    /\ tries' = [tries EXCEPT ![k] = @ + 1]
    /\ total' = total + 1
    /\ pointer' = k
    /\ UNCHANGED <<status, blocked, calls>>

(* run_step(k) fails: the failure is counted and the pointer stays at k.    *)
Fail(k) ==
    /\ Executes(k)
    /\ Call(k)
    /\ Record(k, "failed")
    /\ tries' = [tries EXCEPT ![k] = @ + 1]
    /\ total' = total + 1
    /\ pointer' = k
    /\ UNCHANGED <<status, blocked>>

-----------------------------------------------------------------------------
(* resume_run: read the pointer ...                                         *)
ResumeStart(c) ==
    /\ next[c] = 0
    /\ next' = [next EXCEPT ![c] = pointer]
    /\ UNCHANGED <<rowVars, calls, crashes>>

(* Mutant: the loop calls the step it has just skipped again.               *)
GoOnInPlace(c) == next' = [next EXCEPT ![c] = IF result[@] = "success" THEN @ ELSE 0]

(* ... then call run_step for that step and those after it: the loop goes   *)
(* on after "success" and "skipped" and stops otherwise.                    *)
GoOn(c) == next' = [next EXCEPT ![c] = IF @ < NumSteps THEN @ + 1 ELSE 0]

Stop(c) == next' = [next EXCEPT ![c] = 0]

ResumeStep(c) ==
    /\ next[c] # 0
    /\ LET k == next[c]
       IN  \/ Succeed(k) /\ GoOn(c)
           \/ Fail(k) /\ Stop(c)
           \/ Skipped(k) /\ GoOn(c) /\ UNCHANGED <<rowVars, calls>>
           \/ (IsBlocked(k) \/ Exhausted(k)) /\ Stop(c) /\ UNCHANGED <<rowVars, calls>>
    /\ UNCHANGED crashes

(* The caller dies inside run_step: the transaction is rolled back.         *)
DieInStep(c) ==
    /\ next[c] # 0
    /\ Executes(next[c])
    /\ crashes < MaxCrashes
    /\ crashes' = crashes + 1
    /\ Call(next[c])
    /\ Stop(c)
    /\ UNCHANGED rowVars

(* A run_step call from outside resume_run, such as a redelivered one.      *)
Redeliver(k) ==
    /\ k <= pointer \/ OutOfOrder
    /\ Succeed(k) \/ Fail(k)
    /\ UNCHANGED <<next, crashes>>

(* Somebody sets or clears the redline status, between two run_step calls.  *)
WriteRedlineStatus ==
    /\ blocked' = ~blocked
    /\ UNCHANGED <<result, tries, total, last, status, pointer, next, calls, crashes>>

Next ==
    \/ WriteRedlineStatus
    \/ \E c \in Clients : ResumeStart(c) \/ ResumeStep(c) \/ DieInStep(c)
    \/ \E k \in Steps : Redeliver(k)

Spec == Init /\ [][Next]_vars

(* A resumer that is not idle keeps calling run_step.                       *)
FairSpec == Spec /\ \A c \in Clients : WF_vars(ResumeStep(c))

-----------------------------------------------------------------------------
(* The row, the resumers and the ghost counters have their types; in       *)
(* particular no step is tried more often than _MAX_RETRIES allows.         *)
TypeOK ==
    /\ result \in [Steps -> ResultStatus]
    /\ tries \in [Steps -> 0..MaxRetries]
    /\ total \in Nat
    /\ last \in [step : 0..NumSteps, status : {"paused", "success", "failed"}]
    /\ status \in {"PENDING", "COMPLETED"}
    /\ pointer \in Steps
    /\ blocked \in BOOLEAN
    /\ next \in [Clients -> 0..NumSteps]
    /\ calls \in [Steps -> Nat]
    /\ crashes \in Nat

(* The resume pointer and the results agree, whichever resumers and         *)
(* redelivered calls raced: exactly the steps before the pointer have       *)
(* succeeded, and all of them have once the run is COMPLETED.               *)
PointerMatchesResults ==
    \A k \in Steps : result[k] = "success" <=> k < pointer \/ status = "COMPLETED"

(* A run is completed only at its last step, and no resumer is ahead of the *)
(* pointer it read and advanced.                                            *)
NobodyAhead ==
    /\ status = "COMPLETED" => pointer = NumSteps
    /\ \A c \in Clients : next[c] <= pointer

(* The recovery point never moves backwards, not even on failure.           *)
PointerNeverRetreats == [][pointer' >= pointer]_vars

(* run_step is idempotent: the handler of a step that has succeeded does    *)
(* not run again, whoever calls, and its result stays.                      *)
SucceededStepsRest ==
    [][\A k \in Steps :
          result[k] = "success" => result'[k] = "success" /\ calls'[k] = calls[k]]_vars

(* Every handler call leaves a trace in the row, but for the ones that died *)
(* inside their step.                                                       *)
CallsAccountedFor ==
    \A k \in Steps :
        /\ tries[k] + (IF result[k] = "success" THEN 1 ELSE 0) <= calls[k]
        /\ calls[k] <= tries[k] + (IF result[k] = "success" THEN 1 ELSE 0) + crashes

(* A resumer always comes to an end.                                        *)
ResumersReturn == \A c \in Clients : next[c] # 0 ~> next[c] = 0

-----------------------------------------------------------------------------
(* The run implements an ordered sequence of steps that each take effect    *)
(* once, and none past the barrier while a P0 redline closes it: the steps  *)
(* done are those before the pointer, and the barrier is looked at again    *)
(* before every step, however late the redline is found.                    *)
Done == IF status = "COMPLETED" THEN NumSteps ELSE pointer - 1

Sequence == INSTANCE StepSequence WITH done <- Done, closed <- blocked

ImplementsSequence == Sequence!SSpec
=============================================================================
