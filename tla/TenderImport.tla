----------------------------- MODULE TenderImport -----------------------------
(***************************************************************************)
(* One tender package's import: the endpoint that stores the run and       *)
(* enqueues its task, the Celery task with its error handler and retries,  *)
(* and run_pipeline, which works through the twelve steps of the run.      *)
(*                                                                         *)
(* Each step derives its files and then commits the run's new step, so a   *)
(* crash can fall between the two; a step that raises marks the run FAILED *)
(* and returns, unless that update fails too and the exception escapes to  *)
(* the task's handler.  Only the endpoint enqueues the task: a task lost   *)
(* with its worker is not run again.                                       *)
(***************************************************************************)
EXTENDS Naturals

CONSTANTS
    MaxTaskRetries,  \* settings.task_max_retries
    MaxFaults        \* bound on the database, disk, broker and worker failures

ASSUME BoundsAssumption == MaxTaskRetries \in Nat /\ MaxFaults \in Nat

(* TenderRunStep: the steps are numbered by _STEP_ORDER, and the two that   *)
(* are not in it come after.                                                *)
RECEIVED           == 0
UNPACKED           == 1
SECTIONIZED        == 3
PRELIM_EXTRACTED   == 4
FATAL_GATE_CHECKED == 5
DEVIATION_BUILT    == 8
BLUEPRINT_BUILT    == 10
READY_FOR_WRITING  == 11
FATAL_BLOCKED      == 12
FAILED             == 13

(* Steps SECTIONIZED..BLUEPRINT_BUILT leave files in the workspace's        *)
(* derived/ directory, known here by the number of the step.                *)
DerivingSteps == SECTIONIZED..BLUEPRINT_BUILT

VARIABLES
    step,      \* run.current_step
    reason,    \* is run.fatal_blocked_reason set?
    derived,   \* the steps whose derived files exist
    report,    \* the final_status in import_report.json, or "none"
    addenda,   \* TenderAddendum rows this run has inserted
    unmet,     \* does the package demand what the assets cannot meet?
    task,      \* where the task is
    at,        \* the step run_pipeline works on
    attempt,   \* request.retries of the task
    faults     \* failures so far (bounded by MaxFaults)

rowVars == <<step, reason>>
wsVars  == <<derived, report, addenda>>
vars == <<rowVars, wsVars, unmet, task, at, attempt, faults>>

(* "stored": the row exists and nothing is enqueued; "deriving" and         *)
(* "committing": the two halves of a step; "failing": the step raised;      *)
(* "escaped...": run_pipeline raised what the task retries, or anything     *)
(* else.                                                                    *)
Running == {"deriving", "committing", "blocking", "reporting", "failing",
            "escapedTransient", "escapedOther"}

Ended == {"never", "returned", "failed", "lost"}

Settled == {READY_FOR_WRITING, FATAL_BLOCKED, FAILED}

Init ==
    /\ step = RECEIVED
    /\ reason = FALSE
    /\ derived = {} /\ report = "none" /\ addenda = 0
    /\ unmet \in BOOLEAN
    /\ task = "stored" /\ at = UNPACKED /\ attempt = 0
    /\ faults = 0

Fault == faults < MaxFaults /\ faults' = faults + 1

-----------------------------------------------------------------------------
(* tender_import_pipeline_task.delay(...), after the row was committed.     *)
Enqueue ==
    /\ task = "stored"
    /\ task' = "queued"
    /\ UNCHANGED <<rowVars, wsVars, unmet, at, attempt, faults>>

(* The broker is down or the API process dies: the row stays RECEIVED.      *)
EnqueueFails ==
    /\ task = "stored"
    /\ Fault
    /\ task' = "never"
    /\ UNCHANGED <<rowVars, wsVars, unmet, at, attempt>>

(* run_pipeline loads the run.  A run that ended is left alone; any other   *)
(* starts at its current step, which is executed again (the comparison is   *)
(* "resume_idx <= step index").                                             *)
Start ==
    /\ task = "queued"
    /\ IF step \in {FATAL_BLOCKED, FAILED}
         THEN task' = "returned" /\ UNCHANGED at
         ELSE task' = "deriving" /\ at' = IF step = RECEIVED THEN UNPACKED ELSE step
    /\ UNCHANGED <<rowVars, wsVars, unmet, attempt, faults>>

(* The load of the row cannot reach the database, or update_state, which    *)
(* runs before the handler's try, cannot reach the result store: the task   *)
(* fails, or is retried when the error is transient.                        *)
StartFails ==
    /\ task = "queued"
    /\ Fault
    /\ \/ task' \in {"failed", "escapedOther"} /\ UNCHANGED attempt
       \/ /\ attempt < MaxTaskRetries
          /\ attempt' = attempt + 1
          /\ UNCHANGED task
    /\ UNCHANGED <<rowVars, wsVars, unmet, at>>

-----------------------------------------------------------------------------
(* Mutant: the deviation tables are left to the blueprint.                  *)
DeriveNoTables ==
    /\ task = "deriving"
    /\ at <= BLUEPRINT_BUILT /\ at # FATAL_GATE_CHECKED
    /\ derived' = derived \cup (({at} \cap DerivingSteps) \ {DEVIATION_BUILT})
    /\ task' = "committing"
    /\ UNCHANGED <<rowVars, report, addenda, unmet, at, attempt, faults>>

(* A step derives its files.                                                *)
DeriveFiles ==
    /\ task = "deriving"
    /\ at <= BLUEPRINT_BUILT /\ at # FATAL_GATE_CHECKED
    /\ derived' = derived \cup ({at} \cap DerivingSteps)
    /\ task' = "committing"
    /\ UNCHANGED <<rowVars, report, addenda, unmet, at, attempt, faults>>

(* Mutant: an unmet demand is only reported.                                *)
CheckGateOpen ==
    /\ task = "deriving"
    /\ at = FATAL_GATE_CHECKED
    /\ derived' = derived \cup {at}
    /\ task' \in {"committing", "blocking"}
    /\ UNCHANGED <<rowVars, report, addenda, unmet, at, attempt, faults>>

(* check_fatal_gate fails closed: an unmet demand blocks the run, and so    *)
(* does one whose asset query fails.  But the demands are read from the     *)
(* file PRELIM_EXTRACTED left, and without that file there are none.        *)
CheckGate ==
    /\ task = "deriving"
    /\ at = FATAL_GATE_CHECKED
    /\ derived' = derived \cup {at}
    /\ task' \in IF PRELIM_EXTRACTED \notin derived THEN {"committing"}
                 ELSE IF unmet THEN {"blocking"} ELSE {"committing", "blocking"}
    /\ UNCHANGED <<rowVars, report, addenda, unmet, at, attempt, faults>>

(* Compliance extraction and the addendum flow: whatever fails in them is   *)
(* logged and ignored, before or after the addendum row is committed.  Then *)
(* R2: without the deviation tables the run fails.                          *)
Additions ==
    /\ task = "deriving"
    /\ at = READY_FOR_WRITING
    /\ addenda' \in {addenda, addenda + 1}
    /\ task' = IF DEVIATION_BUILT \in derived THEN "committing" ELSE "failing"
    /\ UNCHANGED <<rowVars, derived, report, unmet, at, attempt, faults>>

(* _update_step(...) of a step that went well.                              *)
CommitStep ==
    /\ task = "committing" /\ at < READY_FOR_WRITING
    /\ step' = at
    /\ at' = at + 1
    /\ task' = "deriving"
    /\ UNCHANGED <<reason, wsVars, unmet, attempt, faults>>

(* _update_step(READY_FOR_WRITING).                                         *)
Ready ==
    /\ task = "committing" /\ at = READY_FOR_WRITING
    /\ step' = READY_FOR_WRITING
    /\ task' = "reporting"
    /\ UNCHANGED <<reason, wsVars, unmet, at, attempt, faults>>

(* R0: the gate blocks the run.                                             *)
Block ==
    /\ task = "blocking"
    /\ step' = FATAL_BLOCKED
    /\ reason' = TRUE
    /\ task' = "reporting"
    /\ UNCHANGED <<wsVars, unmet, at, attempt, faults>>

(* _save_import_report, and run_pipeline returns.                           *)
SaveReport ==
    /\ task = "reporting"
    /\ report' = IF step = FATAL_BLOCKED THEN "FATAL_BLOCKED" ELSE "READY_FOR_WRITING"
    /\ task' = "returned"
    /\ UNCHANGED <<rowVars, derived, addenda, unmet, at, attempt, faults>>

(* The disk refuses the report.  After a blocked gate the step's own        *)
(* handler catches that; after READY_FOR_WRITING it escapes.                *)
SaveReportFails ==
    /\ task = "reporting"
    /\ Fault
    /\ task' = IF step = FATAL_BLOCKED THEN "failing" ELSE "escapedTransient"
    /\ UNCHANGED <<rowVars, wsVars, unmet, at, attempt>>

-----------------------------------------------------------------------------
(* Inside a step's try an extractor raises, a file cannot be read or        *)
(* written, or the commit fails.  UNPACKED has no try, READY_FOR_WRITING's  *)
(* additions have their own: see CommitFails.                               *)
StepRaises ==
    /\ task \in {"deriving", "committing", "blocking"}
    /\ at \in (UNPACKED + 1)..BLUEPRINT_BUILT
    /\ task' = "failing"
    /\ UNCHANGED <<rowVars, wsVars, unmet, at, attempt, faults>>

(* The update of UNPACKED or READY_FOR_WRITING fails, with a database error *)
(* the task does not retry.                                                 *)
CommitFails ==
    /\ task = "committing" /\ at \in {UNPACKED, READY_FOR_WRITING}
    /\ Fault
    /\ task' = "escapedOther"
    /\ UNCHANGED <<rowVars, wsVars, unmet, at, attempt>>

(* Mutant: the exception handler returns the FAILED answer and leaves the   *)
(* row.                                                                     *)
AnswerFailed ==
    /\ task = "failing"
    /\ task' = "returned"
    /\ UNCHANGED <<rowVars, wsVars, unmet, at, attempt, faults>>

(* The step's exception handler records the failure.                        *)
MarkFailed ==
    /\ task = "failing"
    /\ step' = FAILED
    /\ task' = "returned"
    /\ UNCHANGED <<reason, wsVars, unmet, at, attempt, faults>>

(* ... or fails to, and that exception escapes.                             *)
MarkFailedFails ==
    /\ task = "failing"
    /\ Fault
    /\ task' = "escapedOther"
    /\ UNCHANGED <<rowVars, wsVars, unmet, at, attempt>>

(* The end of a task that raised: retried when the error is transient.      *)
RetryOrFail ==
    IF task = "escapedTransient" /\ attempt < MaxTaskRetries
      THEN task' = "queued" /\ attempt' = attempt + 1
      ELSE task' = "failed" /\ UNCHANGED attempt

(* The task's own handler marks the run FAILED, unless it is blocked, and   *)
(* raises again.                                                            *)
HandleEscape ==
    /\ task \in {"escapedTransient", "escapedOther"}
    /\ step' = IF step = FATAL_BLOCKED THEN step ELSE FAILED
    /\ RetryOrFail
    /\ UNCHANGED <<reason, wsVars, unmet, at, faults>>

(* The handler cannot mark the run either: logged, and the row stays.       *)
HandleEscapeFails ==
    /\ task \in {"escapedTransient", "escapedOther"}
    /\ Fault
    /\ RetryOrFail
    /\ UNCHANGED <<rowVars, wsVars, unmet, at>>

(* The worker is killed: its message was acknowledged when it took it.      *)
WorkerCrash ==
    /\ task \in Running
    /\ Fault
    /\ task' = "lost"
    /\ UNCHANGED <<rowVars, wsVars, unmet, at, attempt>>

Stop == task \in Ended /\ UNCHANGED vars

Progress ==
    \/ Enqueue \/ Start
    \/ DeriveFiles \/ CheckGate \/ Additions
    \/ CommitStep \/ Ready \/ Block \/ SaveReport
    \/ MarkFailed \/ HandleEscape

Next ==
    \/ Progress
    \/ EnqueueFails \/ StartFails \/ SaveReportFails
    \/ StepRaises \/ CommitFails \/ MarkFailedFails \/ HandleEscapeFails
    \/ WorkerCrash
    \/ Stop

Spec == Init /\ [][Next]_vars

(* The API process sends what it stored and a worker runs what it took;     *)
(* nothing is assumed of the failures.                                      *)
FairSpec == Spec /\ WF_vars(Progress)

-----------------------------------------------------------------------------
(* The row, the workspace and the task have their types; in particular a    *)
(* retried task adds at most one addendum row per attempt.                  *)
TypeOK ==
    /\ step \in RECEIVED..FAILED
    /\ reason \in BOOLEAN /\ unmet \in BOOLEAN
    /\ derived \subseteq DerivingSteps
    /\ report \in {"none", "FATAL_BLOCKED", "READY_FOR_WRITING"}
    /\ task \in {"stored", "queued"} \cup Running \cup Ended
    /\ at \in UNPACKED..READY_FOR_WRITING
    /\ attempt \in 0..MaxTaskRetries
    /\ addenda \in 0..(attempt + 1)
    /\ faults \in 0..MaxFaults

(* R0: a package whose demands cannot be met never gets past the gate, in   *)
(* the row, in the workspace or in the addenda, however its task fails, is  *)
(* killed and is retried.                                                   *)
NothingPastTheGate ==
    unmet => /\ step \notin FATAL_GATE_CHECKED..READY_FOR_WRITING
             /\ derived \subseteq SECTIONIZED..FATAL_GATE_CHECKED
             /\ addenda = 0

(* The workspace never lags behind the row: a run at step k has every file  *)
(* of the steps up to k (and of R2's deviation tables when it is ready for  *)
(* writing), so a resumed run finds what it reads.                          *)
RowBackedByFiles ==
    step <= READY_FOR_WRITING => (1..step) \cap DerivingSteps \subseteq derived

(* A step of the system moves the row to the next step of the order, leaves *)
(* it, blocks it at the gate or fails it: no step is skipped or repeated,   *)
(* and a failed run does not come back.                                     *)
StepsInOrder ==
    [][step' # step =>
        /\ step # FAILED
        /\ \/ step' = step + 1 /\ step' <= READY_FOR_WRITING
           \/ step' = FATAL_BLOCKED /\ step = FATAL_GATE_CHECKED - 1
           \/ step' = FAILED]_vars

(* A task that is on the queue ends, and when it returns its run has been   *)
(* given one of its three outcomes; only a lost or a raising task may leave *)
(* the run in the middle.                                                   *)
ReturnsWithOutcome ==
    (task = "queued") ~> (\/ task \in {"lost", "failed"}
                          \/ task = "returned" /\ step \in Settled)

=============================================================================
