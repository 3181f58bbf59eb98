------------------------- MODULE TenderImport_proofs -------------------------
(***************************************************************************)
(* Proofs about TenderImport, for any number of retries and failures.      *)
(***************************************************************************)
EXTENDS TenderImport, TLAPS

USE BoundsAssumption

AtStep == {"deriving", "committing", "blocking"}

(* Where the task may be, given the row.  A run is only ever resumed at its *)
(* start or when it is ready for writing; otherwise a step works on what    *)
(* comes after the row's, and commits it when its files are there.          *)
Position ==
    /\ task \in {"stored", "never"} => step = RECEIVED
    /\ task \in {"queued", "escapedTransient"} => step \in {RECEIVED, READY_FOR_WRITING, FAILED}
    /\ task \in AtStep => at = step + 1 \/ (at = step /\ at = READY_FOR_WRITING)
    /\ task = "blocking" => at = FATAL_GATE_CHECKED
    /\ task = "reporting" => step \in {READY_FOR_WRITING, FATAL_BLOCKED}
    /\ task = "failing" => step # FAILED
    /\ task = "committing" => {at} \cap DerivingSteps \subseteq derived

(* What the task of a package with unmet demands is at: never past the      *)
(* gate, and not about to commit it.                                        *)
Stopped ==
    unmet => /\ task \in AtStep => at <= FATAL_GATE_CHECKED
             /\ task = "committing" => at < FATAL_GATE_CHECKED

(* An attempt inserts its addendum row once, in its last step.              *)
Inserted ==
    /\ task \in {"stored", "queued", "deriving"} => addenda <= attempt
    /\ task = "committing" /\ at < READY_FOR_WRITING => addenda <= attempt

IInv == TypeOK /\ Inserted /\ Position /\ Stopped /\ NothingPastTheGate /\ RowBackedByFiles


-----------------------------------------------------------------------------
USE DEF RECEIVED, UNPACKED, SECTIONIZED, PRELIM_EXTRACTED, FATAL_GATE_CHECKED,
        DEVIATION_BUILT, BLUEPRINT_BUILT, READY_FOR_WRITING, FATAL_BLOCKED, FAILED

USE DEF AtStep, Running, Ended, DerivingSteps

\* A package begins with no workspace and at its first step.
LEMMA InitIInv == Init => IInv
<1> SUFFICES ASSUME Init PROVE IInv
  OBVIOUS
<1>1. TypeOK
  <2>1. /\ step \in RECEIVED..FAILED /\ at \in UNPACKED..READY_FOR_WRITING /\ attempt \in 0..MaxTaskRetries
        /\ addenda \in 0..(attempt + 1) /\ faults \in 0..MaxFaults
      BY DEF Init
  <2>2. /\ reason \in BOOLEAN /\ unmet \in BOOLEAN /\ derived \subseteq DerivingSteps
        /\ report \in {"none", "FATAL_BLOCKED", "READY_FOR_WRITING"}
        /\ task \in {"stored", "queued"} \cup Running \cup Ended
      BY DEF Init
  <2> QED
      BY <2>1, <2>2 DEF TypeOK
<1>2. Inserted
  BY DEF Init, Inserted
<1>3. Position /\ Stopped /\ NothingPastTheGate /\ RowBackedByFiles
  BY DEF Init, Position, Stopped, NothingPastTheGate, RowBackedByFiles
<1> QED
  BY <1>1, <1>2, <1>3 DEF IInv

(* The steps that only move the task, and perhaps the row to FAILED.        *)
LEMMA FailureIInv ==
    ASSUME IInv, \/ EnqueueFails \/ StartFails \/ SaveReportFails \/ StepRaises \/ CommitFails
                 \/ MarkFailed \/ MarkFailedFails \/ HandleEscape \/ HandleEscapeFails \/ WorkerCrash
    PROVE  IInv'
<1> USE DEF IInv, TypeOK, Inserted, Position, Stopped, NothingPastTheGate, RowBackedByFiles, Fault, rowVars, wsVars
<1>1. CASE EnqueueFails
  BY <1>1 DEF EnqueueFails
<1>2. CASE StartFails
  BY <1>2 DEF StartFails
<1>3. CASE SaveReportFails
  BY <1>3 DEF SaveReportFails
<1>4. CASE StepRaises
  BY <1>4 DEF StepRaises
<1>5. CASE CommitFails
  BY <1>5 DEF CommitFails
<1>6. CASE MarkFailed
  BY <1>6 DEF MarkFailed
<1>7. CASE MarkFailedFails
  BY <1>7 DEF MarkFailedFails
<1>8. CASE HandleEscape
  BY <1>8 DEF HandleEscape, RetryOrFail
<1>9. CASE HandleEscapeFails
  BY <1>9 DEF HandleEscapeFails, RetryOrFail
<1>10. CASE WorkerCrash
  BY <1>10 DEF WorkerCrash
<1> QED
  BY <1>1, <1>2, <1>3, <1>4, <1>5, <1>6, <1>7, <1>8, <1>9, <1>10

(* The steps that go well.                                                  *)
LEMMA ProgressIInv ==
    ASSUME IInv, \/ Enqueue \/ Start \/ DeriveFiles \/ CheckGate \/ Additions
                 \/ CommitStep \/ Ready \/ Block \/ SaveReport
    PROVE  IInv'
<1> USE DEF IInv, rowVars, wsVars
<1>1. CASE Enqueue
  BY <1>1 DEF Enqueue, TypeOK, Inserted, Position, Stopped, NothingPastTheGate, RowBackedByFiles
<1>2. CASE Start
  BY <1>2 DEF Start, TypeOK, Inserted, Position, Stopped, NothingPastTheGate, RowBackedByFiles
<1>3. CASE DeriveFiles
  BY <1>3 DEF DeriveFiles, TypeOK, Inserted, Position, Stopped, NothingPastTheGate, RowBackedByFiles
<1>4. CASE CheckGate
  BY <1>4 DEF CheckGate, TypeOK, Inserted, Position, Stopped, NothingPastTheGate, RowBackedByFiles
<1>5. CASE Additions
  <2>1. ~unmet
      BY <1>5 DEF Additions, Stopped
  <2>2. TypeOK' /\ Inserted'
      BY <1>5 DEF Additions, TypeOK, Inserted
  <2>3. Position' /\ Stopped' /\ NothingPastTheGate' /\ RowBackedByFiles'
      BY <1>5, <2>1 DEF Additions, TypeOK, Position, Stopped, NothingPastTheGate, RowBackedByFiles
  <2> QED
      BY <2>2, <2>3
<1>6. CASE CommitStep
  <2>1. at = step + 1 /\ step' = at /\ derived' = derived /\ unmet' = unmet /\ addenda' = addenda
      BY <1>6 DEF CommitStep, Position, TypeOK
  <2>2. TypeOK' /\ Inserted' /\ Position' /\ Stopped'
      BY <1>6 DEF CommitStep, TypeOK, Inserted, Position, Stopped
  <2>3. NothingPastTheGate'
      BY <1>6, <2>1 DEF CommitStep, TypeOK, Stopped, NothingPastTheGate
  <2>4. (1..step) \cap DerivingSteps \subseteq derived /\ {at} \cap DerivingSteps \subseteq derived
      BY <1>6, <2>1 DEF CommitStep, TypeOK, Position, RowBackedByFiles
  <2>5. (1..at) \cap DerivingSteps \subseteq derived
    <3>1. step \in Nat
        BY DEF TypeOK
    <3>2. ASSUME NEW k \in (1..at) \cap DerivingSteps
          PROVE  k \in derived
      <4>1. k \in 1..step \/ k = at
          BY <2>1, <3>1
      <4> QED
          BY <2>4, <4>1
    <3> QED
        BY <3>2
  <2>6. RowBackedByFiles'
      BY <2>1, <2>5 DEF RowBackedByFiles
  <2> QED
      BY <2>2, <2>3, <2>6
<1>7. CASE Ready
  BY <1>7 DEF Ready, TypeOK, Inserted, Position, Stopped, NothingPastTheGate, RowBackedByFiles
<1>8. CASE Block
  BY <1>8 DEF Block, TypeOK, Inserted, Position, Stopped, NothingPastTheGate, RowBackedByFiles
<1>9. CASE SaveReport
  BY <1>9 DEF SaveReport, TypeOK, Inserted, Position, Stopped, NothingPastTheGate, RowBackedByFiles
<1> QED
  BY <1>1, <1>2, <1>3, <1>4, <1>5, <1>6, <1>7, <1>8, <1>9

(* Every step keeps the invariant, and moves the row as StepsInOrder says.  *)
LEMMA NextIInv == IInv /\ [Next]_vars => IInv'
<1> SUFFICES ASSUME IInv, [Next]_vars PROVE IInv'
  OBVIOUS
<1>1. CASE Next /\ ~Stop
  BY <1>1, FailureIInv, ProgressIInv DEF Next, Progress
<1>2. CASE UNCHANGED vars
  BY <1>2 DEF vars, rowVars, wsVars, IInv, TypeOK, Inserted, Position, Stopped, NothingPastTheGate, RowBackedByFiles
<1> QED
  BY <1>1, <1>2 DEF Stop

\* Where a step of the machine may take the package's row.
LEMMA NextInOrder ==
    ASSUME IInv, [Next]_vars, step' # step
    PROVE  /\ step # FAILED
           /\ \/ step' = step + 1 /\ step' <= READY_FOR_WRITING
              \/ step' = FATAL_BLOCKED /\ step = FATAL_GATE_CHECKED - 1
              \/ step' = FAILED
<1>1. CASE Next
  <2>1. CommitStep \/ Ready \/ Block \/ MarkFailed \/ HandleEscape
      BY <1>1 DEF Next, Progress, Stop, Enqueue, Start, DeriveFiles, CheckGate, Additions, SaveReport, EnqueueFails,
                  StartFails, SaveReportFails, StepRaises, CommitFails, MarkFailedFails, HandleEscapeFails,
                  WorkerCrash, vars, rowVars
  <2> QED
      BY <2>1 DEF IInv, TypeOK, Position, CommitStep, Ready, Block, MarkFailed, HandleEscape
<1>2. CASE UNCHANGED vars
  BY <1>2 DEF vars, rowVars
<1> QED
  BY <1>1, <1>2

-----------------------------------------------------------------------------
(* The inductive invariant holds throughout.                                *)
LEMMA Invariance == Spec => []IInv
BY InitIInv, NextIInv, PTL DEF Spec

(* R0, for any number of retries and failures: a package whose demands the  *)
(* assets cannot meet gets past the gate neither in the row nor in the      *)
(* workspace nor in the addenda (pipeline.run_pipeline).                    *)
THEOREM GateHolds == Spec => []NothingPastTheGate
<1>1. IInv => NothingPastTheGate
  BY DEF IInv
<1> QED
  BY <1>1, Invariance, PTL

(* A run at step k has the files of all steps up to k, wherever its task    *)
(* was killed, failed or was retried (_update_step after _save_derived).    *)
THEOREM FilesBackTheRow == Spec => []RowBackedByFiles
<1>1. IInv => RowBackedByFiles
  BY DEF IInv
<1> QED
  BY <1>1, Invariance, PTL

(* The row, the workspace and the task have their types, and a package has  *)
(* at most one addendum row per attempt.                                    *)
THEOREM TypeCorrect == Spec => []TypeOK
<1>1. IInv => TypeOK
  BY DEF IInv
<1> QED
  BY <1>1, Invariance, PTL

(* The row moves one step of the order at a time, is blocked only at the    *)
(* gate, and does not come back from FAILED (_update_step).                 *)
THEOREM RowMovesInOrder == Spec => StepsInOrder
<1>1. IInv /\ [Next]_vars =>
        [step' # step =>
            /\ step # FAILED
            /\ \/ step' = step + 1 /\ step' <= READY_FOR_WRITING
               \/ step' = FATAL_BLOCKED /\ step = FATAL_GATE_CHECKED - 1
               \/ step' = FAILED]_vars
  BY NextInOrder
<1> QED
  BY <1>1, Invariance, PTL DEF Spec, StepsInOrder
=============================================================================
