------------------------ MODULE GenerationRun_proofs ------------------------
(***************************************************************************)
(* Proofs about GenerationRun, for any number of steps, resumers, retries  *)
(* and crashes.  All of them assume what the code asks of its callers: no  *)
(* run_step call is made for a step the run has not reached.               *)
(***************************************************************************)
EXTENDS GenerationRun, TLAPS

(* The inductive invariant.  NobodyAhead is what makes the pointer's        *)
(* invariant inductive: a step that executes is then the pointer's.         *)
IInv == TypeOK /\ PointerMatchesResults /\ NobodyAhead

USE StepsAssumption, RetriesAssumption

-----------------------------------------------------------------------------
(* A step that executes, and that the run has reached, is the pointer's.    *)
LEMMA ExecutingIsPointer ==
    ASSUME IInv, NEW k \in Steps, Executes(k), k <= pointer
    PROVE  k = pointer /\ status = "PENDING"
<1>1. result[k] # "success"
    BY DEF Executes, Skipped
<1>2. ~(k < pointer) /\ status # "COMPLETED"
    BY <1>1 DEF IInv, PointerMatchesResults
<1> QED
    BY <1>2 DEF IInv, TypeOK, Steps

(* The row's part of the type invariant.                                    *)
RowTypeOK ==
    /\ result \in [Steps -> ResultStatus]
    /\ tries \in [Steps -> 0..MaxRetries]
    /\ total \in Nat
    /\ last \in [step : 0..NumSteps, status : {"paused", "success", "failed"}]
    /\ status \in {"PENDING", "COMPLETED"}
    /\ pointer \in Steps
    /\ blocked \in BOOLEAN
    /\ calls \in [Steps -> Nat]

(* Executing a step keeps the row's part of the invariant, and the pointer  *)
(* moves forward or stays.                                                  *)
LEMMA StepKeepsRow ==
    ASSUME IInv, NEW k \in Steps, k <= pointer, Succeed(k) \/ Fail(k)
    PROVE  /\ RowTypeOK'
           /\ PointerMatchesResults'
           /\ status' = "COMPLETED" => pointer' = NumSteps
           /\ pointer' >= pointer
<1>1. Executes(k)
    BY DEF Succeed, Fail
<1>2. k = pointer /\ status = "PENDING"
    BY <1>1, ExecutingIsPointer
<1>3. TypeOK
    BY DEF IInv
<1>4. \A i \in Steps : result[i] = "success" <=> i < k
    BY <1>2 DEF IInv, PointerMatchesResults
<1>5. CASE Succeed(k)
  <2>1. result' = [result EXCEPT ![k] = "success"]
      BY <1>5 DEF Succeed, Record
  <2>2. \/ k < NumSteps /\ pointer' = k + 1 /\ status' = status
        \/ k = NumSteps /\ pointer' = k /\ status' = "COMPLETED"
      BY <1>5 DEF Succeed, Steps
  <2>3. RowTypeOK'
    <3>1. pointer' \in Steps /\ status' \in {"PENDING", "COMPLETED"}
        BY <1>2, <2>2 DEF Steps
    <3>2. result' \in [Steps -> ResultStatus]
        BY <1>3, <2>1 DEF TypeOK, ResultStatus
    <3>3. last' \in [step : 0..NumSteps, status : {"paused", "success", "failed"}]
        BY <1>5 DEF Succeed, Record, Steps
    <3>4. calls' \in [Steps -> Nat]
        BY <1>3, <1>5 DEF Succeed, Call, TypeOK
    <3> QED
        BY <1>3, <1>5, <3>1, <3>2, <3>3, <3>4 DEF Succeed, TypeOK, RowTypeOK
  <2>4. \A i \in Steps : result'[i] = "success" <=> i <= k
      BY <1>3, <1>4, <2>1 DEF TypeOK, Steps
  <2> QED
      BY <1>2, <2>2, <2>3, <2>4 DEF PointerMatchesResults, Steps
<1>6. CASE Fail(k)
  <2>1. tries[k] < MaxRetries
      BY <1>1, <1>3 DEF TypeOK, Executes, Exhausted, Steps
  <2>2. RowTypeOK'
    <3>1. result' \in [Steps -> ResultStatus]
        BY <1>3, <1>6 DEF Fail, Record, TypeOK, ResultStatus
    <3>2. last' \in [step : 0..NumSteps, status : {"paused", "success", "failed"}]
        BY <1>6 DEF Fail, Record, Steps
    <3>3. calls' \in [Steps -> Nat]
        BY <1>3, <1>6 DEF Fail, Call, TypeOK
    <3>4. tries' \in [Steps -> 0..MaxRetries] /\ total' \in Nat
        BY <1>3, <1>6, <2>1 DEF Fail, TypeOK
    <3> QED
        BY <1>3, <1>6, <3>1, <3>2, <3>3, <3>4 DEF Fail, TypeOK, RowTypeOK
  <2>3. \A i \in Steps : result'[i] = "success" <=> i < k
      BY <1>3, <1>4, <1>6 DEF Fail, Record, TypeOK, Steps
  <2>4. pointer' = k /\ status' = status
      BY <1>6 DEF Fail
  <2> QED
      BY <1>2, <2>2, <2>3, <2>4 DEF PointerMatchesResults, Steps
<1> QED
    BY <1>5, <1>6

(* The inductive invariant holds initially.                                 *)
LEMMA InitIInv == Init => IInv
<1> SUFFICES ASSUME Init PROVE IInv
    OBVIOUS
<1>1. TypeOK
  <2>1. blocked \in BOOLEAN
      BY DEF Init
  <2>2. /\ result \in [Steps -> ResultStatus] /\ tries \in [Steps -> 0..MaxRetries]
        /\ calls \in [Steps -> Nat] /\ next \in [Clients -> 0..NumSteps]
      BY DEF Init, Steps, ResultStatus
  <2>3. /\ last \in [step : 0..NumSteps, status : {"paused", "success", "failed"}]
        /\ pointer \in Steps /\ status = "PENDING" /\ total = 0 /\ crashes = 0
      BY DEF Init, Steps
  <2> QED
      BY <2>1, <2>2, <2>3 DEF TypeOK
<1>2. PointerMatchesResults /\ NobodyAhead
    BY DEF Init, PointerMatchesResults, NobodyAhead, Steps
<1> QED
    BY <1>1, <1>2 DEF IInv

(* Every step of the specification preserves the inductive invariant.       *)
LEMMA NextIInv ==
    ASSUME OutOfOrder = FALSE, IInv, [Next]_vars
    PROVE  IInv'
<1>1. ASSUME NEW c \in Clients, ResumeStart(c)
      PROVE  IInv'
    BY <1>1 DEF IInv, TypeOK, PointerMatchesResults, NobodyAhead, ResumeStart, rowVars, Steps
<1>2. ASSUME NEW c \in Clients, ResumeStep(c)
      PROVE  IInv'
  <2> DEFINE k == next[c]
  <2>1. k \in Steps /\ k <= pointer /\ crashes' = crashes
      BY <1>2 DEF IInv, TypeOK, NobodyAhead, ResumeStep, Steps
  <2>2. CASE Succeed(k) /\ GoOn(c)
    <3>1. k = pointer /\ (k < NumSteps => pointer' = k + 1) /\ pointer' >= pointer
        BY <2>1, <2>2, ExecutingIsPointer, StepKeepsRow DEF Succeed
    <3>2. next' = [next EXCEPT ![c] = IF k < NumSteps THEN k + 1 ELSE 0]
        BY <2>2 DEF GoOn
    <3>3. pointer \in Steps /\ pointer' \in Steps
        BY <2>1, <2>2, StepKeepsRow DEF IInv, TypeOK, RowTypeOK
    <3>4. next' \in [Clients -> 0..NumSteps] /\ \A d \in Clients : next'[d] <= pointer'
        BY <2>1, <3>1, <3>2, <3>3 DEF IInv, TypeOK, NobodyAhead, Steps
    <3> QED
        BY <2>1, <2>2, <3>4, StepKeepsRow DEF IInv, TypeOK, RowTypeOK, NobodyAhead
  <2>3. CASE Fail(k) /\ Stop(c)
    <3>1. pointer \in Steps /\ pointer' \in Steps /\ pointer' >= pointer
        BY <2>1, <2>3, StepKeepsRow DEF IInv, TypeOK, RowTypeOK
    <3>2. next' \in [Clients -> 0..NumSteps] /\ \A d \in Clients : next'[d] <= pointer'
        BY <2>3, <3>1 DEF IInv, TypeOK, NobodyAhead, Stop, Steps
    <3> QED
        BY <2>1, <2>3, <3>2, StepKeepsRow DEF IInv, TypeOK, RowTypeOK, NobodyAhead
  <2>4. CASE Skipped(k) /\ GoOn(c) /\ UNCHANGED <<rowVars, calls>>
    <3>1. k < pointer \/ pointer = NumSteps
        BY <2>1, <2>4 DEF IInv, PointerMatchesResults, NobodyAhead, Skipped
    <3>2. next' = [next EXCEPT ![c] = IF k < NumSteps THEN k + 1 ELSE 0]
        BY <2>4 DEF GoOn
    <3>3. k < NumSteps => k + 1 <= pointer
        BY <2>1, <3>1 DEF IInv, TypeOK, Steps
    <3>4. \A d \in Clients : next'[d] \in 0..NumSteps /\ next'[d] <= pointer
        BY <2>1, <3>2, <3>3 DEF IInv, TypeOK, NobodyAhead, Steps
    <3>5. next' \in [Clients -> 0..NumSteps]
        BY <3>2, <3>4 DEF IInv, TypeOK
    <3> QED
        BY <2>1, <2>4, <3>4, <3>5 DEF IInv, TypeOK, PointerMatchesResults, NobodyAhead, rowVars
  <2>5. CASE (IsBlocked(k) \/ Exhausted(k)) /\ Stop(c) /\ UNCHANGED <<rowVars, calls>>
    <3>1. next' \in [Clients -> 0..NumSteps] /\ \A d \in Clients : next'[d] <= pointer
        BY <2>5 DEF IInv, TypeOK, NobodyAhead, Stop, Steps
    <3> QED
        BY <2>1, <2>5, <3>1 DEF IInv, TypeOK, PointerMatchesResults, NobodyAhead, rowVars
  <2> QED
      BY <1>2, <2>2, <2>3, <2>4, <2>5 DEF ResumeStep
<1>3. ASSUME NEW c \in Clients, DieInStep(c)
      PROVE  IInv'
  <2>1. next[c] \in Steps
      BY <1>3 DEF IInv, TypeOK, DieInStep, Steps
  <2> QED
      BY <1>3, <2>1 DEF IInv, TypeOK, PointerMatchesResults, NobodyAhead, DieInStep, Call,
                        Stop, rowVars, Steps
<1>4. ASSUME NEW k \in Steps, Redeliver(k)
      PROVE  IInv'
  <2>1. k <= pointer /\ (Succeed(k) \/ Fail(k)) /\ next' = next /\ crashes' = crashes
      BY <1>4 DEF Redeliver
  <2>2. pointer \in Steps /\ pointer' \in Steps /\ pointer' >= pointer
      BY <2>1, StepKeepsRow DEF IInv, TypeOK, RowTypeOK
  <2>3. \A d \in Clients : next'[d] <= pointer'
      BY <2>1, <2>2 DEF IInv, TypeOK, NobodyAhead, Steps
  <2> QED
      BY <2>1, <2>3, StepKeepsRow DEF IInv, TypeOK, RowTypeOK, NobodyAhead
<1>5. CASE WriteRedlineStatus
    BY <1>5 DEF IInv, TypeOK, PointerMatchesResults, NobodyAhead, WriteRedlineStatus
<1>6. CASE UNCHANGED vars
    BY <1>6 DEF IInv, TypeOK, PointerMatchesResults, NobodyAhead, vars, rowVars
<1> QED
    BY <1>1, <1>2, <1>3, <1>4, <1>5, <1>6 DEF Next

(* The run's type invariant, the agreement of pointer and results, and the  *)
(* fact that no resumer is ahead of the pointer, in every behaviour.        *)
THEOREM InvariantHolds ==
    ASSUME OutOfOrder = FALSE
    PROVE  Spec => []IInv
<1>1. IInv /\ [Next]_vars => IInv'
    BY NextIInv
<1> QED
    BY <1>1, InitIInv, PTL DEF Spec

(* The row and the resumers have their types in every behaviour.            *)
THEOREM TypeCorrect ==
    ASSUME OutOfOrder = FALSE
    PROVE  Spec => []TypeOK
<1>1. IInv => TypeOK
    BY DEF IInv
<1> QED
    BY <1>1, InvariantHolds, PTL

(* Exactly the steps before the resume pointer have succeeded, however      *)
(* resumers and redelivered calls interleave and wherever they die.         *)
THEOREM PointerCorrect ==
    ASSUME OutOfOrder = FALSE
    PROVE  Spec => []PointerMatchesResults
<1>1. IInv => PointerMatchesResults
    BY DEF IInv
<1> QED
    BY <1>1, InvariantHolds, PTL

-----------------------------------------------------------------------------
(* What a step of the specification does to the row: nothing, or it         *)
(* executes the step at the pointer, or it writes the redline status.       *)
LEMMA NextIsStepOrStutter ==
    ASSUME OutOfOrder = FALSE, IInv, [Next]_vars
    PROVE  \/ Succeed(pointer) /\ status = "PENDING"
           \/ Fail(pointer) /\ status = "PENDING"
           \/ WriteRedlineStatus
           \/ /\ UNCHANGED rowVars
              /\ \/ UNCHANGED calls
                 \/ \E k \in Steps : Executes(k) /\ Call(k)
<1>1. ASSUME NEW k \in Steps, k <= pointer, Succeed(k) \/ Fail(k)
      PROVE  k = pointer /\ status = "PENDING"
    BY <1>1, ExecutingIsPointer DEF Succeed, Fail
<1>2. ASSUME NEW c \in Clients, ResumeStart(c) \/ ResumeStep(c) \/ DieInStep(c)
      PROVE  \/ \E k \in Steps : k <= pointer /\ (Succeed(k) \/ Fail(k))
             \/ /\ UNCHANGED rowVars
                /\ \/ UNCHANGED calls
                   \/ \E k \in Steps : Executes(k) /\ Call(k)
  <2>1. next[c] # 0 => next[c] \in Steps /\ next[c] <= pointer
      BY DEF IInv, TypeOK, NobodyAhead, Steps
  <2>2. CASE ResumeStart(c)
      BY <2>2 DEF ResumeStart
  <2>3. CASE ResumeStep(c)
      BY <2>1, <2>3 DEF ResumeStep
  <2>4. CASE DieInStep(c)
      BY <2>1, <2>4 DEF DieInStep
  <2> QED
      BY <1>2, <2>2, <2>3, <2>4
<1>3. ASSUME NEW k \in Steps, Redeliver(k)
      PROVE  k <= pointer /\ (Succeed(k) \/ Fail(k))
    BY <1>3 DEF Redeliver
<1>4. CASE UNCHANGED vars
    BY <1>4 DEF vars
<1> QED
    BY <1>1, <1>2, <1>3, <1>4 DEF Next

(* The recovery point never moves backwards.                                *)
THEOREM PointerMonotone ==
    ASSUME OutOfOrder = FALSE
    PROVE  Spec => PointerNeverRetreats
<1>1. IInv /\ [Next]_vars => [pointer' >= pointer]_vars
  <2> SUFFICES ASSUME IInv, [Next]_vars
               PROVE  pointer' >= pointer
      OBVIOUS
  <2>1. pointer \in Steps /\ pointer <= pointer
      BY DEF IInv, TypeOK, Steps
  <2>2. CASE Succeed(pointer) \/ Fail(pointer)
      BY <2>1, <2>2, StepKeepsRow
  <2>3. CASE WriteRedlineStatus \/ UNCHANGED rowVars
      BY <2>1, <2>3 DEF WriteRedlineStatus, rowVars
  <2> QED
      BY <2>2, <2>3, NextIsStepOrStutter
<1> QED
    BY <1>1, InvariantHolds, PTL DEF Spec, PointerNeverRetreats

(* run_step is idempotent: a step that has succeeded is not executed again. *)
THEOREM Idempotent ==
    ASSUME OutOfOrder = FALSE
    PROVE  Spec => SucceededStepsRest
<1> DEFINE Rest == \A k \in Steps :
              result[k] = "success" => result'[k] = "success" /\ calls'[k] = calls[k]
<1>1. IInv /\ [Next]_vars => [Rest]_vars
  <2> SUFFICES ASSUME IInv, [Next]_vars
               PROVE  Rest
      OBVIOUS
  <2>1. pointer \in Steps
      BY DEF IInv, TypeOK
  <2>2. CASE Succeed(pointer) \/ Fail(pointer)
    <3>1. result[pointer] # "success"
        BY <2>2 DEF Succeed, Fail, Executes, Skipped
    <3> QED
        BY <2>2, <3>1 DEF IInv, TypeOK, Succeed, Fail, Record, Call
  <2>3. CASE WriteRedlineStatus \/ UNCHANGED <<rowVars, calls>>
      BY <2>3 DEF WriteRedlineStatus, rowVars
  <2>4. CASE UNCHANGED rowVars /\ \E k \in Steps : Executes(k) /\ Call(k)
      BY <2>4 DEF IInv, TypeOK, rowVars, Executes, Skipped, Call
  <2> QED
      BY <2>2, <2>3, <2>4, NextIsStepOrStutter
<1> QED
    BY <1>1, InvariantHolds, PTL DEF Spec, SucceededStepsRest

(* Every call of a handler left a result or a counted failure in the row,   *)
(* or its caller died in it: no other call is lost or counted twice.        *)
THEOREM CallsAccounted ==
    ASSUME OutOfOrder = FALSE
    PROVE  Spec => []CallsAccountedFor
<1>1. Init => CallsAccountedFor
    BY DEF Init, CallsAccountedFor
<1>2. IInv /\ CallsAccountedFor /\ [Next]_vars => CallsAccountedFor'
  <2> SUFFICES ASSUME IInv, CallsAccountedFor, [Next]_vars
               PROVE  CallsAccountedFor'
      OBVIOUS
  <2> USE DEF CallsAccountedFor
  <2>1. /\ result \in [Steps -> ResultStatus] /\ tries \in [Steps -> 0..MaxRetries]
        /\ calls \in [Steps -> Nat] /\ crashes \in Nat
      BY DEF IInv, TypeOK
  <2>2. ASSUME NEW k \in Steps, Succeed(k) \/ Fail(k), crashes' = crashes
        PROVE  CallsAccountedFor'
    <3>1. result[k] # "success"
        BY <2>2 DEF Succeed, Fail, Executes, Skipped
    <3>2. CASE Succeed(k)
        BY <2>1, <2>2, <3>1, <3>2 DEF Succeed, Record, Call
    <3>3. CASE Fail(k)
        BY <2>1, <2>2, <3>1, <3>3 DEF Fail, Record, Call
    <3> QED
        BY <2>2, <3>2, <3>3
  <2>3. CASE UNCHANGED <<rowVars, calls, crashes>>
      BY <2>3 DEF rowVars
  <2>4. ASSUME NEW c \in Clients, ResumeStep(c)
        PROVE  CallsAccountedFor'
    <3>1. next[c] \in Steps /\ crashes' = crashes
        BY <2>4 DEF IInv, TypeOK, ResumeStep, Steps
    <3> QED
        BY <2>2, <2>3, <2>4, <3>1 DEF ResumeStep
  <2>5. ASSUME NEW c \in Clients, DieInStep(c)
        PROVE  CallsAccountedFor'
    <3>1. next[c] \in Steps /\ crashes' = crashes + 1 /\ UNCHANGED <<result, tries>>
        BY <2>5 DEF IInv, TypeOK, DieInStep, rowVars, Steps
    <3> QED
        BY <2>1, <2>5, <3>1 DEF DieInStep, Call
  <2>6. CASE WriteRedlineStatus
      BY <2>6 DEF WriteRedlineStatus
  <2> QED
      BY <2>2, <2>3, <2>4, <2>5, <2>6 DEF Next, ResumeStart, Redeliver, vars, rowVars
<1> QED
    BY <1>1, <1>2, InvariantHolds, PTL DEF Spec

-----------------------------------------------------------------------------
(* The run implements the sequence of steps that each take effect once, in  *)
(* order, and not past the barrier while it is closed, though the redline   *)
(* status is written while resumers and redelivered calls are under way     *)
(* (run_step reads _is_blocked in every call).                              *)
THEOREM Refinement ==
    ASSUME OutOfOrder = FALSE
    PROVE  Spec => ImplementsSequence
<1>1. Init => Sequence!SInit
    BY DEF Init, Sequence!SInit, Done
<1>2. IInv /\ [Next]_vars => [Sequence!Advance \/ Sequence!Redline]_(Sequence!svars)
  <2> SUFFICES ASSUME IInv, [Next]_vars
               PROVE  [Sequence!Advance \/ Sequence!Redline]_(Sequence!svars)
      OBVIOUS
  <2>1. pointer \in Steps
      BY DEF IInv, TypeOK
  <2>2. CASE Succeed(pointer) /\ status = "PENDING"
    <3>1. Done = pointer - 1 /\ blocked' = blocked
        BY <2>2 DEF Succeed, Done
    <3>2. Done' = pointer
        BY <2>1, <2>2 DEF Succeed, Done, Steps
    <3>3. pointer - 1 < IF blocked THEN Barrier ELSE NumSteps
        BY <2>1, <2>2 DEF Succeed, Executes, IsBlocked, Steps
    <3> QED
        BY <2>1, <3>1, <3>2, <3>3 DEF Sequence!Advance, Steps
  <2>3. CASE Fail(pointer) /\ status = "PENDING"
      BY <2>3 DEF Fail, Done, Sequence!svars
  <2>4. CASE WriteRedlineStatus
      BY <2>4 DEF WriteRedlineStatus, Done, Sequence!Redline
  <2>5. CASE UNCHANGED rowVars
      BY <2>5 DEF rowVars, Done, Sequence!svars
  <2> QED
      BY <2>2, <2>3, <2>4, <2>5, NextIsStepOrStutter
<1> QED
    BY <1>1, <1>2, InvariantHolds, PTL DEF Spec, ImplementsSequence, Sequence!SSpec
=============================================================================
