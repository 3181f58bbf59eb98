------------------------ MODULE SectionWorkflow_proofs ------------------------
(***************************************************************************)
(* Proofs about SectionWorkflow, for any outline, any number of requests,  *)
(* overlapping or not, and any number of retries, failures and decisions.  *)
(***************************************************************************)
EXTENDS SectionWorkflow, TLAPS

USE CountsAssumption, FilesAssumption
USE DEF savedVars, sectionVars, context

(* What a stage holds: its payload once it is computed or read, from G2 on  *)
(* the extract of G1, and from G3 on the draft of G2.                       *)
Carries(c) ==
    /\ task[c] \in {"persisting", "persisted", "saved"} => held[c] \in Product
    /\ gate[c] \in {2, 3, 4} => extract[c] \in Product
    /\ gate[c] \in {3, 4} => draft[c] \in Product

(* A chain that runs has the files of the gates behind it, and from the     *)
(* moment it writes it has its own.  One that was not sent has no task.     *)
Behind(c) ==
    /\ api[c] \in {"idle", "checked"} => task[c] = "none"
    /\ task[c] \notin Running => gate[c] = 1
    /\ task[c] \in Running =>
         \A g \in Gates : g < gate[c] => product[section[c]][g] # NoFile
    /\ task[c] \in {"persisting", "persisted", "saved"} => product[section[c]][gate[c]] # NoFile
    /\ task[c] = "saved" => gate[c] = 4

ChainsCarry == \A c \in Chains : Carries(c)
ChainsBehind == \A c \in Chains : Behind(c)

(* An undecided outline has not even a request that passed the check.       *)
Undecided ==
    run.status = "OUTLINE_PENDING_CONFIRM" => \A c \in Chains : api[c] \in {"idle", "refused"}

TypeInv == TypeOK /\ ChainsCarry
FileInv == ChainsBehind /\ ProductsFormPrefix

-----------------------------------------------------------------------------
(* Types.                                                                   *)
USE DEF Gates, Running, Finished, ApiPhase, StepStatus, OutlineStatus, SectionStatus

(* Every status a stage records is one a product may have.                  *)
LEMMA ComputedIsProduct ==
    ASSUME TypeInv, NEW c \in Chains, task[c] = "computing",
           NEW p \in IF held[c] = NoFile THEN Computed(c) ELSE {held[c]}
    PROVE  p \in Product
<1>1. CASE held[c] # NoFile
  BY <1>1 DEF TypeInv, TypeOK
<1>2. CASE held[c] = NoFile
  <2>1. p \in Computed(c) /\ gate[c] \in 1..4
      BY <1>2 DEF TypeInv, TypeOK
  <2>2. gate[c] \in {3, 4} => draft[c] \in Product
      BY DEF TypeInv, ChainsCarry, Carries
  <2>3. gate[c] \in {2, 3, 4} => extract[c] \in Product
      BY DEF TypeInv, ChainsCarry, Carries
  <2> QED
      BY <2>1, <2>2, <2>3, ExtractAssumption DEF Computed, Product, ProductStatus, DraftStatus
<1> QED
  BY <1>1, <1>2

(* The type invariant in three parts, of which a step touches few.          *)
RowType ==
    run \in [status : OutlineStatus, sections : [Sections -> SectionStatus],
             step : 0..5, stepStatus : StepStatus, resume : 1..5,
             retries : Nat, error : BOOLEAN]

FileType ==
    /\ product \in [Sections -> [Gates -> Product \cup {NoFile, Torn}]]
    /\ output \in [Sections -> ContentRow \cup {NoFile}]
    /\ requirement \in Chains \cup {NoFile}

TaskType ==
    /\ section \in [Chains -> Sections]
    /\ overlapped \subseteq Sections
    /\ api \in [Chains -> ApiPhase]
    /\ task \in [Chains -> {"none"} \cup Running \cup Finished]
    /\ gate \in [Chains -> Gates]
    /\ retries \in [Chains -> 0..MaxTaskRetries]
    /\ held \in [Chains -> Product \cup {NoFile}]
    /\ extract \in [Chains -> Product \cup {NoFile}]
    /\ draft \in [Chains -> Product \cup {NoFile}]
    /\ faults \in 0..MaxFaults
    /\ decisions \in 0..MaxDecisions
    /\ ChainsCarry

\* The types, by what changes them: the row, the files, the tasks.
LEMMA TypeParts == TypeInv <=> RowType /\ FileType /\ TaskType
BY DEF TypeInv, TypeOK, RowType, FileType, TaskType

\* The types hold at first.
LEMMA InitTypeInv == Init => TypeInv
<1> SUFFICES ASSUME Init PROVE TypeInv
  OBVIOUS
<1>1. RowType
  BY DEF Init, RowType
<1>2. FileType
  BY DEF Init, FileType
<1>3. TaskType
  BY DEF Init, TaskType, ChainsCarry, Carries
<1> QED
  BY <1>1, <1>2, <1>3, TypeParts

(* The handlers' steps.                                                     *)
HandlerStep ==
    \/ \E approved \in BOOLEAN : ConfirmOutline(approved)
    \/ \E s \in Sections, approved \in BOOLEAN : ConfirmSection(s, approved)
    \/ \E c \in Chains : CheckRequest(c) \/ Dispatch(c) \/ DispatchFails(c) \/ MarkPending(c) \/ ApiCrash(c)

TaskStep(c) == StageStep(c) \/ StageError(c) \/ UnrecordedError(c) \/ WorkerCrash(c)

\* The endpoints keep the types.
LEMMA HandlerTypes == ASSUME RowType, FileType, TaskType, HandlerStep PROVE RowType' /\ FileType' /\ TaskType'
<1> USE DEF fileVars, taskVars, bounds, Decision, Fault
<1>1. ASSUME NEW approved \in BOOLEAN, ConfirmOutline(approved) PROVE RowType' /\ FileType' /\ TaskType'
  <2>1. RowType'
      BY <1>1 DEF ConfirmOutline, RowType
  <2> QED
      BY <1>1, <2>1 DEF ConfirmOutline, FileType, TaskType, ChainsCarry, Carries
<1>2. ASSUME NEW s \in Sections, NEW approved \in BOOLEAN, ConfirmSection(s, approved)
      PROVE  RowType' /\ FileType' /\ TaskType'
  <2>1. RowType'
    <3>1. \A st \in SectionStatus : [run.sections EXCEPT ![s] = st] \in [Sections -> SectionStatus]
        BY DEF RowType
    <3>2. CASE approved
      <4>1. run' = [run EXCEPT !.sections = [run.sections EXCEPT ![s] = "SECTION_CONFIRMED"],
                               !.step = 5, !.stepStatus = "paused", !.resume = 5]
          BY <1>2, <3>2 DEF ConfirmSection, RowType
      <4>2. run' = [status |-> run.status, sections |-> [run.sections EXCEPT ![s] = "SECTION_CONFIRMED"],
                    step |-> 5, stepStatus |-> "paused", resume |-> 5, retries |-> run.retries, error |-> run.error]
          BY <4>1 DEF RowType
      <4>3. [run.sections EXCEPT ![s] = "SECTION_CONFIRMED"] \in [Sections -> SectionStatus]
          BY <3>1
      <4>4. run.status \in OutlineStatus /\ run.retries \in Nat /\ run.error \in BOOLEAN
          BY DEF RowType
      <4> QED
          BY <4>2, <4>3, <4>4 DEF RowType
    <3>3. CASE ~approved
      <4>1. run' = [run EXCEPT !.sections = [run.sections EXCEPT ![s] = "SECTION_REJECTED"]]
          BY <1>2, <3>3 DEF ConfirmSection, RowType
      <4> QED
          BY <3>1, <4>1 DEF RowType
    <3> QED
        BY <3>2, <3>3
  <2> QED
      BY <1>2, <2>1 DEF ConfirmSection, FileType, TaskType, ChainsCarry, Carries
<1>3. ASSUME NEW c \in Chains, CheckRequest(c) \/ Dispatch(c) \/ DispatchFails(c) \/ MarkPending(c) \/ ApiCrash(c)
      PROVE  RowType' /\ FileType' /\ TaskType'
  <2>1. RowType'
    <3>1. CASE MarkPending(c)
      <4>1. run' = [run EXCEPT !.sections = [run.sections EXCEPT ![section[c]] = "SECTION_PENDING_CONFIRM"],
                               !.step = 0, !.stepStatus = "generating", !.resume = 1, !.error = FALSE]
          BY <3>1 DEF MarkPending, RowType
      <4>2. [run.sections EXCEPT ![section[c]] = "SECTION_PENDING_CONFIRM"] \in [Sections -> SectionStatus]
          BY DEF RowType, TaskType
      <4>3. run' = [status |-> run.status,
                    sections |-> [run.sections EXCEPT ![section[c]] = "SECTION_PENDING_CONFIRM"],
                    step |-> 0, stepStatus |-> "generating", resume |-> 1, retries |-> run.retries, error |-> FALSE]
          BY <4>1 DEF RowType
      <4>4. run.status \in OutlineStatus /\ run.retries \in Nat
          BY DEF RowType
      <4> QED
          BY <4>2, <4>3, <4>4 DEF RowType
    <3>2. CASE ~MarkPending(c)
        BY <1>3, <3>2 DEF CheckRequest, Dispatch, DispatchFails, ApiCrash, RowType
    <3> QED
        BY <3>1, <3>2
  <2>2. FileType'
      BY <1>3 DEF CheckRequest, Dispatch, DispatchFails, MarkPending, ApiCrash, FileType
  <2>3. CASE Dispatch(c)
      BY <2>1, <2>2, <2>3 DEF Dispatch, TaskType, ChainsCarry, Carries
  <2>4. CASE ~Dispatch(c)
      BY <1>3, <2>1, <2>2, <2>4 DEF CheckRequest, DispatchFails, MarkPending, ApiCrash, TaskType, ChainsCarry, Carries
  <2> QED
      BY <2>3, <2>4
<1> QED
  BY <1>1, <1>2, <1>3 DEF HandlerStep

(* The stages' steps.                                                       *)
LEMMA ProgressType ==
    ASSUME RowType, NEW k \in 0..5, NEW st \in StepStatus, NEW r \in 1..5, NEW f \in BOOLEAN,
           Progress(k, st, r, f)
    PROVE  RowType'
<1>1. run' = [status |-> run.status, sections |-> run.sections, step |-> k, stepStatus |-> st, resume |-> r,
              retries |-> IF f THEN run.retries + 1 ELSE run.retries, error |-> run.error \/ f]
  BY DEF RowType, Progress
<1>2. /\ run.status \in OutlineStatus /\ run.sections \in [Sections -> SectionStatus]
      /\ run.retries \in Nat /\ run.error \in BOOLEAN
  BY DEF RowType
<1>3. (IF f THEN run.retries + 1 ELSE run.retries) \in Nat /\ (run.error \/ f) \in BOOLEAN
  BY <1>2
<1> QED
  BY <1>1, <1>2, <1>3 DEF RowType

(* A task that is not retried ends, and gives up what it held.              *)
LEMMA EndType ==
    ASSUME TaskType, NEW c \in Chains, NEW how \in Finished, End(c, how),
           UNCHANGED <<sectionVars, api>>, faults' \in 0..MaxFaults, decisions' \in 0..MaxDecisions
    PROVE  TaskType'
BY DEF TaskType, End, ChainsCarry, Carries

\* A task that is retried, or gives up, keeps the tasks' types.
LEMMA RetryType ==
    ASSUME TaskType, NEW c \in Chains, NEW transient \in BOOLEAN, RetryOrEnd(c, transient),
           UNCHANGED <<sectionVars, api>>, faults' \in 0..MaxFaults, decisions' \in 0..MaxDecisions
    PROVE  TaskType'
<1>1. CASE transient /\ retries[c] < MaxTaskRetries
  BY <1>1 DEF TaskType, RetryOrEnd, ChainsCarry, Carries
<1>2. CASE ~(transient /\ retries[c] < MaxTaskRetries)
  <2>1. End(c, "failed")
      BY <1>2 DEF RetryOrEnd
  <2> QED
      BY <2>1, EndType
<1> QED
  BY <1>1, <1>2

\* The tasks keep the types.
LEMMA TaskTypes ==
    ASSUME RowType, FileType, TaskType, NEW c \in Chains, TaskStep(c)
    PROVE  RowType' /\ FileType' /\ TaskType'
<1> USE DEF fileVars, taskVars, bounds, Fault
<1>0. /\ gate[c] \in Gates /\ section[c] \in Sections /\ TypeInv
      /\ faults \in 0..MaxFaults /\ decisions \in 0..MaxDecisions
  BY TypeParts DEF TaskType
<1>1. CASE Load(c)
  <2>1. RowType' /\ FileType'
      BY <1>1 DEF Load, RowType, FileType
  <2>2. product[section[c]][gate[c]] \in Product \cup {NoFile}
      BY <1>0, <1>1 DEF Load, File, FileType
  <2>3. TaskType'
      BY <1>1, <2>2 DEF Load, File, TaskType, ChainsCarry, Carries
  <2> QED
      BY <2>1, <2>3
<1>2. CASE Produce(c)
  <2>1. RowType'
      BY <1>2 DEF Produce, RowType
  <2>2. FileType'
      BY <1>0, <1>2 DEF Produce, SetFile, FileType
  <2>3. PICK p \in IF held[c] = NoFile THEN Computed(c) ELSE {held[c]} : held' = [held EXCEPT ![c] = p]
      BY <1>2 DEF Produce
  <2>4. p \in Product
      BY <1>0, <1>2, <2>3, ComputedIsProduct DEF Produce
  <2>5. TaskType'
      BY <1>2, <2>3, <2>4 DEF Produce, TaskType, ChainsCarry, Carries
  <2> QED
      BY <2>1, <2>2, <2>5
<1>3. CASE FillFile(c)
  <2>1. RowType'
      BY <1>3 DEF FillFile, RowType
  <2>2. held[c] \in Product
      BY <1>3 DEF FillFile, TaskType, ChainsCarry, Carries
  <2>3. FileType'
      BY <1>0, <1>3, <2>2 DEF FillFile, SetFile, FileType
  <2>4. TaskType'
      BY <1>3 DEF FillFile, TaskType, ChainsCarry, Carries
  <2> QED
      BY <2>1, <2>3, <2>4
<1>4. CASE HandOver(c)
  <2>1. gate[c] \in 1..3
      BY <1>0, <1>4 DEF HandOver
  <2>2. StageDone[gate[c]] \in StepStatus
      BY <2>1 DEF StageDone
  <2>3. RowType'
    <3>1. Progress(gate[c], StageDone[gate[c]], gate[c] + 1, FALSE)
        BY <1>4 DEF HandOver
    <3>2. gate[c] \in 0..5 /\ gate[c] + 1 \in 1..5
        BY <2>1
    <3> QED
        BY <2>2, <3>1, <3>2, ProgressType
  <2>4. FileType'
      BY <1>4 DEF HandOver, FileType
  <2>5. held[c] \in Product
      BY <1>4 DEF HandOver, TaskType, ChainsCarry, Carries
  <2>6. draft' \in [Chains -> Product \cup {NoFile}] /\ extract' \in [Chains -> Product \cup {NoFile}]
      BY <1>4, <2>5 DEF HandOver, TaskType
  <2>7. ChainsCarry'
      BY <1>4, <2>1, <2>5 DEF HandOver, TaskType, ChainsCarry, Carries
  <2>8. TaskType'
      BY <1>4, <2>1, <2>6, <2>7 DEF HandOver, TaskType
  <2> QED
      BY <2>3, <2>4, <2>8
<1>5. CASE SaveOutput(c)
  <2>1. RowType'
      BY <1>5 DEF SaveOutput, RowType
  <2>2. draft[c] \in Product
      BY <1>5 DEF SaveOutput, TaskType, ChainsCarry, Carries
  <2>3. extract[c] \in Product
      BY <1>5 DEF SaveOutput, TaskType, ChainsCarry, Carries
  <2>4. CodesOf(c) \in Chains \cup {NoFile}
      BY <2>3 DEF CodesOf, Product
  <2>5. [title |-> c, codes |-> CodesOf(c), origin |-> draft[c].origin,
         facts |-> draft[c].facts, status |-> FinalStatus(c)] \in ContentRow
      BY <2>2, <2>4 DEF FinalStatus, ContentRow, Product, ProductStatus
  <2>6. FileType'
      BY <1>0, <1>5, <2>4, <2>5 DEF SaveOutput, FileType
  <2>7. TaskType'
      BY <1>5 DEF SaveOutput, TaskType, ChainsCarry, Carries
  <2> QED
      BY <2>1, <2>6, <2>7
<1>6. CASE Finish(c)
  <2>1. RowType'
    <3>1. CASE UNCHANGED run
        BY <3>1 DEF RowType
    <3>2. CASE Progress(5, "paused", 5, FALSE) \/ Progress(4, "failed", 4, TRUE)
      <4>1. {4, 5} \subseteq 0..5 /\ {4, 5} \subseteq 1..5 /\ {"paused", "failed"} \subseteq StepStatus
          OBVIOUS
      <4> HIDE DEF StepStatus
      <4> QED
          BY <3>2, <4>1, ProgressType
    <3> QED
        BY <1>6, <3>1, <3>2 DEF Finish
  <2>2. FileType'
      BY <1>6 DEF Finish, FileType
  <2>3. TaskType'
      BY <1>0, <1>6, EndType DEF Finish
  <2> QED
      BY <2>1, <2>2, <2>3
<1>7. CASE LoadTorn(c) \/ StageError(c)
  <2>1. PICK transient \in BOOLEAN : StageFails(c, transient)
      BY <1>7 DEF LoadTorn, StageError
  <2>2. RowType'
    <3>1. Progress(gate[c], "failed", gate[c], TRUE)
        BY <2>1 DEF StageFails
    <3>2. gate[c] \in 0..5 /\ gate[c] \in 1..5 /\ "failed" \in StepStatus
        BY <1>0
    <3> HIDE DEF StepStatus
    <3> QED
        BY <3>1, <3>2, ProgressType
  <2>3. FileType'
      BY <2>1 DEF StageFails, FileType
  <2>4. faults' \in 0..MaxFaults /\ decisions' \in 0..MaxDecisions
    <3>1. CASE LoadTorn(c)
        BY <1>0, <3>1 DEF LoadTorn
    <3>2. CASE StageError(c)
        BY <1>0, <3>2 DEF StageError
    <3> QED
        BY <1>7, <3>1, <3>2
  <2>5. TaskType'
      BY <2>1, <2>4, RetryType DEF StageFails
  <2> QED
      BY <2>2, <2>3, <2>5
<1>8. CASE UnrecordedError(c)
  <2>1. PICK transient \in BOOLEAN : RetryOrEnd(c, transient)
      BY <1>8 DEF UnrecordedError
  <2>2. faults' \in 0..MaxFaults /\ decisions' \in 0..MaxDecisions
      BY <1>0, <1>8 DEF UnrecordedError
  <2>3. TaskType'
      BY <1>8, <2>1, <2>2, RetryType DEF UnrecordedError
  <2> QED
      BY <1>8, <2>3 DEF UnrecordedError, RowType, FileType
<1>9. CASE WorkerCrash(c)
  <2>1. faults' \in 0..MaxFaults /\ decisions' \in 0..MaxDecisions
      BY <1>0, <1>9 DEF WorkerCrash
  <2>2. TaskType'
      BY <1>9, <2>1, EndType DEF WorkerCrash
  <2> QED
      BY <1>9, <2>2 DEF WorkerCrash, RowType, FileType
<1> QED
  BY <1>1, <1>2, <1>3, <1>4, <1>5, <1>6, <1>7, <1>8, <1>9 DEF TaskStep, StageStep

(* The two groups are all there is.                                         *)
LEMMA NextIsGrouped == Next <=> HandlerStep \/ \E c \in Chains : TaskStep(c)
BY DEF Next, HandlerStep, TaskStep

\* Every step keeps the types.
LEMMA NextTypeInv == TypeInv /\ [Next]_vars => TypeInv'
<1> SUFFICES ASSUME TypeInv, [Next]_vars PROVE RowType' /\ FileType' /\ TaskType'
  BY DEF TypeInv, TypeOK, RowType, FileType, TaskType
<1> RowType /\ FileType /\ TaskType
  BY TypeParts
<1>1. CASE HandlerStep
  BY <1>1, HandlerTypes
<1>2. ASSUME NEW c \in Chains, TaskStep(c) PROVE RowType' /\ FileType' /\ TaskType'
  BY <1>2, TaskTypes
<1>3. CASE UNCHANGED vars
  BY <1>3 DEF vars, fileVars, taskVars, bounds, RowType, FileType, TaskType, ChainsCarry, Carries
<1> QED
  BY <1>1, <1>2, <1>3, NextIsGrouped

(* The row, the files and the tasks have their types, and no chain is       *)
(* retried more often than Celery is told to (celery_app, tasks.retry).     *)
THEOREM TypeCorrect == Spec => []TypeOK
<1>1. TypeInv => TypeOK
  BY DEF TypeInv
<1> QED
  BY <1>1, InitTypeInv, NextTypeInv, PTL DEF Spec

-----------------------------------------------------------------------------
(* Files.                                                                   *)

(* A file may be torn, but it does not go away; and only the task at its    *)
(* gate creates it.                                                         *)
LEMMA FilesStay ==
    ASSUME TypeInv, NEW c \in Chains, TaskStep(c), NEW s \in Sections, NEW g \in Gates
    PROVE  /\ product[s][g] # NoFile => product'[s][g] # NoFile
           /\ product'[s][g] # NoFile /\ product[s][g] = NoFile =>
                s = section[c] /\ g = gate[c] /\ task[c] \in {"computing", "persisting"}
<1>0. gate[c] \in Gates /\ section[c] \in Sections /\ product \in [Sections -> [Gates -> Product \cup {NoFile, Torn}]]
  BY DEF TypeInv, TypeOK
<1>1. CASE Produce(c) \/ FillFile(c)
  <2>1. PICK new \in Product \cup {Torn} : product' = [product EXCEPT ![section[c]][gate[c]] = new]
      BY <1>1 DEF Produce, FillFile, SetFile, TypeInv, ChainsCarry, Carries
  <2>2. task[c] \in {"computing", "persisting"}
      BY <1>1 DEF Produce, FillFile
  <2> QED
      BY <1>0, <2>1, <2>2
<1>2. CASE UNCHANGED product
  BY <1>2
<1>3. Produce(c) \/ FillFile(c) \/ UNCHANGED product
  BY DEF TaskStep, StageStep, Load, LoadTorn, HandOver, SaveOutput, Finish, StageError, StageFails,
         UnrecordedError, WorkerCrash, fileVars
<1> QED
  BY <1>1, <1>2, <1>3

(* Where a step of its chain leads a task.                                  *)
LEMMA OwnStep ==
    ASSUME TypeInv, NEW c \in Chains, Behind(c), TaskStep(c)
    PROVE  Behind(c)'
<1> USE DEF Behind, TypeInv, TypeOK
<1>0. /\ gate[c] \in Gates /\ section'[c] = section[c] /\ section[c] \in Sections /\ task[c] \in Running
      /\ api'[c] = api[c]
      /\ \A g \in Gates : product[section[c]][g] # NoFile => product'[section[c]][g] # NoFile
  <2>1. section' = section /\ task[c] \in Running /\ api' = api
      BY DEF TaskStep, StageStep, Load, LoadTorn, Produce, FillFile, HandOver, SaveOutput, Finish, StageError,
             StageFails, UnrecordedError, WorkerCrash
  <2> QED
      BY <2>1, FilesStay
<1>1. CASE Load(c)
  BY <1>0, <1>1 DEF Load, File, fileVars
<1>2. CASE Produce(c)
  <2>1. product'[section[c]][gate[c]] # NoFile
      BY <1>0, <1>2 DEF Produce, SetFile
  <2> QED
      BY <1>0, <1>2, <2>1 DEF Produce
<1>3. CASE FillFile(c)
  BY <1>0, <1>3 DEF FillFile
<1>4. CASE HandOver(c)
  BY <1>0, <1>4 DEF HandOver, fileVars
<1>5. CASE SaveOutput(c)
  BY <1>0, <1>5 DEF SaveOutput
<1>6. CASE Finish(c) \/ WorkerCrash(c)
  <2>1. task'[c] \in {"done", "lost"} /\ gate'[c] = 1
      BY <1>6 DEF Finish, WorkerCrash, End
  <2> QED
      BY <1>0, <2>1
<1>7. CASE LoadTorn(c) \/ StageError(c) \/ UnrecordedError(c)
  <2>1. PICK transient \in BOOLEAN : RetryOrEnd(c, transient)
      BY <1>7 DEF LoadTorn, StageError, StageFails, UnrecordedError
  <2>2. \/ task' = [task EXCEPT ![c] = "queued"] /\ gate' = gate
        \/ task' = [task EXCEPT ![c] = "failed"] /\ gate' = [gate EXCEPT ![c] = 1]
      BY <2>1 DEF RetryOrEnd, End
  <2> QED
      BY <1>0, <2>2
<1> QED
  BY <1>1, <1>2, <1>3, <1>4, <1>5, <1>6, <1>7 DEF TaskStep, StageStep

(* The other chains stay where they are.                                    *)
LEMMA OtherStep ==
    ASSUME TypeInv, NEW c \in Chains, NEW d \in Chains \ {c}, Behind(d), TaskStep(c)
    PROVE  Behind(d)'
<1>1. section' = section /\ api' = api /\ task'[d] = task[d] /\ gate'[d] = gate[d]
  <2> USE DEF TypeInv, TypeOK
  <2>1. CASE Load(c) \/ Produce(c) \/ FillFile(c)
      BY <2>1 DEF Load, Produce, FillFile
  <2>2. CASE HandOver(c) \/ SaveOutput(c)
      BY <2>2 DEF HandOver, SaveOutput
  <2>3. CASE Finish(c) \/ WorkerCrash(c)
      BY <2>3 DEF Finish, WorkerCrash, End
  <2>4. CASE LoadTorn(c) \/ StageError(c) \/ UnrecordedError(c)
    <3>1. section' = section /\ api' = api /\ \E transient \in BOOLEAN : RetryOrEnd(c, transient)
        BY <2>4 DEF LoadTorn, StageError, StageFails, UnrecordedError
    <3> QED
        BY <3>1 DEF RetryOrEnd, End
  <2> QED
      BY <2>1, <2>2, <2>3, <2>4 DEF TaskStep, StageStep
<1>2. gate[d] \in Gates /\ section[d] \in Sections
  BY DEF TypeInv, TypeOK
<1> QED
  BY <1>1, <1>2, FilesStay DEF Behind

\* Nothing has been produced at first.
LEMMA InitFileInv == Init => FileInv
BY DEF Init, FileInv, ChainsBehind, Behind, ProductsFormPrefix

\* The endpoints leave the files alone.
LEMMA HandlerFileInv == ASSUME TypeInv, FileInv, HandlerStep PROVE FileInv'
<1>1. UNCHANGED <<product, output, section, gate>>
  BY DEF HandlerStep, ConfirmOutline, ConfirmSection, CheckRequest, Dispatch, DispatchFails, MarkPending, ApiCrash,
         fileVars, taskVars
<1>2. ProductsFormPrefix'
  BY <1>1 DEF FileInv, ProductsFormPrefix
<1>3. ASSUME NEW d \in Chains PROVE Behind(d)'
  <2>0. api'[d] \in {"idle", "checked"} => api[d] \in {"idle", "checked"} /\ task'[d] = task[d]
    <3>1. CASE UNCHANGED <<api, task>>
        BY <3>1
    <3>2. CASE \E c \in Chains : Dispatch(c)
      <4>1. PICK c \in Chains : Dispatch(c)
          BY <3>2
      <4> QED
          BY <4>1 DEF Dispatch, TypeInv, TypeOK
    <3>3. CASE \E c \in Chains : CheckRequest(c) \/ DispatchFails(c) \/ MarkPending(c) \/ ApiCrash(c)
      <4>1. PICK c \in Chains : CheckRequest(c) \/ DispatchFails(c) \/ MarkPending(c) \/ ApiCrash(c)
          BY <3>3
      <4>2. task' = task /\ api[c] # "answered" /\ \E phase \in ApiPhase : api' = [api EXCEPT ![c] = phase]
          BY <4>1 DEF CheckRequest, DispatchFails, MarkPending, ApiCrash, taskVars
      <4>3. api'[c] = "checked" => api[c] = "idle"
          BY <4>1 DEF CheckRequest, DispatchFails, MarkPending, ApiCrash, TypeInv, TypeOK
      <4>4. api'[c] # "idle"
          BY <4>1 DEF CheckRequest, DispatchFails, MarkPending, ApiCrash, TypeInv, TypeOK
      <4> QED
          BY <4>2, <4>3, <4>4 DEF TypeInv, TypeOK
    <3> QED
        BY <3>1, <3>2, <3>3 DEF HandlerStep, ConfirmOutline, ConfirmSection, taskVars
  <2>1. CASE task'[d] = task[d]
      BY <1>1, <2>0, <2>1 DEF FileInv, ChainsBehind, Behind
  <2>2. CASE task'[d] # task[d]
    <3>1. PICK c \in Chains : Dispatch(c)
        BY <2>2 DEF HandlerStep, ConfirmOutline, ConfirmSection, CheckRequest, DispatchFails, MarkPending,
                    ApiCrash, taskVars
    <3>2. c = d /\ api[d] = "checked" /\ api'[d] = "sent" /\ task'[d] = "queued"
        BY <2>2, <3>1 DEF Dispatch, TypeInv, TypeOK
    <3>3. gate'[d] = 1
        BY <1>1, <3>2 DEF FileInv, ChainsBehind, Behind
    <3> QED
        BY <3>2, <3>3 DEF Behind
  <2> QED
      BY <2>1, <2>2
<1> QED
  BY <1>2, <1>3 DEF FileInv, ChainsBehind

\* A task produces a gate's file only over those before it.
LEMMA TaskFileInv == ASSUME TypeInv, FileInv, NEW c \in Chains, TaskStep(c) PROVE FileInv'
<1>1. ASSUME NEW d \in Chains PROVE Behind(d)'
  BY OwnStep, OtherStep DEF FileInv, ChainsBehind
<1>2. Behind(c)
  BY DEF FileInv, ChainsBehind
<1>3. gate[c] \in Gates /\ section[c] \in Sections
  BY DEF TypeInv, TypeOK
<1>4. ASSUME NEW s \in Sections, NEW g \in 1..3, product'[s][g + 1] # NoFile
      PROVE  product'[s][g] # NoFile
  <2>1. CASE product[s][g + 1] # NoFile
      BY <2>1, FilesStay DEF FileInv, ProductsFormPrefix
  <2>2. CASE product[s][g + 1] = NoFile
    <3>1. s = section[c] /\ g + 1 = gate[c] /\ task[c] \in Running
        BY <1>4, <2>2, FilesStay
    <3>2. product[s][g] # NoFile
        BY <1>2, <3>1 DEF Behind
    <3> QED
        BY <3>2, FilesStay
  <2> QED
      BY <2>1, <2>2
<1>5. ASSUME NEW s \in Sections, output'[s] # NoFile
      PROVE  product'[s][4] # NoFile
  <2>1. CASE output[s] # NoFile
      BY <2>1, FilesStay DEF FileInv, ProductsFormPrefix
  <2>2. CASE output[s] = NoFile
    <3>1. SaveOutput(c) /\ s = section[c]
        BY <1>3, <1>5, <2>2 DEF TypeInv, TypeOK, TaskStep, StageStep, Load, LoadTorn, Produce, FillFile, HandOver,
               SaveOutput, Finish, StageError, StageFails, UnrecordedError, WorkerCrash, fileVars
    <3>2. product[s][4] # NoFile
        BY <1>2, <3>1 DEF Behind, SaveOutput
    <3> QED
        BY <3>2, FilesStay
  <2> QED
      BY <2>1, <2>2
<1> QED
  BY <1>1, <1>4, <1>5 DEF FileInv, ChainsBehind, ProductsFormPrefix

\* Every step keeps the files a prefix of the gates.
LEMMA NextFileInv == TypeInv /\ FileInv /\ [Next]_vars => FileInv'
<1> SUFFICES ASSUME TypeInv, FileInv, [Next]_vars PROVE FileInv'
  OBVIOUS
<1>1. CASE UNCHANGED vars
  BY <1>1 DEF vars, fileVars, taskVars, FileInv, ChainsBehind, Behind, ProductsFormPrefix
<1> QED
  BY <1>1, HandlerFileInv, TaskFileInv, NextIsGrouped

(* Every gate leaves its product before the next gate starts, and a content *)
(* row comes after all four, for any number of chains that overlap in a     *)
(* section, are retried or die (tasks.stage_*, section_artifacts).          *)
THEOREM FilesFormPrefix == Spec => []ProductsFormPrefix
<1>1. FileInv => ProductsFormPrefix
  BY DEF FileInv
<1> QED
  BY <1>1, InitTypeInv, NextTypeInv, InitFileInv, NextFileInv, PTL DEF Spec

-----------------------------------------------------------------------------
(* The user's decision comes first.                                         *)
DecisionInv == Undecided /\ NoWorkBeforeConfirmation

\* Nothing is confirmed and nothing has run at first.
LEMMA InitDecisionInv == Init => DecisionInv
BY DEF Init, DecisionInv, Undecided, NoWorkBeforeConfirmation

\* No step runs a gate that waits for an earlier decision.
LEMMA NextDecisionInv == TypeInv /\ DecisionInv /\ [Next]_vars => DecisionInv'
<1> SUFFICES ASSUME TypeInv, DecisionInv, [Next]_vars, run'.status = "OUTLINE_PENDING_CONFIRM"
             PROVE  DecisionInv'
  BY DEF DecisionInv, Undecided, NoWorkBeforeConfirmation
<1> USE DEF DecisionInv, Undecided, NoWorkBeforeConfirmation
<1>0. run.status = "OUTLINE_PENDING_CONFIRM" => \A c \in Chains : ~TaskStep(c)
  BY DEF TaskStep, StageStep, Load, LoadTorn, Produce, FillFile, HandOver, SaveOutput, Finish, StageError,
         UnrecordedError, WorkerCrash
<1>1. ASSUME NEW c \in Chains, TaskStep(c) PROVE FALSE
  <2>1. \/ run' = run
        \/ \E k \in Gates : Progress(gate[c], StageDone[k], gate[c] + 1, FALSE)
        \/ Progress(gate[c], "failed", gate[c], TRUE)
        \/ Progress(5, "paused", 5, FALSE) \/ Progress(4, "failed", 4, TRUE)
    <3>1. CASE Load(c) \/ Produce(c) \/ FillFile(c) \/ SaveOutput(c) \/ UnrecordedError(c) \/ WorkerCrash(c)
        BY <3>1 DEF Load, Produce, FillFile, SaveOutput, UnrecordedError, WorkerCrash
    <3>2. CASE HandOver(c)
        BY <3>2 DEF HandOver, TypeInv, TypeOK
    <3>3. CASE LoadTorn(c) \/ StageError(c)
        BY <3>3 DEF LoadTorn, StageError, StageFails
    <3>4. CASE Finish(c)
        BY <3>4 DEF Finish
    <3> QED
        BY <1>1, <3>1, <3>2, <3>3, <3>4 DEF TaskStep, StageStep
  <2>2. run'.status = run.status
    <3>1. run \in [status : OutlineStatus, sections : [Sections -> SectionStatus], step : 0..5,
                   stepStatus : StepStatus, resume : 1..5, retries : Nat, error : BOOLEAN]
        BY DEF TypeInv, TypeOK
    <3>2. ASSUME NEW k, NEW st, NEW r, NEW e, Progress(k, st, r, e) PROVE run'.status = run.status
        BY <3>1, <3>2 DEF Progress
    <3> QED
        BY <2>1, <3>2
  <2> QED
      BY <1>0, <1>1, <2>2
<1>2. CASE HandlerStep
  <2>1. ~\E approved \in BOOLEAN : ConfirmOutline(approved)
      BY DEF ConfirmOutline, TypeInv, TypeOK
  <2>2. run.status = "OUTLINE_PENDING_CONFIRM"
    <3>1. CASE \E s \in Sections, approved \in BOOLEAN : ConfirmSection(s, approved)
        BY <3>1 DEF ConfirmSection, TypeInv, TypeOK
    <3>2. CASE \E c \in Chains : MarkPending(c)
        BY <3>2 DEF MarkPending, TypeInv, TypeOK
    <3>3. CASE UNCHANGED run
        BY <3>3
    <3> QED
        BY <1>2, <2>1, <3>1, <3>2, <3>3 DEF HandlerStep, CheckRequest, Dispatch, DispatchFails, ApiCrash
  <2>3. UNCHANGED <<product, output, task>>
      BY <1>2, <2>1, <2>2 DEF HandlerStep, ConfirmSection, CheckRequest, Dispatch, DispatchFails, MarkPending,
                              ApiCrash, fileVars, taskVars
  <2>4. \A c \in Chains : api'[c] \in {"idle", "refused"}
    <3>1. CASE UNCHANGED api
        BY <2>2, <3>1
    <3>2. CASE \E c \in Chains : CheckRequest(c)
      <4>1. PICK c \in Chains : CheckRequest(c)
          BY <3>2
      <4> QED
          BY <2>2, <4>1 DEF CheckRequest, TypeInv, TypeOK
    <3> QED
        BY <1>2, <2>1, <2>2, <3>1, <3>2 DEF HandlerStep, ConfirmSection, Dispatch, DispatchFails, MarkPending, ApiCrash
  <2> QED
      BY <2>2, <2>3, <2>4
<1>3. CASE UNCHANGED vars
  BY <1>3 DEF vars, fileVars, taskVars
<1> QED
  BY <1>1, <1>2, <1>3, NextIsGrouped

(* Until the outline is decided on, no section has a file, a content row or *)
(* a task, however the handlers' reads and writes interleave                *)
(* (enqueue_section_workflow_handler).                                      *)
THEOREM NothingBeforeConfirmation == Spec => []NoWorkBeforeConfirmation
<1>1. DecisionInv => NoWorkBeforeConfirmation
  BY DEF DecisionInv
<1> QED
  BY <1>1, InitTypeInv, NextTypeInv, InitDecisionInv, NextDecisionInv, PTL DEF Spec

-----------------------------------------------------------------------------
(* The recovery point.                                                      *)
LEMMA InitResume == Init => ResumePointBacked
BY SectionsAssumption DEF Init, ResumePointBacked

(* A stage that moves the recovery point has the files it needs.            *)
LEMMA TaskResume ==
    ASSUME TypeInv, FileInv, ResumePointBacked, NEW c \in Chains, TaskStep(c)
    PROVE  ResumePointBacked'
<1>0. section[c] \in Sections /\ gate[c] \in Gates /\ Behind(c)
  BY DEF TypeInv, TypeOK, FileInv, ChainsBehind
<1>1. CASE run' = run
  <2>1. PICK s \in Sections :
             \/ \A g \in Gates : g < run.resume => product[s][g] # NoFile
             \/ run.resume = 5 /\ run.sections[s] \in {"SECTION_CONFIRMED", "SECTION_REJECTED"}
      BY DEF ResumePointBacked
  <2>2. ASSUME NEW g \in Gates, product[s][g] # NoFile PROVE product'[s][g] # NoFile
      BY <2>2, FilesStay
  <2> QED
      BY <1>1, <2>1, <2>2 DEF ResumePointBacked
<1>2. ASSUME NEW r \in 1..5, run'.resume = r, \A g \in Gates : g < r => product[section[c]][g] # NoFile
      PROVE  ResumePointBacked'
  <2>1. \A g \in Gates : product[section[c]][g] # NoFile => product'[section[c]][g] # NoFile
      BY <1>0, FilesStay
  <2> QED
      BY <1>0, <1>2, <2>1 DEF ResumePointBacked
<1>3. CASE HandOver(c)
  <2>1. run'.resume = gate[c] + 1 /\ gate[c] + 1 \in 1..5
      BY <1>0, <1>3 DEF HandOver, Progress, TypeInv, TypeOK
  <2>2. \A g \in Gates : g < gate[c] + 1 => product[section[c]][g] # NoFile
      BY <1>0, <1>3 DEF HandOver, Behind
  <2> QED
      BY <1>2, <2>1, <2>2
<1>4. CASE Finish(c)
  <2>1. run' = run \/ run'.resume \in {4, 5}
      BY <1>4 DEF Finish, Progress, TypeInv, TypeOK
  <2>2. task[c] = "saved"
      BY <1>4 DEF Finish
  <2>3. gate[c] = 4 /\ product[section[c]][gate[c]] # NoFile
      BY <1>0, <2>2 DEF Behind
  <2>4. \A g \in Gates : g < gate[c] => product[section[c]][g] # NoFile
      BY <1>0, <2>2 DEF Behind
  <2>5. \A g \in Gates : g = 4 \/ g < 4
      OBVIOUS
  <2>6. \A g \in Gates : product[section[c]][g] # NoFile
      BY <2>3, <2>4, <2>5
  <2> QED
      BY <1>1, <1>2, <2>1, <2>6
<1>5. CASE LoadTorn(c) \/ StageError(c)
  <2>0. Progress(gate[c], "failed", gate[c], TRUE) /\ task[c] \in Running
      BY <1>5 DEF LoadTorn, StageError, StageFails
  <2>1. run'.resume = gate[c] /\ gate[c] \in 1..5
      BY <1>0, <2>0 DEF Progress, TypeInv, TypeOK
  <2>2. \A g \in Gates : g < gate[c] => product[section[c]][g] # NoFile
      BY <1>0, <2>0 DEF Behind
  <2> QED
      BY <1>2, <2>1, <2>2
<1> QED
  BY <1>1, <1>3, <1>4, <1>5 DEF TaskStep, StageStep, Load, Produce, FillFile, SaveOutput, UnrecordedError, WorkerCrash

\* An endpoint that moves the row's resume point backs it with products.
LEMMA HandlerResume ==
    ASSUME TypeInv, ResumePointBacked, HandlerStep
    PROVE  ResumePointBacked'
<1>1. product' = product
  BY DEF HandlerStep, ConfirmOutline, ConfirmSection, CheckRequest, Dispatch, DispatchFails, MarkPending, ApiCrash,
         fileVars
<1>2. CASE run'.resume = run.resume /\ run'.sections = run.sections
  BY <1>1, <1>2 DEF ResumePointBacked
<1>3. ASSUME NEW s \in Sections, NEW approved \in BOOLEAN, ConfirmSection(s, approved)
      PROVE  ResumePointBacked'
  <2>1. run'.sections[s] \in {"SECTION_CONFIRMED", "SECTION_REJECTED"}
      BY <1>3 DEF ConfirmSection, TypeInv, TypeOK
  <2>2. run'.resume = 5 \/ run'.resume = run.resume
      BY <1>3 DEF ConfirmSection, TypeInv, TypeOK
  <2> QED
      BY <1>1, <2>1, <2>2 DEF ResumePointBacked
<1>4. ASSUME NEW c \in Chains, MarkPending(c) PROVE ResumePointBacked'
  <2>1. run'.resume = 1
      BY <1>4 DEF MarkPending, TypeInv, TypeOK
  <2> QED
      BY <2>1, SectionsAssumption DEF ResumePointBacked
<1>5. CASE \E approved \in BOOLEAN : ConfirmOutline(approved)
  <2>1. run'.resume = run.resume /\ run'.sections = run.sections
      BY <1>5 DEF ConfirmOutline, TypeInv, TypeOK
  <2> QED
      BY <1>2, <2>1
<1> QED
  BY <1>2, <1>3, <1>4, <1>5 DEF HandlerStep, CheckRequest, Dispatch, DispatchFails, ApiCrash

\* Every step keeps the resume point backed.
LEMMA NextResume == TypeInv /\ FileInv /\ ResumePointBacked /\ [Next]_vars => ResumePointBacked'
<1> SUFFICES ASSUME TypeInv, FileInv, ResumePointBacked, [Next]_vars PROVE ResumePointBacked'
  OBVIOUS
<1>1. CASE UNCHANGED vars
  BY <1>1 DEF vars, fileVars, ResumePointBacked
<1> QED
  BY <1>1, HandlerResume, TaskResume, NextIsGrouped

(* resume_from_step never promises more than is on disk: some section has   *)
(* its products up to it, or a user decided on a section, for any number of *)
(* chains that write to the row (workflow_runs.update_run_progress).        *)
THEOREM ResumePointHolds == Spec => []ResumePointBacked
BY InitTypeInv, NextTypeInv, InitFileInv, NextFileInv, InitResume, NextResume, PTL DEF Spec

-----------------------------------------------------------------------------
(* An extract fits a section: it is what the section's draft was written     *)
(* with and what its content row lists.                                      *)
ExtractFits(s, e) ==
    /\ e.status \in {"OK", "NEED_HUMAN_INPUT"}
    /\ product[s][2] \in Product => product[s][2].facts = e.origin
    /\ output[s] # NoFile => (output[s].codes = NoFile <=> e.status = "NEED_HUMAN_INPUT")

(* A product made from a draft.                                              *)
SameText(f, d) == f.origin = d.origin /\ f.facts = d.facts

(* What rendering makes of a draft.                                          *)
Renders(f, d) ==
    f.status \in IF d.status = "SUPPORTED" THEN {"SUCCEEDED", "FAILED"} ELSE {"NEED_HUMAN_INPUT"}

(* What a section's files say of its draft: nothing comes after a draft      *)
(* that is not whole, and what comes after one was made from it.             *)
MadeFromDraft(s) ==
    /\ product[s][1] \in Product => ExtractFits(s, product[s][1])
    /\ product[s][2] \notin Product =>
         product[s][3] = NoFile /\ product[s][4] = NoFile /\ output[s] = NoFile
    /\ product[s][2] \in Product => product[s][2].status \in DraftStatus
    /\ \A g \in {3, 4} : product[s][g] \in Product => SameText(product[s][g], product[s][2])
    /\ product[s][4] \in Product => Renders(product[s][4], product[s][2])
    /\ product[s][4] \notin Product => output[s] = NoFile
    /\ output[s] # NoFile =>
         /\ SameText(output[s], product[s][2])
         /\ output[s].codes \in {NoFile, output[s].facts}
         /\ output[s].status = "SUPPORTED" => product[s][4].status = "SUCCEEDED"

(* What a chain that is alone in its section knows of the files.             *)
Knows(c) ==
    LET files == product[section[c]] IN
      /\ task[c] = "computing" => files[gate[c]] = held[c]
      /\ task[c] = "persisting" => files[gate[c]] = Torn
      /\ task[c] \in {"persisted", "saved"} => files[gate[c]] = held[c]
      /\ gate[c] # 1 /\ task[c] = "computing" => held[c] = NoFile
      /\ gate[c] = 1 /\ task[c] = "persisting" => ExtractFits(section[c], held[c])
      /\ gate[c] # 1 => files[1] = extract[c]
      /\ gate[c] = 2 /\ task[c] = "persisting" =>
           held[c].status \in DraftStatus /\ held[c].facts = extract[c].origin
      /\ gate[c] \in {3, 4} => draft[c] = files[2]
      /\ gate[c] \in {3, 4} /\ task[c] = "persisting" => SameText(held[c], draft[c])
      /\ gate[c] = 4 /\ task[c] = "persisting" => Renders(held[c], draft[c])

(* Chains that run together have made their section one of the overlapped.   *)
Alone ==
    \A c, d \in Chains :
        c # d /\ section[c] = section[d] /\ section[c] \notin overlapped =>
            task[c] \notin Running \/ task[d] \notin Running

SerialInv ==
    /\ Alone
    /\ \A s \in Sections \ overlapped : MadeFromDraft(s)
    /\ \A c \in Chains : task[c] \in Running /\ section[c] \notin overlapped => Knows(c)

(* A task moves itself, and writes to its section and gate alone.           *)
LEMMA OwnFilesOnly ==
    ASSUME TypeInv, NEW c \in Chains, TaskStep(c)
    PROVE  /\ section' = section /\ overlapped' = overlapped /\ task[c] \in Running
           /\ \A d \in Chains : d # c => /\ task'[d] = task[d] /\ gate'[d] = gate[d]
                                         /\ held'[d] = held[d] /\ extract'[d] = extract[d] /\ draft'[d] = draft[d]
           /\ \A s \in Sections : s # section[c] => product'[s] = product[s] /\ output'[s] = output[s]
           /\ \A g \in Gates : g # gate[c] => product'[section[c]][g] = product[section[c]][g]
<1> DEFINE Owns ==
           /\ section' = section /\ overlapped' = overlapped /\ task[c] \in Running
           /\ \A d \in Chains : d # c => /\ task'[d] = task[d] /\ gate'[d] = gate[d]
                                         /\ held'[d] = held[d] /\ extract'[d] = extract[d] /\ draft'[d] = draft[d]
           /\ \A s \in Sections : s # section[c] => product'[s] = product[s] /\ output'[s] = output[s]
           /\ \A g \in Gates : g # gate[c] => product'[section[c]][g] = product[section[c]][g]
<1> SUFFICES Owns
  OBVIOUS
<1> USE DEF TypeInv, TypeOK
<1>1. CASE Load(c)
  BY <1>1 DEF Load, fileVars
<1>2. CASE Produce(c)
  BY <1>2 DEF Produce, SetFile
<1>3. CASE FillFile(c)
  BY <1>3 DEF FillFile, SetFile
<1>4. CASE HandOver(c)
  BY <1>4 DEF HandOver, fileVars
<1>5. CASE SaveOutput(c)
  BY <1>5 DEF SaveOutput
<1>e. ASSUME UNCHANGED <<fileVars, sectionVars>>, task[c] \in Running,
             \/ \E how : End(c, how)
             \/ \E transient \in BOOLEAN : RetryOrEnd(c, transient)
      PROVE  Owns
  <2>1. CASE \E how : End(c, how)
    BY <1>e, <2>1 DEF End, fileVars, savedVars, sectionVars
  <2>2. CASE \E transient \in BOOLEAN : RetryOrEnd(c, transient)
    BY <1>e, <2>2 DEF RetryOrEnd, End, fileVars, savedVars, sectionVars, context
  <2> QED
    BY <1>e, <2>1, <2>2
<1>6. CASE Finish(c) \/ WorkerCrash(c)
  <2>1. UNCHANGED <<fileVars, sectionVars>> /\ task[c] \in Running
    BY <1>6 DEF Finish, WorkerCrash, Running
  <2>2. \E how : End(c, how)
    BY <1>6 DEF Finish, WorkerCrash
  <2> QED
    BY <1>e, <2>1, <2>2
<1>7. CASE LoadTorn(c) \/ StageError(c) \/ UnrecordedError(c)
  <2>1. UNCHANGED <<fileVars, sectionVars>> /\ task[c] \in Running
    BY <1>7 DEF LoadTorn, StageError, UnrecordedError, StageFails, Running
  <2>2. \E transient \in BOOLEAN : RetryOrEnd(c, transient)
    BY <1>7 DEF LoadTorn, StageError, UnrecordedError, StageFails
  <2> QED
    BY <1>e, <2>1, <2>2
<1> QED
  BY <1>1, <1>2, <1>3, <1>4, <1>5, <1>6, <1>7 DEF TaskStep, StageStep

(* The chains of other sections, and the other sections, are as they were.   *)
LEMMA OthersKeep ==
    ASSUME TypeInv, SerialInv, NEW c \in Chains, TaskStep(c)
    PROVE  /\ \A s \in Sections \ overlapped : s # section[c] => MadeFromDraft(s)'
           /\ \A d \in Chains : d # c /\ task'[d] \in Running /\ section[d] \notin overlapped => Knows(d)'
           /\ Alone'
<1>1. ASSUME NEW s \in Sections \ overlapped, s # section[c] PROVE MadeFromDraft(s)'
  <2>1. product'[s] = product[s] /\ output'[s] = output[s]
      BY <1>1, OwnFilesOnly
  <2> QED
      BY <2>1 DEF SerialInv, MadeFromDraft, ExtractFits, SameText, Renders
<1>2. ASSUME NEW d \in Chains, d # c, task'[d] \in Running, section[d] \notin overlapped PROVE Knows(d)'
  <2>1. /\ section'[d] = section[d] /\ task'[d] = task[d] /\ gate'[d] = gate[d] /\ held'[d] = held[d]
        /\ extract'[d] = extract[d] /\ draft'[d] = draft[d] /\ task[c] \in Running
      BY <1>2, OwnFilesOnly
  <2>2. section[d] # section[c] /\ section[d] \in Sections
      BY <1>2, <2>1 DEF SerialInv, Alone, TypeInv, TypeOK
  <2>3. product'[section[d]] = product[section[d]] /\ output'[section[d]] = output[section[d]]
      BY <2>2, OwnFilesOnly
  <2>4. Knows(d)
      BY <1>2, <2>1 DEF SerialInv
  <2> QED
      BY <2>1, <2>3, <2>4 DEF Knows, ExtractFits, SameText, Renders
<1>3. Alone'
  <2>1. \A d \in Chains : task'[d] \in Running => task[d] \in Running
      BY OwnFilesOnly
  <2> QED
      BY <2>1, OwnFilesOnly DEF SerialInv, Alone
<1> QED
  BY <1>1, <1>2, <1>3

(* The chain's own section stays made from one draft.                        *)
LEMMA OwnKeep ==
    ASSUME TypeInv, FileInv, SerialInv, NEW c \in Chains, TaskStep(c), section[c] \notin overlapped
    PROVE  MadeFromDraft(section[c])' /\ (task'[c] \in Running => Knows(c)')
<1>p. PICK s \in Sections : s = section[c]
  BY DEF TypeInv, TypeOK
<1> USE <1>p
<1> DEFINE Goal == MadeFromDraft(s)' /\ (task'[c] \in Running => Knows(c)')
<1>0. /\ section'[c] = s /\ task[c] \in Running /\ gate[c] \in Gates
      /\ MadeFromDraft(s) /\ Knows(c) /\ Carries(c)
      /\ Torn \notin Product /\ NoFile \notin Product
  BY OwnFilesOnly DEF SerialInv, TypeInv, TypeOK, ChainsCarry
<1> SUFFICES Goal
  BY <1>0 DEF MadeFromDraft, ExtractFits
<1>t. /\ product[s] \in [Gates -> Product \cup {NoFile, Torn}] /\ output[s] \in ContentRow \cup {NoFile}
      /\ held[c] \in Product \cup {NoFile} /\ draft[c] \in Product \cup {NoFile}
      /\ product \in [Sections -> [Gates -> Product \cup {NoFile, Torn}]]
      /\ task \in [Chains -> {"none"} \cup Running \cup Finished] /\ gate \in [Chains -> Gates]
      /\ held \in [Chains -> Product \cup {NoFile}] /\ extract \in [Chains -> Product \cup {NoFile}]
      /\ draft \in [Chains -> Product \cup {NoFile}] /\ output \in [Sections -> ContentRow \cup {NoFile}]
  BY DEF TypeInv, TypeOK
<1>r. \A g \in 1..3 : product[s][g + 1] # NoFile => product[s][g] # NoFile
  BY DEF FileInv, ProductsFormPrefix
\* A section whose files and row stay is what it was.
<1>m. ASSUME UNCHANGED <<product, output>> PROVE MadeFromDraft(s)'
  BY <1>0, <1>m DEF MadeFromDraft, ExtractFits
\* A task that takes the stage up again knows what it knew.
<1>q. ASSUME UNCHANGED <<product, output>>, task'[c] = "queued", gate'[c] = gate[c],
             draft'[c] = draft[c], extract'[c] = extract[c]
      PROVE  Goal
  BY <1>0, <1>m, <1>q DEF Knows
<1>e. ASSUME UNCHANGED <<product, output>>, task'[c] \notin Running
      PROVE  Goal
  BY <1>m, <1>e
<1>1. CASE Load(c)
  <2>1. /\ UNCHANGED <<product, output, gate, draft, extract>> /\ held'[c] = product[s][gate[c]]
        /\ task'[c] = IF product[s][gate[c]] = NoFile \/ gate[c] = 1 THEN "computing" ELSE "persisted"
      BY <1>1, <1>t DEF Load, File, fileVars
  <2> QED
      BY <1>0, <1>m, <2>1 DEF Knows
<1>2. CASE Produce(c)
  <2>1. PICK f \in IF held[c] = NoFile THEN Computed(c) ELSE {held[c]} :
           /\ held'[c] = f /\ UNCHANGED <<output, gate, draft, extract>> /\ task'[c] = "persisting"
           /\ task[c] = "computing" /\ product'[s] = [product[s] EXCEPT ![gate[c]] = Torn]
      BY <1>2, <1>t DEF Produce, SetFile
  <2>2. /\ product'[s][gate[c]] = Torn /\ \A g \in Gates : g # gate[c] => product'[s][g] = product[s][g]
        /\ product[s][gate[c]] = held[c]
      BY <1>t, <1>0, <2>1 DEF Knows
  <2>3. CASE gate[c] = 1
    <3>1. ExtractFits(s, f)
      <4>1. CASE held[c] = NoFile
        <5>1. f.status \in {"OK", "NEED_HUMAN_INPUT"}
            BY <2>1, <2>3, <4>1, ExtractAssumption DEF Computed
        <5>2. product[s][2] = NoFile
            BY <1>r, <2>2, <2>3, <4>1
        <5> QED
            BY <1>0, <5>1, <5>2 DEF ExtractFits, MadeFromDraft
      <4>2. CASE held[c] # NoFile
          BY <1>0, <1>t, <2>1, <2>2, <2>3, <4>2 DEF MadeFromDraft
      <4> QED
          BY <4>1, <4>2
    <3>2. /\ product'[s][1] = Torn /\ product'[s][2] = product[s][2]
          /\ product'[s][3] = product[s][3] /\ product'[s][4] = product[s][4]
        BY <2>2, <2>3
    <3>3. MadeFromDraft(s)'
        BY <1>0, <2>1, <3>2 DEF MadeFromDraft
    <3>4. ExtractFits(s, f)'
        BY <2>1, <3>1, <3>2 DEF ExtractFits
    <3> QED
        BY <1>0, <2>1, <2>3, <3>2, <3>3, <3>4 DEF Knows, ExtractFits
  <2>4. CASE gate[c] # 1
    <3>1. held[c] = NoFile /\ product[s][gate[c]] = NoFile /\ f \in Computed(c) /\ product[s][1] = extract[c]
        BY <1>0, <2>1, <2>2, <2>4 DEF Knows
    <3>2. output[s] = NoFile /\ product'[s][1] = product[s][1]
        BY <1>0, <1>r, <2>2, <2>4, <3>1 DEF MadeFromDraft
    <3>3. CASE gate[c] = 2
      <4>1. f.status \in DraftStatus /\ f.facts = extract[c].origin
          BY <3>1, <3>3 DEF Computed
      <4>2. product[s][3] = NoFile /\ product[s][4] = NoFile
          BY <1>0, <3>1, <3>3 DEF MadeFromDraft
      <4>3. product'[s][2] = Torn /\ product'[s][3] = NoFile /\ product'[s][4] = NoFile /\ output'[s] = NoFile
          BY <2>1, <2>2, <3>2, <3>3, <4>2
      <4>4. MadeFromDraft(s)'
          BY <1>0, <3>2, <4>3 DEF MadeFromDraft, ExtractFits
      <4> QED
          BY <1>0, <2>1, <2>2, <3>1, <3>2, <3>3, <4>1, <4>4 DEF Knows
    <3>4. CASE gate[c] = 3
      <4>1. SameText(f, draft[c])
          BY <3>1, <3>4 DEF Computed, SameText
      <4>2. draft[c] = product[s][2] /\ draft[c] \in Product
          BY <1>0, <3>4 DEF Knows, Carries
      <4>3. product'[s][2] = product[s][2] /\ product'[s][3] = Torn /\ product'[s][4] = product[s][4]
          BY <2>2, <3>4
      <4>4. MadeFromDraft(s)'
          BY <1>0, <2>1, <3>2, <4>2, <4>3 DEF MadeFromDraft, ExtractFits
      <4> QED
          BY <1>0, <2>1, <2>2, <3>1, <3>2, <3>4, <4>1, <4>2, <4>3, <4>4 DEF Knows, SameText
    <3>5. CASE gate[c] = 4
      <4>1. draft[c] = product[s][2] /\ draft[c] \in Product
          BY <1>0, <3>5 DEF Knows, Carries
      <4>2. draft[c].status \in DraftStatus
          BY <1>0, <4>1 DEF MadeFromDraft
      <4>3. SameText(f, draft[c]) /\ Renders(f, draft[c])
          BY <3>1, <3>5 DEF Computed, SameText, Renders
      <4>4. product'[s][2] = product[s][2] /\ product'[s][3] = product[s][3] /\ product'[s][4] = Torn
          BY <2>2, <3>5
      <4>5. MadeFromDraft(s)'
          BY <1>0, <2>1, <3>2, <4>1, <4>4 DEF MadeFromDraft, ExtractFits
      <4> QED
          BY <1>0, <2>1, <2>2, <3>1, <3>2, <3>5, <4>1, <4>3, <4>4, <4>5 DEF Knows, SameText, Renders
    <3> QED
        BY <1>0, <2>4, <3>3, <3>4, <3>5
  <2> QED
      BY <2>3, <2>4
<1>3. CASE FillFile(c)
  <2>1. /\ UNCHANGED <<output, gate, draft, extract, held>> /\ task'[c] = "persisted" /\ task[c] = "persisting"
        /\ product'[s] = [product[s] EXCEPT ![gate[c]] = held[c]]
      BY <1>3, <1>t DEF FillFile, SetFile
  <2>2. /\ product'[s][gate[c]] = held[c] /\ \A g \in Gates : g # gate[c] => product'[s][g] = product[s][g]
        /\ product[s][gate[c]] = Torn
      BY <1>t, <1>0, <2>1 DEF Knows
  <2>3. held[c] \in Product
      BY <1>0, <2>1 DEF Carries
  <2>4. MadeFromDraft(s)'
    <3>1. CASE gate[c] = 1
      <4>1. ExtractFits(s, held[c])
          BY <1>0, <2>1, <3>1 DEF Knows
      <4>2. /\ product'[s][1] = held[c] /\ product'[s][2] = product[s][2]
            /\ product'[s][3] = product[s][3] /\ product'[s][4] = product[s][4]
          BY <2>2, <3>1
      <4> QED
          BY <1>0, <2>1, <4>1, <4>2 DEF MadeFromDraft, ExtractFits
    <3>2. CASE gate[c] = 2
      <4>1. product[s][3] = NoFile /\ product[s][4] = NoFile /\ output[s] = NoFile
          BY <1>0, <2>2, <3>2 DEF MadeFromDraft
      <4>2. held[c].status \in DraftStatus /\ held[c].facts = extract[c].origin /\ product[s][1] = extract[c]
          BY <1>0, <2>1, <3>2 DEF Knows
      <4>3. /\ product'[s][1] = product[s][1] /\ product'[s][2] = held[c]
            /\ product'[s][3] = NoFile /\ product'[s][4] = NoFile /\ output'[s] = NoFile
          BY <2>1, <2>2, <3>2, <4>1
      <4> QED
          BY <1>0, <2>3, <4>2, <4>3 DEF MadeFromDraft, ExtractFits
    <3>3. CASE gate[c] \in {3, 4}
      <4>1. draft[c] = product[s][2] /\ draft[c] \in Product /\ SameText(held[c], draft[c])
          BY <1>0, <2>1, <3>3 DEF Knows, Carries
      <4>2. gate[c] = 4 => Renders(held[c], draft[c]) /\ output[s] = NoFile
          BY <1>0, <2>1, <2>2 DEF Knows, MadeFromDraft
      <4>3. product'[s][1] = product[s][1] /\ product'[s][2] = product[s][2]
          BY <2>2, <3>3
      <4>4. CASE gate[c] = 3
        <5>1. product'[s][3] = held[c] /\ product'[s][4] = product[s][4]
            BY <2>2, <4>4
        <5> QED
            BY <1>0, <2>1, <4>1, <4>3, <5>1 DEF MadeFromDraft, ExtractFits
      <4>5. CASE gate[c] = 4
        <5>1. product'[s][4] = held[c] /\ product'[s][3] = product[s][3]
            BY <2>2, <4>5
        <5> QED
            BY <1>0, <2>1, <2>3, <4>1, <4>2, <4>3, <4>5, <5>1 DEF MadeFromDraft, ExtractFits
      <4> QED
          BY <3>3, <4>4, <4>5
    <3> QED
        BY <1>0, <3>1, <3>2, <3>3
  <2>5. Knows(c)'
    <3>1. gate[c] # 1 => product'[s][1] = product[s][1]
        BY <2>2
    <3>2. gate[c] \in {3, 4} => product'[s][2] = product[s][2]
        BY <2>2
    <3> QED
        BY <1>0, <2>1, <2>2, <3>1, <3>2 DEF Knows
  <2> QED
      BY <2>4, <2>5
<1>4. CASE HandOver(c)
  <2>1. /\ UNCHANGED <<product, output>> /\ task'[c] = "queued" /\ gate'[c] = gate[c] + 1 /\ gate[c] < 4
        /\ task[c] = "persisted" /\ extract'[c] = IF gate[c] = 1 THEN held[c] ELSE extract[c]
        /\ draft'[c] = IF gate[c] = 2 THEN held[c] ELSE draft[c]
      BY <1>4, <1>t DEF HandOver, fileVars
  <2> QED
      BY <1>0, <1>m, <2>1 DEF Knows
<1>5. CASE SaveOutput(c)
  <2> DEFINE row == [title |-> c, codes |-> CodesOf(c), origin |-> draft[c].origin,
                     facts |-> draft[c].facts, status |-> FinalStatus(c)]
  <2>1. /\ UNCHANGED <<product, gate, draft, extract, held>> /\ task'[c] = "saved" /\ gate[c] = 4
        /\ task[c] = "persisted"
        /\ output'[s] = output[s] \/ output'[s] = row
      BY <1>5, <1>t DEF SaveOutput
  <2>0. task[c] = "persisted" /\ gate[c] = 4
      BY <1>5 DEF SaveOutput
  <2>2. /\ draft[c] = product[s][2] /\ draft[c] \in Product /\ extract[c] = product[s][1]
        /\ extract[c] \in Product /\ held[c] = product[s][4] /\ held[c] \in Product
    <3>1. draft[c] = product[s][2] /\ extract[c] = product[s][1] /\ held[c] = product[s][4]
        BY <1>0, <2>0 DEF Knows
    <3> QED
        BY <1>0, <2>0, <3>1 DEF Carries
  <2>k. Knows(c)'
    <3>1. UNCHANGED <<product, gate, draft, extract, held>> /\ task'[c] = "saved"
        BY <2>1
    <3> QED
        BY <1>0, <2>0, <2>2, <3>1 DEF Knows
  <2>3. CASE output'[s] = output[s]
    <3>1. product' = product
        BY <2>1
    <3>2. MadeFromDraft(s)'
        BY <1>0, <2>3, <3>1 DEF MadeFromDraft, ExtractFits
    <3> QED
        BY <2>k, <3>2
  <2>4. CASE output'[s] = row
    <3>1. /\ row.codes = CodesOf(c) /\ row.origin = draft[c].origin
          /\ row.facts = draft[c].facts /\ row.status = FinalStatus(c)
        OBVIOUS
    <3>2. /\ draft[c].facts = extract[c].origin /\ extract[c].status \in {"OK", "NEED_HUMAN_INPUT"}
          /\ Renders(held[c], draft[c])
        BY <1>0, <2>2 DEF MadeFromDraft, ExtractFits
    <3>3. extract[c].origin \in Chains
        BY <2>2 DEF Product
    <3>4. CodesOf(c) \in {NoFile, draft[c].facts} /\ (CodesOf(c) = NoFile <=> extract[c].status = "NEED_HUMAN_INPUT")
        BY <3>2, <3>3 DEF CodesOf
    <3>5. FinalStatus(c) = "SUPPORTED" => held[c].status = "SUCCEEDED"
        BY <3>2 DEF FinalStatus, Renders
    <3>6. ExtractFits(s, product[s][1])'
        BY <2>1, <2>2, <2>4, <3>1, <3>2, <3>4 DEF ExtractFits
    <3>7. MadeFromDraft(s)'
        BY <1>0, <2>1, <2>2, <2>4, <3>1, <3>4, <3>5, <3>6 DEF MadeFromDraft, SameText
    <3> QED
        BY <2>k, <3>7
  <2> QED
      BY <2>1, <2>3, <2>4
<1>6. CASE Finish(c) \/ WorkerCrash(c)
  <2>1. UNCHANGED <<product, output>> /\ task'[c] \in {"done", "lost"}
      BY <1>6, <1>t DEF Finish, WorkerCrash, End, fileVars
  <2> QED
      BY <1>e, <2>1
<1>7. CASE LoadTorn(c) \/ StageError(c) \/ UnrecordedError(c)
  <2>1. UNCHANGED <<product, output>> /\ \E transient \in BOOLEAN : RetryOrEnd(c, transient)
      BY <1>7 DEF LoadTorn, StageError, UnrecordedError, StageFails, fileVars
  <2>2. \/ task'[c] = "queued" /\ UNCHANGED <<gate, draft, extract>>
        \/ task'[c] = "failed"
      BY <2>1, <1>t DEF RetryOrEnd, End
  <2> QED
      BY <1>e, <1>q, <2>1, <2>2
<1> QED
  BY <1>1, <1>2, <1>3, <1>4, <1>5, <1>6, <1>7 DEF TaskStep, StageStep

\* An endpoint that sends a second chain to a section makes it an overlapped one.
LEMMA HandlerSerialInv ==
    ASSUME TypeInv, FileInv, SerialInv, HandlerStep
    PROVE  SerialInv'
<1>1. UNCHANGED <<product, output, section, gate, held, extract, draft>> /\ overlapped \subseteq overlapped'
  BY DEF HandlerStep, ConfirmOutline, ConfirmSection, CheckRequest, Dispatch, DispatchFails, MarkPending, ApiCrash,
         fileVars, taskVars
<1>2. \A s \in Sections \ overlapped' : MadeFromDraft(s)'
  BY <1>1 DEF SerialInv, MadeFromDraft, ExtractFits
<1>3. CASE task' = task
  <2>1. Alone'
      BY <1>1, <1>3 DEF SerialInv, Alone
  <2>2. \A d \in Chains : task'[d] \in Running /\ section'[d] \notin overlapped' => Knows(d)'
      BY <1>1, <1>3 DEF SerialInv, Knows, ExtractFits
  <2> QED
      BY <1>2, <2>1, <2>2 DEF SerialInv
<1>4. ASSUME NEW c \in Chains, Dispatch(c) PROVE SerialInv'
  <2>1. /\ task'[c] = "queued" /\ api[c] = "checked" /\ \A d \in Chains : d # c => task'[d] = task[d]
        /\ \A d \in Chains : section[d] = section[c] /\ task[d] \in Running => section[c] \in overlapped'
      BY <1>4 DEF Dispatch, TypeInv, TypeOK
  <2>2. task[c] \notin Running /\ gate[c] = 1
      BY <2>1 DEF FileInv, ChainsBehind, Behind
  <2>3. Alone'
      BY <1>1, <2>1 DEF SerialInv, Alone
  <2>4. ASSUME NEW d \in Chains, task'[d] \in Running, section'[d] \notin overlapped' PROVE Knows(d)'
    <3>1. CASE d = c
        BY <1>1, <2>1, <2>2, <3>1 DEF Knows
    <3>2. CASE d # c
      <4>1. task'[d] = task[d]
          BY <2>1, <3>2
      <4>2. Knows(d)
          BY <1>1, <2>4, <4>1 DEF SerialInv
      <4> QED
          BY <1>1, <4>1, <4>2 DEF Knows, ExtractFits
    <3> QED
        BY <3>1, <3>2
  <2> QED
      BY <1>2, <2>3, <2>4 DEF SerialInv
<1> QED
  BY <1>3, <1>4 DEF HandlerStep, ConfirmOutline, ConfirmSection, CheckRequest, DispatchFails, MarkPending, ApiCrash,
                    taskVars

\* At first there is no file, and no chain runs.
LEMMA InitSerialInv == Init => SerialInv
BY DEF Init, SerialInv, Alone, MadeFromDraft

\* Every step keeps the sections without overlapping chains made from one draft.
LEMMA NextSerialInv == TypeInv /\ FileInv /\ SerialInv /\ [Next]_vars => SerialInv'
<1> SUFFICES ASSUME TypeInv, FileInv, SerialInv, [Next]_vars PROVE SerialInv'
  OBVIOUS
<1>1. CASE HandlerStep
  BY <1>1, HandlerSerialInv
<1>2. ASSUME NEW c \in Chains, TaskStep(c) PROVE SerialInv'
  <2>1. section[c] \in Sections /\ section' = section /\ overlapped' = overlapped
      BY <1>2, OwnFilesOnly DEF TypeInv, TypeOK
  <2>2. section[c] \notin overlapped =>
           MadeFromDraft(section[c])' /\ (task'[c] \in Running => Knows(c)')
      BY <1>2, OwnKeep
  <2>3. /\ \A s \in Sections \ overlapped : s # section[c] => MadeFromDraft(s)'
        /\ \A d \in Chains : d # c /\ task'[d] \in Running /\ section[d] \notin overlapped => Knows(d)'
        /\ Alone'
      BY <1>2, OthersKeep
  <2>4. \A s \in Sections \ overlapped : MadeFromDraft(s)'
    <3> TAKE s \in Sections \ overlapped
    <3>1. CASE s = section[c]
        BY <2>1, <2>2, <3>1 DEF MadeFromDraft, ExtractFits
    <3>2. CASE s # section[c]
        BY <2>3, <3>2
    <3> QED
        BY <3>1, <3>2
  <2> QED
      BY <2>1, <2>2, <2>3, <2>4 DEF SerialInv
<1>3. CASE UNCHANGED vars
  <2>1. UNCHANGED <<product, output, section, overlapped, task, gate, held, extract, draft>>
      BY <1>3 DEF vars, fileVars, taskVars
  <2> QED
      BY <2>1 DEF SerialInv, Alone, MadeFromDraft, Knows, ExtractFits
<1> QED
  BY <1>1, <1>2, <1>3, NextIsGrouped

(* What a section delivers hangs together unless its chains overlapped: its  *)
(* draft was written with the facts extracted for it, its validation,        *)
(* document and content row are that draft's, and the row lists the          *)
(* requirements extracted with the facts, however many requests failed and   *)
(* left their products to the next, and whatever stages were retried or tore *)
(* a file (load_gate_artifact, the context that the stages hand on and       *)
(* _persist_pipeline_outputs).                                               *)
THEOREM DeliveryMatches == Spec => []DeliveredWhatWasDrafted
<1>1. SerialInv => DeliveredWhatWasDrafted
  <2> SUFFICES ASSUME SerialInv, NEW s \in Sections \ overlapped
               PROVE  MadeFromDraft(s) => Delivered(s)
      BY DEF SerialInv, DeliveredWhatWasDrafted
  <2> QED
      BY DEF Delivered, MadeFromDraft, ExtractFits, SameText, Renders, DraftStatus
<1> QED
  BY <1>1, InitTypeInv, NextTypeInv, InitFileInv, NextFileInv, InitSerialInv, NextSerialInv, PTL DEF Spec
=============================================================================
