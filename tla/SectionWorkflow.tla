--------------------------- MODULE SectionWorkflow ---------------------------
(***************************************************************************)
(* The section workflow of the bid editor: one WorkflowRun row (an outline *)
(* and its sections), the HTTP handlers that confirm it and enqueue a      *)
(* section, and the four Celery stage tasks (G1 extract, G2 generate,      *)
(* G3 validate, G4 render) chained for every enqueued request.  A stage    *)
(* leaves its product in a JSON file that later chains of the section      *)
(* reuse, and reports its progress in the shared row; the last one saves   *)
(* the section's content and the requirements extracted for it.            *)
(*                                                                         *)
(* Row updates lock the row (with_for_update), so each is one step.        *)
(* Everything else interleaves: a file is read, computed, truncated and    *)
(* filled in separate steps, and the worker or the API process may die     *)
(* between any two of them.  Tasks are acknowledged when a worker takes    *)
(* them (no acks_late), so a dead worker's task is lost.                   *)
(***************************************************************************)
EXTENDS Naturals, FiniteSets

CONSTANTS
    Sections,        \* section keys of the outline
    Chains,          \* the section requests that will be submitted
    MaxTaskRetries,  \* settings.task_max_retries
    MaxFaults,       \* bound on the failures and crashes of one behaviour
    MaxDecisions,    \* bound on the users' confirmations and rejections
    MaxOverlapped,   \* bound on the sections with overlapping chains
    ExtractStatus,   \* how an extraction may end: with requirements, without any
    NoFile,          \* no JSON file at the product's path
    Torn             \* a file that is truncated or half written

ASSUME CountsAssumption == {MaxTaskRetries, MaxFaults, MaxDecisions, MaxOverlapped} \subseteq Nat
ASSUME ExtractAssumption == ExtractStatus \subseteq {"OK", "NEED_HUMAN_INPUT"}
ASSUME SectionsAssumption == Sections # {}  \* _build_outline_sections has fixed sections

-----------------------------------------------------------------------------
(* Gates are numbered 1..4; the row's current_step and resume_from_step     *)
(* range over G0..G5.                                                       *)
Gates == 1..4

OutlineStatus == {"OUTLINE_PENDING_CONFIRM", "OUTLINE_CONFIRMED", "OUTLINE_REJECTED"}

SectionStatus == {"NONE", "SECTION_PENDING_CONFIRM", "SECTION_CONFIRMED",
                  "SECTION_REJECTED"}

StepStatus == {"paused", "generating", "parsing_done", "validating", "failed"}

(* NEED_HUMAN_INPUT stands for every generation status but SUPPORTED.       *)
DraftStatus == {"SUPPORTED", "NEED_HUMAN_INPUT"}

ProductStatus == {"OK", "SUCCEEDED", "FAILED"} \cup DraftStatus

(* What a product file, or a task's context, holds: the chain whose request *)
(* text it was computed from, the chain whose text the facts it was drafted *)
(* with were extracted from, and the status it records.                     *)
Product == [origin : Chains, facts : Chains, status : ProductStatus]

(* A SectionContent row: the chain that gave its title, the chain whose text *)
(* its requirement codes were extracted from (NoFile: it has none), and the  *)
(* draft it shows.                                                           *)
ContentRow == [title : Chains, codes : Chains \cup {NoFile}, origin : Chains,
               facts : Chains, status : ProductStatus]

ASSUME FilesAssumption == /\ NoFile \notin Product /\ Torn \notin Product /\ NoFile # Torn
                           /\ NoFile \notin ContentRow /\ NoFile \notin Chains

ApiPhase == {"idle", "checked", "sent", "answered", "refused", "dead"}

Running  == {"queued", "computing", "persisting", "persisted", "saved"}
Finished == {"done", "failed", "lost"}

VARIABLES
    run,      \* the WorkflowRun row
    product,  \* product[s][g]: the JSON file of gate g of section s
    output,   \* output[s]: the SectionContent row of section s
    requirement, \* the project's Requirement row of the first code, which every
              \* extract's list begins with: the chain whose text it is from
    section,  \* section[c]: the section request c is about
    overlapped, \* history: the sections that ever had two chains in flight
    api,      \* api[c]: where the handler of request c is
    task,     \* task[c]: where the current stage task of chain c is
    gate,     \* gate[c]: the gate of that stage
    retries,  \* retries[c]: request.retries of that stage task
    held,     \* held[c]: the stage's payload, read or computed
    extract,  \* extract[c]: context["stages"]["extract"] and ["global_facts"]
    draft,    \* draft[c]: context["stages"]["generate"]
    faults,   \* failures and crashes so far (bounded by MaxFaults)
    decisions \* confirmations and rejections so far (bounded by MaxDecisions)

savedVars   == <<output, requirement>>
fileVars    == <<product, savedVars>>
sectionVars == <<section, overlapped>>
context     == <<extract, draft>>
taskVars    == <<task, gate, retries, held, context>>
bounds      == <<faults, decisions>>
vars == <<run, fileVars, sectionVars, api, taskVars, bounds>>

Init ==
    /\ run = [status |-> "OUTLINE_PENDING_CONFIRM",
              sections |-> [s \in Sections |-> "NONE"],
              step |-> 0, stepStatus |-> "paused", resume |-> 1,
              retries |-> 0, error |-> FALSE]
    /\ product = [s \in Sections |-> [g \in Gates |-> NoFile]]
    /\ output = [s \in Sections |-> NoFile]
    /\ requirement = NoFile
    /\ section \in [Chains -> Sections]
    /\ overlapped = {}
    /\ api = [c \in Chains |-> "idle"]
    /\ task = [c \in Chains |-> "none"]
    /\ gate = [c \in Chains |-> 1]
    /\ retries = [c \in Chains |-> 0]
    /\ held = [c \in Chains |-> NoFile]
    /\ extract = [c \in Chains |-> NoFile]
    /\ draft = [c \in Chains |-> NoFile]
    /\ faults = 0
    /\ decisions = 0

-----------------------------------------------------------------------------
(* update_run_progress.  "error |-> FALSE" is last_error=None, which leaves *)
(* the recorded error in place.                                             *)
Progress(step, status, resume, failed) ==
    run' = [run EXCEPT !.step = step,
                       !.stepStatus = status,
                       !.resume = resume,
                       !.error = @ \/ failed,
                       !.retries = IF failed THEN @ + 1 ELSE @]

Fault == faults < MaxFaults /\ faults' = faults + 1 /\ UNCHANGED decisions

Decision == decisions < MaxDecisions /\ decisions' = decisions + 1 /\ UNCHANGED faults

File(c) == product[section[c]][gate[c]]

SetFile(c, content) == product' = [product EXCEPT ![section[c]][gate[c]] = content]

(* A chain ends: what its task held in memory is gone.                      *)
End(c, how) ==
    /\ task' = [task EXCEPT ![c] = how]
    /\ gate' = [gate EXCEPT ![c] = 1]
    /\ retries' = [retries EXCEPT ![c] = 0]
    /\ held' = [held EXCEPT ![c] = NoFile]
    /\ extract' = [extract EXCEPT ![c] = NoFile]
    /\ draft' = [draft EXCEPT ![c] = NoFile]

-----------------------------------------------------------------------------
(* The HTTP handlers.                                                       *)

ConfirmOutline(approved) ==
    /\ Decision
    /\ run' = [run EXCEPT !.status = IF approved THEN "OUTLINE_CONFIRMED"
                                                 ELSE "OUTLINE_REJECTED"]
    /\ UNCHANGED <<fileVars, sectionVars, api, taskVars>>

ConfirmSection(s, approved) ==
    /\ Decision
    /\ run' = IF approved
                THEN [run EXCEPT !.sections[s] = "SECTION_CONFIRMED",
                                 !.step = 5, !.stepStatus = "paused", !.resume = 5]
                ELSE [run EXCEPT !.sections[s] = "SECTION_REJECTED"]
    /\ UNCHANGED <<fileVars, sectionVars, api, taskVars>>

(* Mutant: the outline's status is not checked.                             *)
CheckRequestUnguarded(c) ==
    /\ api[c] = "idle"
    /\ \E phase \in {"checked", "refused"} : api' = [api EXCEPT ![c] = phase]
    /\ UNCHANGED <<run, fileVars, sectionVars, taskVars, bounds>>

(* The checks of enqueue_section_workflow_handler: the outline's status is  *)
(* read without a lock, and the request is refused unless it is confirmed;  *)
(* a request that carries prices is refused too.                            *)
CheckRequest(c) ==
    /\ api[c] = "idle"
    /\ \/ run.status = "OUTLINE_CONFIRMED" /\ api' = [api EXCEPT ![c] = "checked"]
       \/ api' = [api EXCEPT ![c] = "refused"]
    /\ UNCHANGED <<run, fileVars, sectionVars, taskVars, bounds>>

(* stage_chain.apply_async(): the first stage task is on the broker.  That   *)
(* another chain of the section is in flight does not stop it.              *)
Dispatch(c) ==
    /\ api[c] = "checked"
    /\ api' = [api EXCEPT ![c] = "sent"]
    /\ task' = [task EXCEPT ![c] = "queued"]
    /\ overlapped' = IF \E d \in Chains : section[d] = section[c] /\ task[d] \in Running
                       THEN overlapped \cup {section[c]} ELSE overlapped
    /\ Cardinality(overlapped') <= MaxOverlapped
    /\ UNCHANGED <<run, fileVars, section, gate, retries, held, context, bounds>>

(* The broker refuses the chain: the handler answers 503.                   *)
DispatchFails(c) ==
    /\ api[c] = "checked"
    /\ Fault
    /\ api' = [api EXCEPT ![c] = "refused"]
    /\ UNCHANGED <<run, fileVars, sectionVars, taskVars>>

(* mark_section_pending, after the chain was sent: it may already run.      *)
MarkPending(c) ==
    /\ api[c] = "sent"
    /\ api' = [api EXCEPT ![c] = "answered"]
    /\ run' = [run EXCEPT !.sections[section[c]] = "SECTION_PENDING_CONFIRM",
                          !.step = 0, !.stepStatus = "generating",
                          !.resume = 1, !.error = FALSE]
    /\ UNCHANGED <<fileVars, sectionVars, taskVars, bounds>>

ApiCrash(c) ==
    /\ api[c] \in {"checked", "sent"}
    /\ Fault
    /\ api' = [api EXCEPT ![c] = "dead"]
    /\ UNCHANGED <<run, fileVars, sectionVars, taskVars>>

-----------------------------------------------------------------------------
(* The stage tasks.                                                         *)

(* load_gate_artifact: a product on disk is used instead of computing it;   *)
(* G1 alone writes it back.                                                 *)
Load(c) ==
    /\ task[c] = "queued"
    /\ File(c) # Torn
    /\ held' = [held EXCEPT ![c] = File(c)]
    /\ task' = [task EXCEPT ![c] = IF File(c) = NoFile \/ gate[c] = 1
                                     THEN "computing" ELSE "persisted"]
    /\ UNCHANGED <<run, fileVars, sectionVars, api, gate, retries, context, bounds>>

(* What a stage computes on a miss: G1 the requirements and the facts in    *)
(* the request's text (a text without requirements needs a human), G2 a     *)
(* draft from that text with the facts in the context, which may be an      *)
(* earlier request's.  G3 and G4 follow from the draft in the context: the  *)
(* request's text that run_three_gates is given as well decides nothing, as *)
(* the coverage is 0 or 1 and 0 returns before it is looked at.  Only a     *)
(* supported draft is rendered, and rendering may fail (the error is caught *)
(* and recorded as the product).                                            *)
Computed(c) ==
    CASE gate[c] = 1 -> [origin : {c}, facts : {c}, status : ExtractStatus]
      [] gate[c] = 2 -> [origin : {c}, facts : {extract[c].origin}, status : DraftStatus]
      [] gate[c] = 3 -> [origin : {draft[c].origin}, facts : {draft[c].facts}, status : {"OK"}]
      [] gate[c] = 4 -> [origin : {draft[c].origin}, facts : {draft[c].facts},
                         status : IF draft[c].status = "SUPPORTED"
                                    THEN {"SUCCEEDED", "FAILED"}
                                    ELSE {"NEED_HUMAN_INPUT"}]

(* Mutant: only the draft and the document are written to disk.             *)
ProduceSelectively(c) ==
    /\ task[c] = "computing"
    /\ \E p \in IF held[c] = NoFile THEN Computed(c) ELSE {held[c]} :
          held' = [held EXCEPT ![c] = p]
    /\ IF gate[c] \in {2, 4}
         THEN SetFile(c, Torn) /\ task' = [task EXCEPT ![c] = "persisting"]
         ELSE UNCHANGED product /\ task' = [task EXCEPT ![c] = "persisted"]
    /\ UNCHANGED <<run, savedVars, sectionVars, api, gate, retries, context, bounds>>

(* The stage computes its product, unless it was read, and opens the file:  *)
(* write_text truncates it first ...                                        *)
Produce(c) ==
    /\ task[c] = "computing"
    /\ \E p \in IF held[c] = NoFile THEN Computed(c) ELSE {held[c]} :
          held' = [held EXCEPT ![c] = p]
    /\ SetFile(c, Torn)
    /\ task' = [task EXCEPT ![c] = "persisting"]
    /\ UNCHANGED <<run, savedVars, sectionVars, api, gate, retries, context, bounds>>

(* ... and then fills it.                                                   *)
FillFile(c) ==
    /\ task[c] = "persisting"
    /\ SetFile(c, held[c])
    /\ task' = [task EXCEPT ![c] = "persisted"]
    /\ UNCHANGED <<run, savedVars, sectionVars, api, gate, retries, held, context, bounds>>

StageDone == <<"parsing_done", "generating", "validating">>

(* Mutant: the row points one gate past the one that comes next.            *)
HandOverAhead(c) ==
    /\ task[c] = "persisted"
    /\ gate[c] < 4
    /\ Progress(gate[c] + 1, StageDone[gate[c]],
                IF gate[c] = 3 THEN 4 ELSE gate[c] + 2, FALSE)
    /\ extract' = IF gate[c] = 1 THEN [extract EXCEPT ![c] = held[c]] ELSE extract
    /\ draft' = IF gate[c] = 2 THEN [draft EXCEPT ![c] = held[c]] ELSE draft
    /\ task' = [task EXCEPT ![c] = "queued"]
    /\ gate' = [gate EXCEPT ![c] = @ + 1]
    /\ retries' = [retries EXCEPT ![c] = 0]
    /\ held' = [held EXCEPT ![c] = NoFile]
    /\ UNCHANGED <<fileVars, sectionVars, api, bounds>>

(* The end of stages G1 to G3: progress in the row, then the next task.     *)
HandOver(c) ==
    /\ task[c] = "persisted"
    /\ gate[c] < 4
    /\ Progress(gate[c], StageDone[gate[c]], gate[c] + 1, FALSE)
    /\ extract' = IF gate[c] = 1 THEN [extract EXCEPT ![c] = held[c]] ELSE extract
    /\ draft' = IF gate[c] = 2 THEN [draft EXCEPT ![c] = held[c]] ELSE draft
    /\ task' = [task EXCEPT ![c] = "queued"]
    /\ gate' = [gate EXCEPT ![c] = @ + 1]
    /\ retries' = [retries EXCEPT ![c] = 0]
    /\ held' = [held EXCEPT ![c] = NoFile]
    /\ UNCHANGED <<fileVars, sectionVars, api, bounds>>

FinalStatus(c) ==
    IF draft[c].status = "SUPPORTED" /\ held[c].status = "FAILED"
      THEN "FAILED" ELSE draft[c].status

(* The codes of the requirements in the context's extract, if it has any.   *)
CodesOf(c) == IF extract[c].status = "OK" THEN extract[c].origin ELSE NoFile

(* Mutant: the row lists the requirements of the text of its own request.   *)
SaveOutputFromRequest(c) ==
    /\ task[c] = "persisted"
    /\ gate[c] = 4
    /\ output' = [output EXCEPT ![section[c]] =
                    [title |-> c, codes |-> c, origin |-> draft[c].origin,
                     facts |-> draft[c].facts, status |-> FinalStatus(c)]]
    /\ requirement' = c
    /\ task' = [task EXCEPT ![c] = "saved"]
    /\ UNCHANGED <<run, product, sectionVars, api, gate, retries, held, context, bounds>>

(* _persist_pipeline_outputs: in one transaction, the Requirement rows of   *)
(* the extract, found by their codes in the whole project, and the section's *)
(* row: the request's title, the extract's codes, the draft's text.  An      *)
(* exception is logged and swallowed.                                        *)
SaveOutput(c) ==
    /\ task[c] = "persisted"
    /\ gate[c] = 4
    /\ \/ /\ output' = [output EXCEPT ![section[c]] =
                          [title |-> c, codes |-> CodesOf(c), origin |-> draft[c].origin,
                           facts |-> draft[c].facts, status |-> FinalStatus(c)]]
          /\ requirement' = IF CodesOf(c) = NoFile THEN requirement ELSE CodesOf(c)
          /\ UNCHANGED bounds
       \/ Fault /\ UNCHANGED savedVars
    /\ task' = [task EXCEPT ![c] = "saved"]
    /\ UNCHANGED <<run, product, sectionVars, api, gate, retries, held, context>>

(* Mutant: a failed rendering raises instead of ending the chain.           *)
FinishRaising(c) ==
    /\ task[c] = "saved"
    /\ IF FinalStatus(c) = "SUPPORTED" /\ held[c].status = "SUCCEEDED"
         THEN Progress(5, "paused", 5, FALSE) /\ End(c, "done")
         ELSE Progress(4, "failed", 4, TRUE) /\ End(c, "failed")
    /\ UNCHANGED <<fileVars, sectionVars, api, bounds>>

(* The end of G4: a rendered section pauses the run at G5, a failed render  *)
(* fails it at G4, and a draft that needs a human leaves the row as it is.  *)
Finish(c) ==
    /\ task[c] = "saved"
    /\ CASE FinalStatus(c) = "SUPPORTED" /\ held[c].status = "SUCCEEDED" ->
              Progress(5, "paused", 5, FALSE)
         [] FinalStatus(c) = "FAILED" -> Progress(4, "failed", 4, TRUE)
         [] OTHER -> UNCHANGED run
    /\ End(c, "done")
    /\ UNCHANGED <<fileVars, sectionVars, api, bounds>>

(* Celery retries the same stage if the error is transient and retries are  *)
(* left.                                                                    *)
RetryOrEnd(c, transient) ==
    IF transient /\ retries[c] < MaxTaskRetries
      THEN /\ task' = [task EXCEPT ![c] = "queued"]
           /\ retries' = [retries EXCEPT ![c] = @ + 1]
           /\ held' = [held EXCEPT ![c] = NoFile]
           /\ UNCHANGED <<gate, context>>
      ELSE End(c, "failed")

(* The except clause of every stage: the failure is recorded and raised.    *)
StageFails(c, transient) ==
    /\ Progress(gate[c], "failed", gate[c], TRUE)
    /\ RetryOrEnd(c, transient)
    /\ UNCHANGED <<fileVars, sectionVars, api>>

(* Once its product is in place a stage only talks to the database, whose   *)
(* errors are not among the transient ones.                                 *)
StageError(c) ==
    /\ task[c] \in Running
    /\ Fault
    /\ \E transient \in BOOLEAN :
          /\ transient => task[c] \in {"queued", "computing", "persisting"}
          /\ StageFails(c, transient)

(* update_state raises before the stage's try, or the database refuses to   *)
(* record what happened: the row stays as it is.                            *)
UnrecordedError(c) ==
    /\ task[c] \in Running
    /\ Fault
    /\ \E transient \in BOOLEAN :
          /\ transient => task[c] = "queued"
          /\ RetryOrEnd(c, transient)
    /\ UNCHANGED <<run, fileVars, sectionVars, api>>

(* Mutant: a truncated file is taken for one still being written.           *)
LoadTornWaiting(c) ==
    /\ task[c] = "queued"
    /\ File(c) = Torn
    /\ UNCHANGED vars

(* json.loads of a truncated file raises a ValueError, which no retry       *)
(* covers.                                                                  *)
LoadTorn(c) ==
    /\ task[c] = "queued"
    /\ File(c) = Torn
    /\ StageFails(c, FALSE)
    /\ UNCHANGED bounds

WorkerCrash(c) ==
    /\ task[c] \in Running
    /\ Fault
    /\ End(c, "lost")
    /\ UNCHANGED <<run, fileVars, sectionVars, api>>

-----------------------------------------------------------------------------
StageStep(c) ==
    \/ Load(c) \/ LoadTorn(c) \/ Produce(c) \/ FillFile(c)
    \/ HandOver(c) \/ SaveOutput(c) \/ Finish(c)

Next ==
    \/ \E approved \in BOOLEAN : ConfirmOutline(approved)
    \/ \E s \in Sections, approved \in BOOLEAN : ConfirmSection(s, approved)
    \/ \E c \in Chains :
          \/ CheckRequest(c) \/ Dispatch(c) \/ DispatchFails(c) \/ MarkPending(c)
          \/ ApiCrash(c) \/ StageStep(c)
          \/ StageError(c) \/ UnrecordedError(c) \/ WorkerCrash(c)

Spec == Init /\ [][Next]_vars

(* A running worker keeps executing the task it took; nothing is assumed of *)
(* users, of the API process, or of failures.                               *)
FairSpec == Spec /\ \A c \in Chains : WF_vars(StageStep(c))

-----------------------------------------------------------------------------
(* The row, the files and the tasks have their types.                       *)
TypeOK ==
    /\ run \in [status : OutlineStatus, sections : [Sections -> SectionStatus],
                step : 0..5, stepStatus : StepStatus, resume : 1..5,
                retries : Nat, error : BOOLEAN]
    /\ product \in [Sections -> [Gates -> Product \cup {NoFile, Torn}]]
    /\ output \in [Sections -> ContentRow \cup {NoFile}]
    /\ requirement \in Chains \cup {NoFile}
    /\ overlapped \subseteq Sections
    /\ section \in [Chains -> Sections]
    /\ api \in [Chains -> ApiPhase]
    /\ task \in [Chains -> {"none"} \cup Running \cup Finished]
    /\ gate \in [Chains -> Gates]
    /\ retries \in [Chains -> 0..MaxTaskRetries]
    /\ held \in [Chains -> Product \cup {NoFile}]
    /\ extract \in [Chains -> Product \cup {NoFile}]
    /\ draft \in [Chains -> Product \cup {NoFile}]
    /\ faults \in 0..MaxFaults
    /\ decisions \in 0..MaxDecisions

(* An outline nobody decided on has caused no work: the handler's check of  *)
(* the status and the dispatch of the chain are separate steps, and the     *)
(* status never returns to pending.                                         *)
NoWorkBeforeConfirmation ==
    run.status = "OUTLINE_PENDING_CONFIRM" =>
        /\ \A s \in Sections : output[s] = NoFile /\ \A g \in Gates : product[s][g] = NoFile
        /\ \A c \in Chains : task[c] = "none"

(* Every gate leaves its product as a file before the next gate starts: a   *)
(* section's files are those of a prefix of the gates, and its content row  *)
(* comes after the last of them, whatever crashed or overlapped.            *)
ProductsFormPrefix ==
    \A s \in Sections :
        /\ \A g \in 1..3 : product[s][g + 1] # NoFile => product[s][g] # NoFile
        /\ output[s] # NoFile => product[s][4] # NoFile

(* The row's recovery point is backed by files: some section has a product  *)
(* at every gate before resume_from_step, unless a user's decision on a     *)
(* section put the row at G5.                                               *)
ResumePointBacked ==
    \E s \in Sections :
        \/ \A g \in Gates : g < run.resume => product[s][g] # NoFile
        \/ run.resume = 5 /\ run.sections[s] \in {"SECTION_CONFIRMED", "SECTION_REJECTED"}

(* What a section delivers hangs together: the draft was written with the   *)
(* facts on disk, the validation and the document are that draft's, a       *)
(* document exists only of a supported draft, and the content row shows     *)
(* that draft and lists the requirements that were extracted with its facts. *)
Delivered(s) ==
    LET file(g) == product[s][g]
        whole(g) == file(g) \in Product
    IN  /\ whole(1) /\ whole(2) => file(2).facts = file(1).origin
        /\ \A g \in {3, 4} : whole(g) =>
              /\ whole(2)
              /\ file(g).origin = file(2).origin
              /\ file(g).facts = file(2).facts
        /\ whole(4) => (file(4).status = "NEED_HUMAN_INPUT"
                           <=> file(2).status = "NEED_HUMAN_INPUT")
        /\ output[s] # NoFile =>
              /\ whole(2) /\ whole(4)
              /\ output[s].origin = file(2).origin
              /\ output[s].facts = file(2).facts
              /\ output[s].codes \in {NoFile, output[s].facts}
              /\ whole(1) => (output[s].codes = NoFile <=> file(1).status = "NEED_HUMAN_INPUT")
              /\ output[s].status = "SUPPORTED" => file(4).status = "SUCCEEDED"

(* What a section without overlapping chains delivers hangs together,       *)
(* though its files may come from several requests: one that failed leaves  *)
(* its products to the next.                                                *)
DeliveredWhatWasDrafted == \A s \in Sections \ overlapped : Delivered(s)

(* Retries are bounded and every error path ends the chain: a chain that    *)
(* was dispatched ends, however its stages fail.                            *)
ChainsEnd == \A c \in Chains : task[c] \in Running ~> task[c] \in Finished

(* Once failures cease, a waiting stage brings its chain to completion,     *)
(* unless a crash has left a truncated product behind or another chain of   *)
(* the section truncates one under its eyes.                                *)
SurvivesPastFaults ==
    \A c \in Chains :
        (/\ task[c] = "queued"
         /\ faults = MaxFaults
         /\ \A g \in Gates : product[section[c]][g] # Torn)
            ~> task[c] = "done" \/ section[c] \in overlapped

=============================================================================
