---------------------------- MODULE KnowledgeBase ----------------------------
(***************************************************************************)
(* Ingestion into the expert library: requests that store one or several   *)
(* documents in the database and in the vector store, one after the other, *)
(* while other requests do the same, and retrieval, which sees the vector  *)
(* store only.  The documents are versions (years) of one standard; a      *)
(* document whose version is not recognised has year 0 and takes no part   *)
(* in the lifecycle of versions.                                           *)
(*                                                                         *)
(* The version check, the deprecation of older versions, the document's    *)
(* rows, its vectors and the update of its KBIngestRun are separate        *)
(* transactions: anything may happen in between.                           *)
(***************************************************************************)
EXTENDS Naturals

CONSTANTS
    Requests,        \* ingest requests
    MaxFiles,        \* files of one request, at most
    Years,           \* versions of the standard
    AutoDeprecate,   \* settings.lifecycle_auto_deprecate
    MaxFaults        \* bound on the failures and crashes of one behaviour

ASSUME FilesAssumption == MaxFiles \in Nat \ {0} /\ MaxFaults \in Nat
ASSUME YearsAssumption == Years \subseteq Nat \ {0} /\ AutoDeprecate \in BOOLEAN

Docs == Requests \X (1..MaxFiles)

VARIABLES
    kind,     \* kind[r]: "uploads" or "structured" (a form's categories)
    files,    \* files[r]: how many documents request r brings
    year,     \* year[d]: the version detect_standard_info finds, or 0
    at,       \* at[r]: the document request r works on
    phase,    \* phase[r]: where it is
    status,   \* status[r]: the standard_status found by the version check
    row,      \* row[d]: standard_status in the ExpertDoc and EvidenceChunk rows
    ingest,   \* ingest[d]: current_step of the KBIngestRun row
    vector,   \* vector[d]: standard_status in the payload of the vectors
    item,     \* item[d]: what the answer will say of d
    faults    \* failures so far (bounded by MaxFaults)

request == <<kind, files, year>>
stores  == <<row, ingest, vector>>
vars == <<request, at, phase, status, stores, item, faults>>

Ended == {"answered", "raised", "lost"}

Phases == {"idle", "checking", "deprecating", "storing", "indexing", "marking", "filing"}
            \cup Ended

(* A form has no standard's versions: its documents have no year.           *)
Init ==
    /\ kind \in [Requests -> {"uploads", "structured"}]
    /\ files \in [Requests -> 1..MaxFiles]
    /\ year \in [Docs -> Years \cup {0}]
    /\ \A r \in Requests, i \in 1..MaxFiles :
          kind[r] = "structured" \/ i > files[r] => year[<<r, i>>] = 0
    /\ at = [r \in Requests |-> 1]
    /\ phase = [r \in Requests |-> "idle"]
    /\ status = [r \in Requests |-> "active"]
    /\ row = [d \in Docs |-> "none"]
    /\ ingest = [d \in Docs |-> "none"]
    /\ vector = [d \in Docs |-> "none"]
    /\ item = [d \in Docs |-> "none"]
    /\ faults = 0

Doc(r) == <<r, at[r]>>

Fault == faults < MaxFaults /\ faults' = faults + 1

Enter(r, p) == phase' = [phase EXCEPT ![r] = p]

(* The active versions in the database.                                     *)
Active == {d \in Docs : row[d] = "active" /\ year[d] # 0}

-----------------------------------------------------------------------------
FirstPhase(r) == IF kind[r] = "uploads" THEN "checking" ELSE "storing"

Begin(r) ==
    /\ phase[r] = "idle"
    /\ Enter(r, FirstPhase(r))
    /\ UNCHANGED <<request, at, status, stores, item, faults>>

(* The outcome of a file, and on to the next one or to the answer.          *)
NextFile(r, outcome) ==
    /\ item' = [item EXCEPT ![Doc(r)] = outcome]
    /\ status' = [status EXCEPT ![r] = "active"]
    /\ IF at[r] < files[r]
         THEN at' = [at EXCEPT ![r] = @ + 1] /\ Enter(r, FirstPhase(r))
         ELSE UNCHANGED at /\ Enter(r, "answered")

(* Nothing can be read from the file, or its format is not supported.       *)
RejectFile(r) ==
    /\ phase[r] = "checking"
    /\ NextFile(r, "failed")
    /\ UNCHANGED <<request, stores, faults>>

(* detect_standard_info, then validate_standard_version: a version older    *)
(* than the newest active one is stored as deprecated; otherwise the older  *)
(* ones are deprecated, if the settings say so.                             *)
CheckVersion(r) ==
    /\ phase[r] = "checking"
    /\ LET y == year[Doc(r)]
           isLatest == \A d \in Active : y >= year[d]
       IN  /\ status' = [status EXCEPT ![r] = IF y = 0 \/ isLatest THEN "active"
                                                                   ELSE "deprecated"]
           /\ Enter(r, IF y # 0 /\ isLatest /\ AutoDeprecate THEN "deprecating"
                                                             ELSE "storing")
    /\ UNCHANGED <<request, at, stores, item, faults>>

(* Mutant: the same version is deprecated, too.                             *)
DeprecateSameYear(r) ==
    /\ phase[r] = "deprecating"
    /\ row' = [d \in Docs |-> IF d \in Active /\ year[d] <= year[Doc(r)]
                                THEN "deprecated" ELSE row[d]]
    /\ Enter(r, "storing")
    /\ UNCHANGED <<request, at, status, ingest, vector, item, faults>>

WithoutOlder(r) ==
    [d \in Docs |-> IF d \in Active /\ year[d] < year[Doc(r)] THEN "deprecated" ELSE row[d]]

(* auto_deprecate_old_versions: in the database, documents and chunks in    *)
(* one transaction.  The vectors keep their payload.                        *)
Deprecate(r) ==
    /\ phase[r] = "deprecating"
    /\ row' = WithoutOlder(r)
    /\ Enter(r, "storing")
    /\ UNCHANGED <<request, at, status, ingest, vector, item, faults>>

(* A form's categories have no KBIngestRun.                                 *)
NewIngest(r) == IF kind[r] = "uploads" THEN "CHUNKED" ELSE "none"

(* Mutant: the result of the version check is not stored.                   *)
StoreAsActive(r) ==
    /\ phase[r] = "storing"
    /\ row' = [row EXCEPT ![Doc(r)] = "active"]
    /\ ingest' = [ingest EXCEPT ![Doc(r)] = NewIngest(r)]
    /\ Enter(r, "indexing")
    /\ UNCHANGED <<request, at, status, vector, item, faults>>

(* The document, its chunks and its KBIngestRun, in one transaction.        *)
Store(r) ==
    /\ phase[r] = "storing"
    /\ row' = [row EXCEPT ![Doc(r)] = status[r]]
    /\ ingest' = [ingest EXCEPT ![Doc(r)] = NewIngest(r)]
    /\ Enter(r, "indexing")
    /\ UNCHANGED <<request, at, status, vector, item, faults>>

(* upsert_chunks: all vectors are computed, then written at once, with the  *)
(* status of the check.                                                     *)
Index(r) ==
    /\ phase[r] = "indexing"
    /\ vector' = [vector EXCEPT ![Doc(r)] = status[r]]
    /\ IF kind[r] = "uploads"
         THEN Enter(r, "marking") /\ UNCHANGED <<at, status, item>>
         ELSE NextFile(r, "ok")
    /\ UNCHANGED <<request, row, ingest, faults>>

(* The update of the KBIngestRun to KB_READY.  It reads kb_run.id, which    *)
(* expired with the commit of a session that is closed: the exception is    *)
(* swallowed, and the row stays CHUNKED.                                    *)
MarkReady(r) ==
    /\ phase[r] = "marking"
    /\ Enter(r, "filing")
    /\ UNCHANGED <<request, at, status, stores, item, faults>>

(* The derived files of the library's directories, and the item's answer.   *)
WriteFiles(r) ==
    /\ phase[r] = "filing"
    /\ NextFile(r, "ok")
    /\ UNCHANGED <<request, stores, faults>>

-----------------------------------------------------------------------------
(* A write that raises has had no effect, or took effect and its reply was  *)
(* lost.  Then a document's KBIngestRun is set to FAILED, if that works.    *)
WriteRaises(r) ==
    \/ UNCHANGED stores
    \/ /\ phase[r] = "deprecating"
       /\ row' = WithoutOlder(r)
       /\ UNCHANGED <<ingest, vector>>
    \/ /\ phase[r] = "storing"
       /\ row' = [row EXCEPT ![Doc(r)] = status[r]]
       /\ \E mark \in {NewIngest(r)} \cup IF kind[r] = "uploads" THEN {"FAILED"} ELSE {} :
             ingest' = [ingest EXCEPT ![Doc(r)] = mark]
       /\ UNCHANGED vector
    \/ /\ phase[r] = "indexing"
       /\ vector' = [vector EXCEPT ![Doc(r)] = status[r]]
       /\ UNCHANGED <<row, ingest>>

(* Mutant: a failing vector store is only logged.                           *)
FileFailsSilently(r) ==
    /\ phase[r] \in {"storing", "indexing", "filing"} /\ kind[r] = "uploads"
    /\ Fault
    /\ NextFile(r, IF phase[r] = "indexing" THEN "ok" ELSE "failed")
    /\ UNCHANGED <<request, stores>>

(* An error that the loop over the files turns into the file's FAILED item  *)
(* (and the endpoint for a single file into its answer).                    *)
FileFails(r) ==
    /\ phase[r] \in {"storing", "indexing", "filing"} /\ kind[r] = "uploads"
    /\ Fault
    /\ NextFile(r, "failed")
    /\ WriteRaises(r)
    /\ UNCHANGED request

(* Any other error ends the request: those of the version check's and the   *)
(* deprecation's own transactions and of the vector store's client, and,    *)
(* for a form, every error.                                                 *)
RequestFails(r) ==
    /\ \/ phase[r] \in {"checking", "deprecating", "indexing"}
       \/ phase[r] = "storing" /\ kind[r] = "structured"
    /\ Fault
    /\ Enter(r, "raised")
    /\ WriteRaises(r)
    /\ UNCHANGED <<request, at, status, item>>

Crash(r) ==
    /\ phase[r] \notin {"idle"} \cup Ended
    /\ Fault
    /\ Enter(r, "lost")
    /\ UNCHANGED <<request, at, status, stores, item>>

Next ==
    \E r \in Requests :
        \/ Begin(r) \/ RejectFile(r) \/ CheckVersion(r) \/ Deprecate(r) \/ Store(r)
        \/ Index(r) \/ MarkReady(r) \/ WriteFiles(r)
        \/ FileFails(r) \/ RequestFails(r) \/ Crash(r)

Spec == Init /\ [][Next]_vars

-----------------------------------------------------------------------------
(* The answer of a batch.                                                   *)
Answer(r) ==
    LET items == {item[<<r, i>>] : i \in 1..files[r]}
    IN  CASE items = {"ok"} -> "SUCCEEDED"
          [] items = {"failed"} -> "FAILED"
          [] OTHER -> "PARTIAL_SUCCESS"

(* What a search may return: the filter and _is_payload_allowed reject the  *)
(* vectors whose payload says deprecated.                                   *)
Retrievable == {d \in Docs : vector[d] = "active"}

(* Requests and both stores have their types.                               *)
TypeOK ==
    /\ kind \in [Requests -> {"uploads", "structured"}]
    /\ files \in [Requests -> 1..MaxFiles]
    /\ year \in [Docs -> Years \cup {0}]
    /\ at \in [Requests -> 1..MaxFiles] /\ \A r \in Requests : at[r] <= files[r]
    /\ phase \in [Requests -> Phases]
    /\ status \in [Requests -> {"active", "deprecated"}]
    /\ row \in [Docs -> {"none", "active", "deprecated"}]
    /\ ingest \in [Docs -> {"none", "CHUNKED", "KB_READY", "FAILED"}]
    /\ vector \in [Docs -> {"none", "active", "deprecated"}]
    /\ item \in [Docs -> {"none", "ok", "failed"}]
    /\ faults \in 0..MaxFaults

Begun(d) == phase[d[1]] # "idle" /\ d[2] <= at[d[1]]

(* A document that was ingested is active and can be retrieved until the    *)
(* ingestion of a newer version begins, whatever other requests do or fail  *)
(* to do.                                                                   *)
InForceUntilSuperseded ==
    \A d \in Docs :
        /\ item[d] = "ok"
        /\ year[d] = 0 \/ \A e \in Docs : Begun(e) => year[e] <= year[d]
        => row[d] = "active" /\ d \in Retrievable

(* Of the versions one request brings, in whatever order and with whatever  *)
(* other requests in between, one is active.                                *)
OneVersionPerRequest ==
    \A d, e \in Active : d[1] = e[1] => year[d] = year[e]

(* A request that answers SUCCEEDED has left every one of its documents in  *)
(* both stores; one that answers FAILED or raises has left no document      *)
(* vectors without rows.                                                    *)
AnswerMatchesStores ==
    \A r \in Requests : \A i \in 1..files[r] :
        /\ phase[r] = "answered" /\ Answer(r) = "SUCCEEDED" =>
              row[<<r, i>>] # "none" /\ vector[<<r, i>>] # "none"
        /\ vector[<<r, i>>] # "none" => row[<<r, i>>] # "none"

(* "Will not cite an abolished standard": when no request is under way,     *)
(* what can be retrieved is active in the database.  The code breaks it:    *)
(* deprecation does not reach the vector store.                             *)
DeprecatedIsNotRetrieved ==
    (\A r \in Requests : phase[r] \in {"idle", "answered"}) =>
        \A d \in Retrievable : row[d] = "active"

=============================================================================
