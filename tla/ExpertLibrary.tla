---------------------------- MODULE ExpertLibrary ----------------------------
(***************************************************************************)
(* The expert library's conversions and thresholds (expert_library, the    *)
(* statistics endpoints): requests that convert an upload into a session   *)
(* of files, written one after another with the meta file last, confirm a  *)
(* session, which ingests its document, and edit or publish thresholds in  *)
(* files that are emptied and then filled.  Nothing is locked.             *)
(***************************************************************************)
EXTENDS DocumentConversion, TLC

CONSTANTS Clients, Sessions,
          Documents,              \* what may be uploaded: [blocks, pricing]
          MinTokens,              \* settings.expert_chunk_min_tokens
          Base,                   \* the base file's thresholds
          Updates,                \* the updates a request may carry
          LeastTokens,            \* the smallest max_chunk_tokens accepted
          Absent,                 \* no such file
          MaxEdits, MaxConfirms, MaxFailures

ASSUME LibraryAssumption ==
    /\ Base \notin {Absent} /\ MinTokens \in Nat \ {0} /\ LeastTokens \in Nat \ {0} /\ TableMax \in Nat
    /\ MaxEdits \in Nat /\ MaxConfirms \in Nat /\ MaxFailures \in Nat

Thresholds == [low_confidence : Int, strong_review_confidence : Int, max_section_pages : Int,
               max_chunk_tokens : Int, chunk_overlap_tokens : Int]

\* Blocks are read as such, and thresholds as numbers.
ASSUME InputsAssumption ==
    /\ \A d \in Documents : d.blocks \in Seq(Blocks)
    /\ Base \in Thresholds
    /\ \A u \in Updates : \A k \in DOMAIN u : k \in DOMAIN Base /\ u[k] \in Int

VARIABLES
    file,       \* the thresholds files "runtime" and "golive"
    session,    \* the conversion sessions' directories
    ingested,   \* [Sessions -> how many documents its confirmations stored]
    audited,    \* audit_log: how many publications it holds
    published,  \* history: publications written to the runtime file
    job,        \* [Clients -> the request under way]
    edits, confirms, failures

libraryVars == <<file, session, ingested, audited, published, job, edits, confirms, failures>>

Idle == [at |-> "idle"]
NoSession == [meta |-> "none"]
Torn == [torn |-> TRUE]     \* emptied, not filled yet
Artifacts == <<"raw", "doc", "layout", "chunks", "blocks", "structure", "merged">>

LibraryTypeOK ==
    /\ \A f \in {"runtime", "golive"} : file[f] \in {Absent, Torn} \/ DOMAIN file[f] = DOMAIN Base
    /\ \A s \in Sessions : session[s] = NoSession \/
         (session[s].meta \in {"absent", "torn", "open", "confirmed"} /\ session[s].written \in 1..Len(Artifacts))
    /\ \A s \in Sessions : session[s] = NoSession => ingested[s] = 0
    /\ audited <= published

LibraryInit ==
    /\ file = [f \in {"runtime", "golive"} |-> Absent]
    /\ session = [s \in Sessions |-> NoSession] /\ ingested = [s \in Sessions |-> 0]
    /\ audited = 0 /\ published = 0 /\ job = [c \in Clients |-> Idle]
    /\ edits = 0 /\ confirms = 0 /\ failures = 0

Goto(c, next) == job' = [job EXCEPT ![c] = next]

Failure == failures < MaxFailures /\ failures' = failures + 1

----------------------------------------------------------------------------
(* Thresholds.  A file that is missing, or empty because it is being       *)
(* written, leaves the base file's values.                                 *)
load_thresholds(f) == IF file[f] \in {Absent, Torn} THEN Base ELSE file[f]

\* Overlap and budget are compared when one request carries both.
validate_threshold_updates(u) ==
    /\ \A k \in {"low_confidence", "strong_review_confidence"} \cap DOMAIN u : u[k] \in 0..100
    /\ "max_section_pages" \in DOMAIN u => u.max_section_pages >= 1
    /\ "max_chunk_tokens" \in DOMAIN u => u.max_chunk_tokens >= LeastTokens
    /\ "chunk_overlap_tokens" \in DOMAIN u => u.chunk_overlap_tokens >= 0
    /\ {"max_chunk_tokens", "chunk_overlap_tokens"} \subseteq DOMAIN u =>
         u.chunk_overlap_tokens < u.max_chunk_tokens

Write(c, f, values, then) ==
    /\ job[c] = Idle /\ edits < MaxEdits /\ edits' = edits + 1
    /\ Goto(c, [at |-> "truncate", file |-> f, values |-> values, then |-> then])
    /\ UNCHANGED <<file, session, ingested, audited, published, confirms, failures>>

\* The values a request leaves: its updates, and what was there for the others.
Updated(values, u) == [k \in DOMAIN values |-> IF k \in DOMAIN u THEN u[k] ELSE values[k]]

update_expert_library_thresholds(c, u) ==
    validate_threshold_updates(u) /\ Write(c, "runtime", Updated(load_thresholds("runtime"), u), "idle")

update_expert_library_go_live_thresholds(c, u) ==
    validate_threshold_updates(u) /\ Write(c, "golive", Updated(load_thresholds("golive"), u), "idle")

publish_expert_library_go_live_thresholds(c) ==
    file["golive"] # Absent /\ Write(c, "runtime", load_thresholds("golive"), "audit")

Truncate(c) ==
    /\ job[c].at = "truncate" /\ file' = [file EXCEPT ![job[c].file] = Torn]
    /\ Goto(c, [job[c] EXCEPT !.at = "fill"])
    /\ UNCHANGED <<session, ingested, audited, published, edits, confirms, failures>>

Fill(c) ==
    /\ job[c].at = "fill" /\ file' = [file EXCEPT ![job[c].file] = job[c].values]
    /\ Goto(c, [at |-> job[c].then])
    /\ published' = IF job[c].then = "audit" THEN published + 1 ELSE published
    /\ UNCHANGED <<session, ingested, audited, edits, confirms, failures>>

AuditPublication(c) ==
    /\ job[c].at = "audit" /\ audited' = audited + 1 /\ Goto(c, Idle)
    /\ UNCHANGED <<file, session, ingested, published, edits, confirms, failures>>

----------------------------------------------------------------------------
(* Conversions.                                                            *)
cuts(t) == ChunkBudgetOk(MinTokens, t.max_chunk_tokens, t.chunk_overlap_tokens)

\* What the files of document d's session will hold, by thresholds t.
Directory(d, t) ==
    LET structure == build_structure_v1_from_blocks(d.blocks)
        cut == IF cuts(t) THEN chunk_sections_for_rag(structure, MinTokens, t.max_chunk_tokens, t.chunk_overlap_tokens)
               ELSE <<>>
    IN  [meta |-> "absent", written |-> 1, raw |-> d.blocks, pricing |-> d.pricing, structure |-> structure,
         max |-> t.max_chunk_tokens, overlap |-> t.chunk_overlap_tokens,
         layout |-> build_conversion_layout_rows(structure),
         reviews |-> DOMAIN risk_review_sections(structure, t.strong_review_confidence),
         exceptions |-> Cardinality(build_exceptions_queue(structure, t.low_confidence, t.max_section_pages)),
         chunks |-> cut,
         fallback |-> IF cut # <<>> /\ (\A i \in DOMAIN cut : cut[i].text = <<>> /\ cut[i].table = <<>>)
                      THEN fallback_chunks_from_blocks(d.blocks) ELSE <<>>]

\* The session's directory and the upload are there before the text is cut: a
\* budget that cannot cut it leaves them behind.
convert_upload_to_structured(c, s, d) ==
    LET t == load_thresholds("runtime")
    IN  /\ job[c] = Idle /\ session[s] = NoSession /\ d.blocks # <<>>
        /\ session' = [session EXCEPT ![s] = Directory(d, t)]
        /\ Goto(c, IF cuts(t) THEN [at |-> "files", session |-> s] ELSE Idle)
        /\ UNCHANGED <<file, ingested, audited, published, edits, confirms, failures>>

WriteArtifact(c) ==
    /\ job[c].at = "files" /\ session[job[c].session].written < Len(Artifacts)
    /\ session' = [session EXCEPT ![job[c].session].written = @ + 1]
    /\ UNCHANGED <<file, ingested, audited, published, job, edits, confirms, failures>>

MetaDueMutant(s) == session[s].written >= Len(Artifacts) - 1

\* Every other file is there.
MetaDue(s) == session[s].written = Len(Artifacts)

TearMeta(c) ==
    /\ job[c].at \in {"files", "ingested"} /\ MetaDue(job[c].session)
    /\ session' = [session EXCEPT ![job[c].session].meta = "torn"]
    /\ Goto(c, [job[c] EXCEPT !.at = IF @ = "files" THEN "meta" ELSE "remeta"])
    /\ UNCHANGED <<file, ingested, audited, published, edits, confirms, failures>>

WriteMeta(c) ==
    /\ job[c].at \in {"meta", "remeta"}
    /\ session' = [session EXCEPT ![job[c].session].meta = IF job[c].at = "meta" THEN "open" ELSE "confirmed"]
    /\ Goto(c, Idle)
    /\ UNCHANGED <<file, ingested, audited, published, edits, confirms, failures>>

\* A meta file that cannot be read, and a session without its files, is refused.
confirm_structured_conversion_ingest(c, s) ==
    /\ job[c] = Idle /\ confirms < MaxConfirms /\ confirms' = confirms + 1
    /\ session[s].meta \in {"open", "confirmed"}
    /\ Goto(c, [at |-> "ingest", session |-> s])
    /\ UNCHANGED <<file, session, ingested, audited, published, edits, failures>>

\* The request ends with an error, without a word in the session.
IngestRefused(c) == Idle

\* The document is cut again, by the thresholds of now, and stored; a second
\* confirmation of a session stores it again.
Ingest(c) ==
    /\ job[c].at = "ingest"
    /\ IF cuts(load_thresholds("runtime"))
       THEN /\ ingested' = [ingested EXCEPT ![job[c].session] = @ + 1]
            /\ Goto(c, [at |-> "ingested", session |-> job[c].session])
       ELSE /\ Goto(c, IngestRefused(c)) /\ UNCHANGED ingested
    /\ UNCHANGED <<file, session, audited, published, edits, confirms, failures>>

IngestFails(c) ==
    /\ job[c].at = "ingest" /\ Failure /\ Goto(c, IngestRefused(c))
    /\ UNCHANGED <<file, session, ingested, audited, published, edits, confirms>>

\* A write fails, the audit log refuses its row, or the process ends: what was
\* written stays.
Dies(c) ==
    /\ job[c] # Idle /\ job[c].at # "ingest" /\ Failure /\ Goto(c, Idle)
    /\ UNCHANGED <<file, session, ingested, audited, published, edits, confirms>>

----------------------------------------------------------------------------
LibraryNext ==
    \E c \in Clients :
      \/ \E u \in Updates : \/ update_expert_library_thresholds(c, u)
                            \/ update_expert_library_go_live_thresholds(c, u)
      \/ publish_expert_library_go_live_thresholds(c)
      \/ Truncate(c) \/ Fill(c) \/ AuditPublication(c)
      \/ \E s \in Sessions : (\E d \in Documents : convert_upload_to_structured(c, s, d))
                             \/ confirm_structured_conversion_ingest(c, s)
      \/ WriteArtifact(c) \/ TearMeta(c) \/ WriteMeta(c)
      \/ Ingest(c) \/ IngestFails(c) \/ Dies(c)

LibrarySpec == LibraryInit /\ [][LibraryNext]_libraryVars

----------------------------------------------------------------------------
Readable(s) == session[s].meta \in {"open", "confirmed"}

\* The meta file, which is written last and rewritten in place, says no more of a
\* session than is so: one that can be confirmed has all its files, and one that
\* is confirmed has had its document stored, wherever a conversion or a
\* confirmation died and however confirmations race, fail or find a budget that
\* cannot cut the document
\* (expert_library.convert_upload_to_structured, confirm_structured_conversion_ingest).
MetaIsTrue ==
    \A s \in Sessions :
        /\ Readable(s) => session[s].written = Len(Artifacts)
        /\ session[s].meta = "confirmed" => ingested[s] > 0

\* What the files of a directory hold of the upload beside them.
Whole(dir) ==
    /\ HoldsBlocks(dir.structure, dir.raw)
    /\ Cardinality(dir.layout) = Len(BlocksIn(dir.structure))
    /\ DOMAIN dir.chunks = DOMAIN dir.structure
    /\ \A i \in DOMAIN dir.structure :
         /\ HoldsText(dir.structure[i], dir.chunks[i], dir.max, dir.overlap)
         /\ HoldsTables(dir.structure[i], dir.chunks[i])

\* The files of a session that can be confirmed hold the upload: its sections
\* every block that is not empty, in order, its layout every block under an id of
\* its own, and its chunks every word of every text, in chunks no larger than the
\* budget, and every uploaded row of every table under the table's header, in
\* order and over the budget only when a row alone is, whatever thresholds were
\* being edited while it was cut.  Of a row longer than the header they hold the
\* cells the header has a column for, and no others
\* (expert_library.convert_upload_to_structured).
ConfirmableHoldsUpload == \A s \in Sessions : Readable(s) => Whole(session[s])
============================================================================
