-------------------------- MODULE DraftGeneration --------------------------
(***************************************************************************)
(* generate_draft_with_retrieval (services/generation_pipeline.py) with    *)
(* the semantic cache and the token budget it goes through: several        *)
(* workers, each with one draft at a time, share Redis and the database,   *)
(* and each has a cache and a budget of its own for when Redis fails.      *)
(* Model calls are chosen among what a provider may answer; evidence ages  *)
(* while drafts are produced, and cached drafts outlive their evidence.    *)
(***************************************************************************)
EXTENDS TokenBudget, DraftJudgements

CONSTANTS Requests,     \* the calls: see MCDraft
          Texts,        \* the texts a provider or the local template may write
          HumanText,    \* the literal NEED_HUMAN_INPUT
          Evidence,     \* ids of the retrieved evidence
          Subs,         \* sub-requirements of every requirement
          HardLimit,    \* section_output_overflow_factor times the section's limit
          MaxDrafts,    \* bound: drafts in one behaviour
          NoEntry

ASSUME TextsAssumption == \A t \in Texts \cup {HumanText} : t.size \in Sizes
ASSUME RequestsAssumption == \A r \in Requests : r.project \in BOOLEAN
ASSUME WorkersAssumption == IsFiniteSet(Workers)

VARIABLES
    age,        \* the evidence: "fresh", "near" its expiry, "expired"
    job,        \* [Workers -> the draft under way]
    shared,     \* the cache in Redis: [Keys -> entry or NoEntry]
    private,    \* [Workers -> the cache in the process]
    links,      \* [sections -> how often the evidence is linked to it]
    drafts      \* drafts started

draftVars == <<age, job, shared, private, links, drafts>>
vars == <<budgetVars, draftVars>>

Keys == [topic : {r.topic : r \in Requests}, project : BOOLEAN,
         ids : SUBSET Evidence, reviewed : BOOLEAN]

Sections == {r.section : r \in Requests}

Statuses == {"none", "SUPPORTED", "NEED_HUMAN_INPUT", "BLOCKED_PRICING_CONTENT", "ERROR"}

NoDraft == [at |-> "idle", req |-> NoEntry, ids |-> {}, mapped |-> 0, near |-> FALSE,
            text |-> HumanText, unbound |-> FALSE, approved |-> FALSE,
            status |-> "none", cached |-> FALSE, linked |-> 0]

TypeOK ==
    /\ BudgetTypeOK
    /\ age \in {"fresh", "near", "expired"}
    /\ drafts \in 0..MaxDrafts
    /\ links \in [Sections -> 0..MaxDrafts]
    /\ \A w \in Workers :
         /\ job[w].at \in {"idle", "lookup", "generate", "reserve", "store", "links",
                           "write", "reply"}
         /\ job[w].status \in Statuses
         /\ job[w].text \in Texts \cup {HumanText}
         /\ job[w].at # "idle" => job[w].req \in Requests
    /\ \A k \in Keys : \A c \in {shared} \cup {private[w] : w \in Workers} :
         c[k] # NoEntry => c[k].text \in Texts \cup {HumanText}

Init ==
    /\ BudgetInit
    /\ age = "fresh" /\ drafts = 0
    /\ job = [w \in Workers |-> NoDraft]
    /\ shared = [k \in Keys |-> NoEntry]
    /\ private = [w \in Workers |-> shared]
    /\ links = [s \in Sections |-> 0]

----------------------------------------------------------------------------
At(w, step) == job[w].at = step
Req(w) == job[w].req
Conditions(r) == build_matrix_from_requirements(r.sentences)
Plan(w) == select_generation_plan(Req(w))
ReviewRequired(w) == Req(w).enable_review \/ Plan(w).critical
Key(w) == build_cache_key(Req(w), job[w].ids, ReviewRequired(w))

GoTo(w, step) == job' = [job EXCEPT ![w].at = step]

\* An answer that asks for a human or blocks: nothing else of it is told apart.
Refusal(r, status) == [NoDraft EXCEPT !.at = "reply", !.req = r, !.status = status]

\* _build_retrieval_context, when n sub-requirements found the evidence; _expiry_warnings
\* tells what is about to expire.
Retrieved(r, n) ==
    [NoDraft EXCEPT !.at = "lookup", !.req = r, !.mapped = n,
                    !.ids = IF n = 0 THEN {} ELSE Evidence,
                    !.near = (n > 0 /\ age = "near")]

\* From the call to the cache: a request that is itself pricing content is answered at
\* once; the rewritten queries decide how many sub-requirements find evidence.
Start(w, r) ==
    /\ At(w, "idle") /\ drafts < MaxDrafts
    /\ drafts' = drafts + 1
    /\ IF detect_pricing_content(r.signs)
       THEN job' = [job EXCEPT ![w] = Refusal(r, "BLOCKED_PRICING_CONTENT")]
       ELSE \E n \in IF age = "expired" THEN {0} ELSE 0..Subs :
              job' = [job EXCEPT ![w] = Retrieved(r, n)]
    /\ UNCHANGED <<budgetVars, age, shared, private, links>>

\* The vector store is unavailable: the exception leaves the function.
StartFails(w, r) ==
    /\ At(w, "idle") /\ drafts < MaxDrafts /\ faults < MaxFaults
    /\ drafts' = drafts + 1 /\ faults' = faults + 1
    /\ ~detect_pricing_content(r.signs)
    /\ job' = [job EXCEPT ![w] = Refusal(r, "ERROR")]
    /\ UNCHANGED <<row, db, redis, local, rsv, granted, age, shared, private, links>>

\* get_cache falls back to the process's own entries on a miss and on an error; an
\* entry is used only where no review is required.
UseEntry(w, entry) ==
    job' = [job EXCEPT ![w] =
       IF entry # NoEntry /\ ~ReviewRequired(w)
       THEN [@ EXCEPT !.at = "reply", !.cached = TRUE, !.status = entry.status,
                      !.text = entry.text]
       ELSE [@ EXCEPT !.at = "generate"]]

get_cache(w) ==
    /\ At(w, "lookup")
    /\ UseEntry(w, IF shared[Key(w)] # NoEntry THEN shared[Key(w)] ELSE private[w][Key(w)])
    /\ UNCHANGED <<budgetVars, age, shared, private, links, drafts>>

get_cache_fails(w) ==
    /\ At(w, "lookup") /\ faults < MaxFaults
    /\ UseEntry(w, private[w][Key(w)])
    /\ faults' = faults + 1
    /\ UNCHANGED <<row, db, redis, local, rsv, granted, age, shared, private, links, drafts>>

\* _run_generation_step: an answer whose blocks name evidence, one that names other
\* evidence, one that breaks the schema, or no answer at all, which the local template
\* replaces.
Generated(w) ==
    [text : Texts, unbound : {FALSE}]
    \cup {[text |-> HumanText, unbound |-> validate_generation_payload(blocks)] :
             blocks \in {b \in {{}, {Evidence}, {{"unknown"}}} :
                 validate_generation_payload(b)
                     => ~ensure_generation_evidence_binding(b, job[w].ids)}}

\* _run_section_enhance_step: a critical section is rewritten, or kept when no reviewer
\* answers.
Enhanced(w, text) == IF Plan(w).enhance THEN Texts \cup {text} ELSE {text}

HumanNeeded(j) ==
    \/ disqualify_level_missing(j.text, Conditions(j.req)) # {}
    \/ j.unbound
    \/ j.near
    \/ detect_global_fact_conflicts(j.req.facts, extract_with_rules(j.text)) # {}

\* Mutant: the gates are taken last, and forget the warnings.
VerdictMutant(j) ==
    IF detect_pricing_content(j.text.pricing) THEN "BLOCKED_PRICING_CONTENT"
    ELSE run_three_gates(j.ids, j.text, j.mapped, Subs, j.req.must)

\* The pricing guard, the three gates and the warnings that ask for a human.
Verdict(j) ==
    IF detect_pricing_content(j.text.pricing) THEN "BLOCKED_PRICING_CONTENT"
    ELSE IF HumanNeeded(j) THEN "NEED_HUMAN_INPUT"
    ELSE run_three_gates(j.ids, j.text, j.mapped, Subs, j.req.must)

Judged(j) ==
    IF Verdict(j) = "SUPPORTED"
    THEN [j EXCEPT !.at = "reserve", !.status = "SUPPORTED"]
    ELSE [Refusal(j.req, Verdict(j)) EXCEPT !.at = "reserve"]

\* Generation, enhancement and the token limits; then the reservation is asked for.  The
\* code judges once the reservation has answered, whatever it answered: the judgements
\* look at the draft alone, so they are taken here.
Write(w) ==
    /\ At(w, "generate")
    /\ \E g \in Generated(w) : \E text \in Enhanced(w, g.text) :
         IF text.size > HardLimit
         THEN /\ job' = [job EXCEPT ![w] = Refusal(Req(w), "NEED_HUMAN_INPUT")]
              /\ UNCHANGED budgetVars
         ELSE /\ job' = [job EXCEPT ![w] = Judged([@ EXCEPT !.text = text,
                                                          !.unbound = g.unbound])]
              /\ IF Req(w).project THEN StartReserve(w, text.size)
                                   ELSE AnswerUnbound(w, text.size)
    /\ UNCHANGED <<age, shared, private, links, drafts>>

\* _run_review_step, which a blocked draft does not reach: an approval keeps the status;
\* a rejection, or a chain in which no reviewer answers, asks for a human.
Reviewed(w) == ReviewRequired(w) /\ job[w].status # "BLOCKED_PRICING_CONTENT"

Review(w) ==
    /\ At(w, "reserve")
    /\ TakeReservation(w)
    /\ \E approved \in IF Reviewed(w) THEN BOOLEAN ELSE {FALSE} :
         job' = [job EXCEPT ![w] =
           IF Reviewed(w) /\ ~approved THEN Refusal(Req(w), "NEED_HUMAN_INPUT")
           ELSE IF @.status = "SUPPORTED" THEN [@ EXCEPT !.at = "store", !.approved = approved]
           ELSE [@ EXCEPT !.at = "reply"]]
    /\ UNCHANGED <<age, shared, private, links, drafts>>

\* Mutant: supported drafts are cached whoever asked for a review.
CacheableMutant(w) == TRUE

\* Only a SUPPORTED draft comes this far.
Cacheable(w) == ~ReviewRequired(w)

Entry(w) == [text |-> job[w].text, status |-> job[w].status]

set_cache(w) ==
    /\ At(w, "store")
    /\ shared' = IF Cacheable(w) THEN [shared EXCEPT ![Key(w)] = Entry(w)] ELSE shared
    /\ GoTo(w, "links")
    /\ UNCHANGED <<budgetVars, age, private, links, drafts>>

set_cache_fails(w) ==
    /\ At(w, "store") /\ Cacheable(w) /\ faults < MaxFaults
    /\ private' = [private EXCEPT ![w][Key(w)] = Entry(w)]
    /\ GoTo(w, "links")
    /\ faults' = faults + 1
    /\ UNCHANGED <<row, db, redis, local, rsv, granted, age, shared, links, drafts>>

\* persist_chapter_evidence_links reads the section's links and adds the missing ones in
\* one transaction that locks nothing; its errors are swallowed.
ReadLinks(w) ==
    /\ At(w, "links")
    /\ job' = [job EXCEPT ![w] =
         IF Req(w).project
         THEN [@ EXCEPT !.at = "write", !.linked = links[Req(w).section]]
         ELSE [@ EXCEPT !.at = "reply"]]
    /\ UNCHANGED <<budgetVars, age, shared, private, links, drafts>>

WriteLinks(w) ==
    /\ At(w, "write")
    /\ links' = IF job[w].linked = 0 THEN [links EXCEPT ![Req(w).section] = @ + 1] ELSE links
    /\ GoTo(w, "reply")
    /\ UNCHANGED <<budgetVars, age, shared, private, drafts>>

WriteLinksFails(w) ==
    /\ At(w, "write") /\ faults < MaxFaults
    /\ faults' = faults + 1
    /\ GoTo(w, "reply")
    /\ UNCHANGED <<row, db, redis, local, rsv, granted, age, shared, private, links, drafts>>

Return(w) ==
    /\ At(w, "reply")
    /\ job' = [job EXCEPT ![w] = NoDraft]
    /\ UNCHANGED <<budgetVars, age, shared, private, links, drafts>>

----------------------------------------------------------------------------
\* The surroundings move only while a draft may still look at them: afterwards nothing
\* tells the difference.
DraftsToCome == drafts < MaxDrafts
LookupsToCome == DraftsToCome \/ \E w \in Workers : At(w, "lookup")

\* An entry's hour is over, or the process evicts it to keep to its number of entries.
Expire(k) ==
    /\ LookupsToCome
    /\ \/ shared[k] # NoEntry /\ shared' = [shared EXCEPT ![k] = NoEntry] /\ UNCHANGED private
       \/ \E w \in Workers :
            /\ private[w][k] # NoEntry
            /\ private' = [private EXCEPT ![w][k] = NoEntry] /\ UNCHANGED shared
    /\ UNCHANGED <<budgetVars, age, job, links, drafts>>

\* invalidate_cache runs in one process: it clears Redis, whose errors it ignores, and
\* that process's entries.
ClearOwn(w) == private' = [private EXCEPT ![w] = [k \in Keys |-> NoEntry]]

invalidate_cache(w) ==
    /\ LookupsToCome
    /\ shared' = [k \in Keys |-> NoEntry]
    /\ ClearOwn(w)
    /\ UNCHANGED <<budgetVars, age, job, links, drafts>>

invalidate_cache_fails(w) ==
    /\ LookupsToCome /\ faults < MaxFaults
    /\ faults' = faults + 1
    /\ ClearOwn(w)
    /\ UNCHANGED <<row, db, redis, local, rsv, granted, age, job, shared, links, drafts>>

EvidenceAges ==
    /\ DraftsToCome
    /\ \/ age = "fresh" /\ age' = "near"
       \/ age = "near" /\ age' = "expired"
    /\ UNCHANGED <<budgetVars, job, shared, private, links, drafts>>

Budget(w) == Reserve(w) /\ UNCHANGED draftVars
BudgetFails(w) == StoreFails(w) /\ UNCHANGED draftVars

Work(w) ==
    \/ get_cache(w) \/ Write(w) \/ Budget(w) \/ Review(w) \/ set_cache(w)
    \/ ReadLinks(w) \/ WriteLinks(w) \/ Return(w)

Faulty(w) ==
    \/ get_cache_fails(w) \/ BudgetFails(w)
    \/ set_cache_fails(w) \/ WriteLinksFails(w) \/ invalidate_cache_fails(w)

Next ==
    \/ \E w \in Workers : Work(w) \/ Faulty(w) \/ invalidate_cache(w)
    \/ \E w \in Workers, r \in Requests : Start(w, r) \/ StartFails(w, r)
    \/ \E k \in Keys : Expire(k)
    \/ EvidenceAges

Spec == Init /\ [][Next]_vars

----------------------------------------------------------------------------
(* What the judgements say of a text for one request, with the evidence it *)
(* was given.                                                              *)
Sound(w) ==
    LET j == job[w] IN
      /\ j.ids # {} /\ j.text.grounded /\ ~j.near /\ ~j.unbound
      /\ ~CoverageTooLow(j.mapped, Subs, j.req.must)
      /\ detect_global_fact_conflicts(j.req.facts, extract_with_rules(j.text)) = {}
      /\ disqualify_level_missing(j.text, Conditions(j.req)) = {}

Supported(w) == At(w, "reply") /\ job[w].status = "SUPPORTED"

(* A draft answered as SUPPORTED passed every judgement for its own        *)
(* request, holds no pricing content, and was approved where the policy or *)
(* the section asks for a review; one taken from the cache never stands in *)
(* for a review (the status is set in ten places of the function).         *)
SupportedIsJustified ==
    \A w \in Workers : Supported(w) =>
        /\ ~detect_pricing_content(job[w].text.pricing)
        /\ ReviewRequired(w) => ~job[w].cached /\ job[w].approved
        /\ ~job[w].cached => Sound(w)

(* Neither tier of the cache holds a draft that was not supported, or one  *)
(* of a request that asks for a review; a worker links the evidence of a   *)
(* section at most once, so duplicates are as many as the workers.         *)
CheckedEntry(k, entry) ==
    entry # NoEntry =>
        /\ entry.status = "SUPPORTED" /\ ~k.reviewed /\ k.ids # {}
        /\ entry.text.grounded /\ ~detect_pricing_content(entry.text.pricing)

StoresHoldCheckedDrafts ==
    /\ \A k \in Keys : CheckedEntry(k, shared[k])
    /\ \A w \in Workers, k \in Keys : CheckedEntry(k, private[w][k])
    /\ \A s \in Sections : links[s] <= Cardinality(Workers)

(* Each budget store on its own behaves as a ledger, whatever fails.       *)
StoresAreLedgers ==
    /\ RowLedger!LedgerSpec /\ HashLedger!LedgerSpec
    /\ \A w \in Workers : ProcessLedger(w)!Unspent
    /\ [][\A w \in Workers : [ProcessLedger(w)!Reservation]_(local[w])]_local
============================================================================
