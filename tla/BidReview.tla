------------------------------ MODULE BidReview ------------------------------
(***************************************************************************)
(* Reviewing and scoring a written bid: review_engine, scoring_engine,     *)
(* redline_engine's endpoint and the flags an addendum leaves, as requests *)
(* that run while the section pipeline rewrites the sections.  A review    *)
(* reads its section, asks the model and saves a report; a scoring reads   *)
(* requirements, sections and reports one after another.  Reports are      *)
(* ordered by created_at, which is set when they are saved.                *)
(***************************************************************************)
EXTENDS ReviewJudgements

CONSTANTS Clients, Keys, Codes,
          Full,            \* the section key "__FULL__"
          MaxVersion,      \* generation versions a project gets
          Verdicts,        \* what a model may answer: [status, issues]
          NoRow,           \* no such section row
          MaxRequests, MaxEdits, MaxFaults

ASSUME ReviewAssumption ==
    /\ Full \notin Keys /\ MaxVersion \in Nat \ {0}
    /\ MaxRequests \in Nat /\ MaxEdits \in Nat /\ MaxFaults \in Nat
    /\ NoRow \notin [codes : SUBSET Codes, stale : BOOLEAN]

VARIABLES
    rows,       \* section_content: [Keys \X versions -> [codes, stale] or NoRow]
    rewritten,  \* history: the keys whose section was saved more than once
    known,      \* requirement: the codes with a row
    reports,    \* review_report, by created_at
    scores,     \* scoring_report
    audit,      \* audit_log: the overrides recorded
    overridden, \* history: the overrides answered OVERRIDDEN
    job,        \* [Clients -> the request under way]
    requests, edits, faults

bid == <<rows, rewritten, known>>
vars == <<bid, reports, scores, audit, overridden, job, requests, edits, faults>>

Versions == 1..MaxVersion
Idle == [at |-> "idle"]
Present == {r \in Keys \X Versions : rows[r] # NoRow}

TypeOK ==
    /\ \A r \in Keys \X Versions :
         rows[r] = NoRow \/ (rows[r].codes \subseteq Codes /\ rows[r].stale \in BOOLEAN)
    /\ \A r \in Present : rows[r].codes \subseteq known
    /\ rewritten \subseteq Keys
    /\ \A i \in DOMAIN reports : /\ reports[i].key \in Keys \cup {Full}
                                 /\ reports[i].error => reports[i].status = "FAIL"
    /\ \A s \in scores : DOMAIN s.items \subseteq known
    /\ audit \subseteq Nat /\ overridden \subseteq audit
    /\ \A c \in Clients : job[c].at \in {"idle", "reviewing", "sections", "reports", "save", "audit", "audited"}

Init ==
    /\ rows = [r \in Keys \X Versions |-> NoRow] /\ known = {} /\ rewritten = {} /\ reports = <<>> /\ scores = {}
    /\ audit = {} /\ overridden = {}
    /\ job = [c \in Clients |-> Idle] /\ requests = 0 /\ edits = 0 /\ faults = 0

Begin(c) == job[c] = Idle /\ requests < MaxRequests /\ requests' = requests + 1

Goto(c, next) == job' = [job EXCEPT ![c] = next]

Fault == faults < MaxFaults /\ faults' = faults + 1

\* shown: the requirements the model was asked to review the text against.
Report(key, shown, status, issues, error, coverage) ==
    [key |-> key, shown |-> shown, status |-> status, issues |-> issues, error |-> error,
     coverage |-> coverage]

----------------------------------------------------------------------------
(* What the bid is written by.                                             *)
\* Of several versions of a section any row may be the one a review's query returns.
RowsOf(k) == {r \in Present : r[1] = k}

\* The requirements of the section that have no row yet get one.
Inserted(codes) == known \cup codes

\* The section pipeline saves a section into its outline's version, with its
\* requirements, over whatever the row held.
SaveSection(k, v, codes) ==
    /\ edits < MaxEdits /\ edits' = edits + 1
    /\ rows' = [rows EXCEPT ![<<k, v>>] = [codes |-> codes, stale |-> FALSE]]
    /\ known' = Inserted(codes)
    /\ rewritten' = rewritten \cup {r[1] : r \in RowsOf(k)}
    /\ UNCHANGED <<reports, scores, audit, overridden, job, requests, faults>>

\* An addendum flags the chapters it touches, in the newest version only.
mark_generated_chapters_stale(chapters) ==
    LET newest == Max({r[2] : r \in Present})
    IN  [r \in Keys \X Versions |->
            IF r \in Present /\ r[2] = newest /\ r[1] \in chapters
            THEN [rows[r] EXCEPT !.stale = TRUE] ELSE rows[r]]

ImportAddendum(chapters) ==
    /\ edits < MaxEdits /\ edits' = edits + 1 /\ Present # {} /\ chapters # {}
    /\ rows' = mark_generated_chapters_stale(chapters)
    /\ UNCHANGED <<rewritten, known, reports, scores, audit, overridden, job, requests, faults>>

----------------------------------------------------------------------------
(* Reviews.                                                                *)
Save(c, report) ==
    /\ reports' = Append(reports, report) /\ Goto(c, Idle)
    /\ UNCHANGED <<bid, scores, audit, overridden, edits>>

ReadSection(c, k, row) ==
    /\ Begin(c) /\ row \in RowsOf(k)
    /\ rows[row].codes \cap known # {}
    /\ Goto(c, [at |-> "reviewing", key |-> k, codes |-> rows[row].codes \cap known])
    /\ UNCHANGED <<bid, reports, scores, audit, overridden, edits, faults>>

\* A section without requirements, or whose requirements have no row, is not
\* shown to the model.
create_empty_report(c, k, row) ==
    /\ Begin(c) /\ row \in RowsOf(k)
    /\ rows[row].codes \cap known = {}
    /\ Save(c, Report(k, {}, IF rows[row].codes = {} THEN "PASS" ELSE "WARN", {}, FALSE, <<1, 1>>))
    /\ UNCHANGED faults

\* The whole document, against every requirement.
ReadDocument(c) ==
    /\ Begin(c) /\ Present # {} /\ known # {}
    /\ Goto(c, [at |-> "reviewing", key |-> Full, codes |-> known])
    /\ UNCHANGED <<bid, reports, scores, audit, overridden, edits, faults>>

NothingRequired(c) ==
    /\ Begin(c) /\ Present # {} /\ known = {}
    /\ Save(c, Report(Full, {}, "WARN", {}, FALSE, <<0, 1>>))
    /\ UNCHANGED faults

Coverage(key, status, issues, codes) ==
    IF key # Full THEN <<1, 1>>
    ELSE build_full_review_report_payload(status, [issues |-> issues, error |-> FALSE], codes, {}, 0).coverage

\* The model's answer; one that cannot be read is a FAIL that names PARSE_ERROR.
ReviewAnswers(c, verdict) ==
    /\ job[c].at = "reviewing"
    /\ Save(c, Report(job[c].key, job[c].codes, verdict.status, verdict.issues, FALSE,
                      Coverage(job[c].key, verdict.status, verdict.issues, job[c].codes)))
    /\ UNCHANGED <<requests, faults>>

\* No provider answers: a FAIL that holds the error and no issue.
ReviewFails(c) ==
    /\ job[c].at = "reviewing" /\ Fault
    /\ Save(c, Report(job[c].key, job[c].codes, "FAIL", {}, TRUE, Coverage(job[c].key, "FAIL", {}, job[c].codes)))
    /\ UNCHANGED requests

----------------------------------------------------------------------------
(* Scoring.                                                                *)
ReadRequirements(c) ==
    /\ Begin(c)
    /\ Goto(c, [at |-> "sections", codes |-> known])
    /\ UNCHANGED <<bid, reports, scores, audit, overridden, edits, faults>>

\* The last row that lists a code owns it, in no particular order.
Owners(code) ==
    LET listing == {r[1] : r \in {x \in Present : code \in rows[x].codes}}
    IN  IF listing = {} THEN {NoSection} ELSE listing

ReadSections(c, owner) ==
    /\ job[c].at = "sections"
    /\ \A code \in Codes : owner[code] \in Owners(code)
    /\ Goto(c, [at |-> "reports", codes |-> job[c].codes, owner |-> owner])
    /\ UNCHANGED <<bid, reports, scores, audit, overridden, requests, edits, faults>>

Reported(key, upto) == {i \in 1..upto : reports[i].key = key}

\* reports_by_key: of the reports of a section the one created last counts.
Latest(key) ==
    IF Reported(key, Len(reports)) = {} THEN NoReport
    ELSE reports[Max(Reported(key, Len(reports)))]

Scored(owner, codes) ==
    [code \in codes |-> [owner |-> owner[code],
                         status |-> ScoreStatus(code, owner[code], Latest(owner[code]))]]

ReadReports(c) ==
    /\ job[c].at = "reports"
    /\ Goto(c, [at |-> "save", upto |-> Len(reports), items |-> Scored(job[c].owner, job[c].codes)])
    /\ UNCHANGED <<bid, reports, scores, audit, overridden, requests, edits, faults>>

SaveScore(c) ==
    /\ job[c].at = "save"
    /\ scores' = scores \cup {[items |-> job[c].items, upto |-> job[c].upto]}
    /\ Goto(c, Idle)
    /\ UNCHANGED <<bid, reports, audit, overridden, requests, edits, faults>>

\* The database refuses a commit, or the process ends: the request is answered
\* with an error, or not at all, and saved nothing.
Dies(c) ==
    /\ job[c].at \in {"reviewing", "sections", "reports", "save", "audited"} /\ Fault
    /\ Goto(c, Idle)
    /\ UNCHANGED <<bid, reports, scores, audit, overridden, requests, edits>>

----------------------------------------------------------------------------
(* Redline overrides, by the number of the request: an override needs a P0 *)
(* finding, and is given only once the audit log holds it.                 *)
Override(c, findings) ==
    /\ Begin(c) /\ redline_status(findings) = "BLOCKED"
    /\ Goto(c, [at |-> "audit", id |-> requests])
    /\ UNCHANGED <<bid, reports, scores, audit, overridden, edits, faults>>

record_audit_event(c) ==
    /\ job[c].at = "audit"
    /\ audit' = audit \cup {job[c].id}
    /\ Goto(c, [at |-> "audited", id |-> job[c].id, ok |-> TRUE])
    /\ UNCHANGED <<bid, reports, scores, overridden, requests, edits, faults>>

\* The commit fails, or its answer is lost: the row may be there or not.
AuditFails(c, stored) ==
    /\ job[c].at = "audit" /\ Fault
    /\ audit' = IF stored THEN audit \cup {job[c].id} ELSE audit
    /\ Goto(c, [at |-> "audited", id |-> job[c].id, ok |-> FALSE])
    /\ UNCHANGED <<bid, reports, scores, overridden, requests, edits>>

\* Mutant: the audit log's answer is not looked at.
AnswerOverrideMutant(c) ==
    /\ job[c].at = "audited"
    /\ overridden' = overridden \cup {job[c].id}
    /\ Goto(c, Idle)
    /\ UNCHANGED <<bid, reports, scores, audit, requests, edits, faults>>

\* OVERRIDDEN, or 503.
AnswerOverride(c) ==
    /\ job[c].at = "audited"
    /\ overridden' = IF job[c].ok THEN overridden \cup {job[c].id} ELSE overridden
    /\ Goto(c, Idle)
    /\ UNCHANGED <<bid, reports, scores, audit, requests, edits, faults>>

----------------------------------------------------------------------------
Next ==
    \/ \E k \in Keys, v \in Versions, codes \in SUBSET Codes : SaveSection(k, v, codes)
    \/ \E chapters \in SUBSET Keys : ImportAddendum(chapters)
    \/ \E c \in Clients :
         \/ \E k \in Keys, row \in Present : ReadSection(c, k, row) \/ create_empty_report(c, k, row)
         \/ ReadDocument(c) \/ NothingRequired(c)
         \/ \E verdict \in Verdicts : ReviewAnswers(c, verdict)
         \/ ReviewFails(c)
         \/ ReadRequirements(c) \/ ReadReports(c) \/ SaveScore(c) \/ Dies(c)
         \/ \E owner \in [Codes -> Keys \cup {NoSection}] : ReadSections(c, owner)
         \/ \E f \in SUBSET {Finding("NEG-DEV", "deviation", "P0"), Finding("STAFF-SS-LOW", "social", "P1")} :
              Override(c, f)
         \/ record_audit_event(c) \/ AnswerOverride(c) \/ (\E stored \in BOOLEAN : AuditFails(c, stored))

Spec == Init /\ [][Next]_vars

----------------------------------------------------------------------------
\* A report speaks against a requirement when it names it, or could not be read.
Accuses(report, code) ==
    report.status # "PASS" /\ \E i \in report.issues : i.code \in {code, "PARSE_ERROR"}

\* Of the first n reports, the last of the section was written by a model that
\* was shown the requirement and did not speak against it.
Cleared(key, code, n) ==
    /\ Reported(key, n) # {}
    /\ LET last == reports[Max(Reported(key, n))]
       IN  ~last.error /\ code \in last.shown /\ ~Accuses(last, code)

LastFailed(key, n) == Reported(key, n) # {} /\ reports[Max(Reported(key, n))].error

\* No requirement scores without a review: the last one of its section was asked
\* about this very requirement and did not speak against it, however reviews,
\* rewrites and the three reads of a scoring interleave; only a review that
\* failed, and a section rewritten since it was first saved, may make an
\* exception (scoring_engine.calculate_score).
SettledScoresWereReviewed ==
    \A s \in scores : \A code \in DOMAIN s.items :
        LET key == s.items[code].owner
        IN  s.items[code].status = "PASS" /\ key \notin rewritten =>
                Cleared(key, code, s.upto) \/ LastFailed(key, s.upto)

\* An override that was granted is in the audit log, although the log's store
\* may fail before or after it kept the row (redline_v2.apply_redline_override).
OverridesAreAudited == overridden \subseteq audit
============================================================================
