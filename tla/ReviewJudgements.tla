-------------------------- MODULE ReviewJudgements --------------------------
(***************************************************************************)
(* The judgements a bid passes through once it is written, as functions:   *)
(* review_engine and llm_gateway (what a review reports),                  *)
(* scoring_engine (what a requirement scores) and redline_engine with the  *)
(* queries of assets/repository it uses.                                   *)
(*                                                                         *)
(* An issue is [code, type, severity, clash, described]: the requirement   *)
(* it names (or NoCode), its type, its severity, whether its description   *)
(* speaks of a contradiction, and whether it has a description at all.     *)
(* Shares are pairs <<part, whole>>; weights and scores are in percent.    *)
(***************************************************************************)
EXTENDS Integers, FiniteSets, Sequences, FiniteSetsExt

CONSTANTS NoCode, Known       \* no requirement; the standards known to be in force

----------------------------------------------------------------------------
(* review_engine                                                           *)
missing_requirements(issues, codes) ==
    {i.code : i \in {x \in issues : x.type \in {"MISSING", "NON_COMPLIANT"}}} \cap codes

logical_inconsistencies(issues) ==
    {i \in issues : i.described /\ (i.type = "LOGICAL_INCONSISTENCY" \/ i.clash)}

risk_points(issues) == {i \in issues : i.described}

section_coverage(codes, missing) ==
    IF codes = {} THEN <<1, 1>> ELSE <<Cardinality(codes \ missing), Cardinality(codes)>>

\* Every standard a text cites that is not in the list.
check_standard_references(text) == text.standards \ Known

\* Only a voltage above the project's own is an issue; no fact, no check.
check_numerical_consistency(text, voltage) ==
    IF voltage = 0 THEN {} ELSE {v \in text.voltages : v > voltage}

\* A source without issues (the model's answer, or the error that stands for
\* one) misses nothing: its coverage is full.
build_full_review_report_payload(status, source, codes, sections, voltage) ==
    LET missing == missing_requirements(source.issues, codes)
    IN  [status |-> status, error |-> source.error, issues |-> source.issues,
         missing |-> missing,
         inconsistencies |-> logical_inconsistencies(source.issues),
         risks |-> risk_points(source.issues),
         coverage |-> IF codes = {} THEN <<0, 1>>
                      ELSE <<Cardinality(codes) - Cardinality(missing), Cardinality(codes)>>,
         sections |-> {[key |-> s.key, coverage |-> section_coverage(s.codes, missing)] : s \in sections},
         standards |-> UNION {check_standard_references(s.text) : s \in sections},
         numbers |-> UNION {check_numerical_consistency(s.text, voltage) : s \in sections}]

----------------------------------------------------------------------------
(* llm_gateway's ensemble: the status most votes have, the report of the   *)
(* vote of the best quality, every vote's issues.  A vote is [index,       *)
(* status, issues, missing, risks, cover], cover a percentage.             *)
status_rank(status) ==
    CASE status = "PASS" -> 3 [] status = "WARN" -> 2 [] status = "FAIL" -> 1 [] OTHER -> 0

majority_status(votes) ==
    LET count(s) == Cardinality({v \in votes : v.status = s})
        statuses == {v.status : v \in votes}
    IN  IF votes = {} THEN "FAIL"
        ELSE CHOOSE s \in statuses : \A t \in statuses :
               \/ count(t) < count(s)
               \/ count(t) = count(s) /\ status_rank(t) <= status_rank(s)

Clamp(x, low, high) == Max({low, Min({high, x})})

\* model_quality, in hundredths: coverage 78, status 22 / 12 / 0, minus the
\* issues' penalty, capped at 36.
evaluate_compliance_quality(vote) ==
    Clamp(78 * Clamp(vote.cover, 0, 100)
          + (CASE vote.status = "PASS" -> 2200 [] vote.status = "WARN" -> 1200
               [] vote.status = "FAIL" -> 0 [] OTHER -> 600)
          - Min({3600, 400 * Cardinality(vote.issues) + 300 * Cardinality(vote.missing)
                       + 100 * Cardinality(vote.risks)}), 0, 10000)

BetterVote(v, w) ==
    LET qv == evaluate_compliance_quality(v)  qw == evaluate_compliance_quality(w)
    IN  \/ qv > qw
        \/ qv = qw /\ status_rank(v.status) > status_rank(w.status)
        \/ qv = qw /\ status_rank(v.status) = status_rank(w.status) /\ v.index < w.index

VotersMutant(chain, size) == {i \in DOMAIN chain : chain[i].up /\ i <= size}

\* The first profiles that answer, as many as asked for, vote; none answers: an error.
Voters(chain, size) ==
    LET answering == {i \in DOMAIN chain : chain[i].up}
    IN  {i \in answering : Cardinality({j \in answering : j < i}) < size}

merge_modeled_issues(votes) == UNION {v.issues : v \in votes}

compliance_review_with_ensemble(chain, size) ==
    LET votes  == {chain[i].vote : i \in Voters(chain, Max({1, Min({size, Len(chain)})}))}
        winner == CHOOSE v \in votes : \A w \in votes \ {v} : BetterVote(v, w)
        merged == merge_modeled_issues(votes)
    IN  [status |-> majority_status(votes), winner |-> winner.index,
         issues |-> IF merged = {} THEN winner.issues ELSE merged]

----------------------------------------------------------------------------
(* scoring_engine.calculate_score for one requirement.  A report is        *)
(* [key, status, issues, error]; NoReport and NoSection stand for none.    *)
CONSTANTS NoReport, NoSection

\* Mutant: the text's own support of a requirement stands in for the review.
ScoreStatusMutant(code, section, report) ==
    IF section = NoSection THEN "UNPLANNED"
    ELSE IF report # NoReport /\ \E i \in report.issues : i.code \in {code, "PARSE_ERROR"} THEN "FAIL"
    ELSE "PASS"

ScoreStatus(code, section, report) ==
    CASE section = NoSection -> "UNPLANNED"
      [] section # NoSection /\ report = NoReport -> "UNREVIEWED"
      [] section # NoSection /\ report # NoReport ->
           IF report.status = "PASS" THEN "PASS"
           ELSE IF \E i \in report.issues : i.code = "PARSE_ERROR" THEN "ERROR"
           ELSE IF \E i \in report.issues : i.code = code THEN "FAIL"
           ELSE "PASS"

----------------------------------------------------------------------------
(* redline_engine: a finding is [rule, category, severity]; findings of one *)
(* rule are one.                                                           *)
Finding(rule, category, severity) ==
    [rule |-> rule, category |-> category, severity |-> severity]

\* The query keeps what is valid after the day, so the second rule finds nothing.
get_company_qualifications(library, day) ==
    {d \in library : d.kind = "QUALIFICATION" /\ d.valid_to > day}

\* Mutant: an empty query has nothing to complain of.
check_qualificationsMutant(library, day) ==
    {Finding("QUAL-EXPIRED", "qualification", "P0") :
        d \in {x \in get_company_qualifications(library, day) : x.valid_to <= day}}

check_qualifications(library, day) ==
    LET valid == get_company_qualifications(library, day)
    IN  IF valid = {} THEN {Finding("QUAL-MISSING", "qualification", "P0")}
        ELSE {Finding("QUAL-EXPIRED", "qualification", "P0") : d \in {x \in valid : x.valid_to <= day}}

list_bid_asset_pool_entries(pool, type) == {a \in pool : a.asset_type = type}

list_personnel_candidates(pool, role, idle, months) ==
    {a \in list_bid_asset_pool_entries(pool, "person") :
        /\ role = NoCode \/ role \in a.roles
        /\ a.months >= months
        /\ idle => a.active = 0}

check_key_staff_and_ss(pool) ==
    LET candidates == list_personnel_candidates(pool, NoCode, FALSE, 0)
    IN  IF candidates = {} THEN {Finding("STAFF-POOL-EMPTY", "staff", "P0")}
        ELSE {Finding("STAFF-CONFLICT", "staff", "P1") : a \in {x \in candidates : x.active > 0}}
             \cup {Finding("STAFF-SS-LOW", "social", "P1") : a \in {x \in candidates : x.months < 6}}

check_authorization(pool) ==
    LET letters == list_bid_asset_pool_entries(pool, "authorization")
    IN  IF letters = {} THEN {Finding("AUTH-MISSING", "authorization", "P0")}
        ELSE {Finding("AUTH-INCOMPLETE", "authorization", "P1") :
                a \in {x \in letters : {"representative", "seal"} \ x.phrases # {}}}

\* start, completion and the two durations in days; NoCode for no such date or minimum.
build_duration_findings(d) ==
    CASE NoCode \in {d.start, d.completion} -> {Finding("DURATION-DATE-INVALID", "deviation", "P0")}
      [] NoCode \notin {d.start, d.completion} /\ d.completion <= d.start ->
           {Finding("DURATION-DATE-ORDER", "deviation", "P0")}
      [] OTHER ->
           {Finding("DURATION-MISMATCH", "deviation", "P0") :
               x \in {d.committed} \ {d.completion - d.start}}
           \cup {Finding("DURATION-TOO-SHORT", "deviation", "P0") :
               x \in {y \in {d.minimum} \ {NoCode} : d.committed < y}}

build_parameter_deviation_findings(comparisons) ==
    {Finding("NEG-DEV", "deviation", "P0") : c \in {x \in comparisons : x.provided < x.required}}

redline_status(findings) ==
    CASE \E f \in findings : f.severity = "P0" -> "BLOCKED"
      [] ~(\E f \in findings : f.severity = "P0") /\ (\E f \in findings : f.severity = "P1") -> "NEED_FIX"
      [] OTHER -> "PASS"
============================================================================
