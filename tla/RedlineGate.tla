----------------------------- MODULE RedlineGate -----------------------------
(***************************************************************************)
(* A redline check of a project (redline_engine.run_redline_check): the    *)
(* findings of the request and of its arithmetic, then, when it asks for   *)
(* them, three checks against the company's documents and the project's    *)
(* asset pool, each with a read of its own, while documents and assets are *)
(* still being added and days pass.  What the checks find is               *)
(* ReviewJudgements'.                                                      *)
(*                                                                         *)
(* A document is [kind, valid_to], valid_to a day; an asset is a person    *)
(* [asset_type, roles, months, active] or a letter [asset_type, phrases].  *)
(* Nothing in the repository writes or removes an asset.                   *)
(***************************************************************************)
EXTENDS ReviewJudgements

CONSTANTS
    LastDay,      \* bound on the calendar
    Documents,    \* what may be ingested into the library
    Assets,       \* what may be put into the project's pool
    Requests      \* bodies of a check: [given, comparisons, durations, active]

VARIABLES
    today, library, pool,
    check,        \* the check under way: where it is, its request, its findings
    report        \* the answer to the last check

vars == <<today, library, pool, check, report>>

NoCheck == [at |-> "none"]

Init == today = 0 /\ library = {} /\ pool = {} /\ check = NoCheck /\ report = NoReport

----------------------------------------------------------------------------
DayPasses == today < LastDay /\ today' = today + 1 /\ UNCHANGED <<library, pool, check, report>>

Ingest(d) == library' = library \cup {d} /\ d \notin library /\ UNCHANGED <<today, pool, check, report>>

Supply(a) == pool' = pool \cup {a} /\ a \notin pool /\ UNCHANGED <<today, library, check, report>>

----------------------------------------------------------------------------
Answer(findings, day) ==
    /\ report' = [status |-> redline_status(findings), findings |-> findings, day |-> day]
    /\ check' = NoCheck
    /\ UNCHANGED <<today, library, pool>>

Continue(next) == check' = next /\ UNCHANGED <<today, library, pool, report>>

\* What needs no read: the given findings, parameters below what is asked for,
\* durations that do not add up.
Computed(r) ==
    r.given \cup build_parameter_deviation_findings(r.comparisons)
    \cup UNION {build_duration_findings(d) : d \in r.durations}

run_redline_check(r) ==
    /\ check = NoCheck
    /\ IF r.active THEN Continue([at |-> "qualifications", findings |-> Computed(r)])
       ELSE Answer(Computed(r), NoCode)

\* Asked without the day of the opening, the query takes today's.
CheckQualifications ==
    /\ check.at = "qualifications"
    /\ Continue([at |-> "staff", day |-> today,
                 findings |-> check.findings \cup check_qualifications(library, today)])

CheckStaff ==
    /\ check.at = "staff"
    /\ Continue([check EXCEPT !.at = "authorization", !.findings = @ \cup check_key_staff_and_ss(pool)])

CheckAuthorization ==
    /\ check.at = "authorization"
    /\ Answer(check.findings \cup check_authorization(pool), check.day)

Next ==
    \/ DayPasses
    \/ \E d \in Documents : Ingest(d)
    \/ \E a \in Assets : Supply(a)
    \/ \E r \in Requests : run_redline_check(r)
    \/ CheckQualifications \/ CheckStaff \/ CheckAuthorization

Spec == Init /\ [][Next]_vars

----------------------------------------------------------------------------
FullCheck == report # NoReport /\ report.day # NoCode

\* A full check that does not block speaks for a project that has a document in
\* force on the day it was looked up, someone to send and an authorization, and
\* one that passes for someone who is free and insured and a letter that is
\* complete, although each was looked up by itself while the project changed
\* (redline_engine.run_redline_check).
ClearsOnlyTheEquipped ==
    FullCheck /\ report.status # "BLOCKED" =>
        /\ \E d \in library : d.kind = "QUALIFICATION" /\ d.valid_to > report.day
        /\ \E a \in pool : a.asset_type = "person" /\ (report.status = "PASS" => a.active = 0 /\ a.months >= 6)
        /\ \E a \in pool : a.asset_type = "authorization"
                           /\ (report.status = "PASS" => {"representative", "seal"} \subseteq a.phrases)
============================================================================
