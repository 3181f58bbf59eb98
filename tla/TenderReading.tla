---------------------------- MODULE TenderReading ----------------------------
(***************************************************************************)
(* What is read out of a tender's text, as functions: the clauses that may *)
(* void a bid (prelim_extractor), the roles to be staffed                  *)
(* (key_personnel_extractor), the gate that compares both with the assets  *)
(* (fatal_gate), and the requirements and key points of the analysis       *)
(* (tender_parser, tender_analysis).                                       *)
(*                                                                         *)
(* A tender is a sequence of sentences [page, text].  A text knows which   *)
(* words of the source's lists it holds, one word standing for all that    *)
(* are in the same lists; its size in signs; the roles, certificate and    *)
(* conditions it names; the score it gives (0: none); and terms, the       *)
(* clause patterns whose keyword it holds.                                 *)
(***************************************************************************)
EXTENDS ReviewJudgements, SequencesExt

\* The lists a word is in: of tender_parser, of prelim_extractor ("prelim"), of
\* fatal_gate ("rejection", "advisory"), and of tender_analysis (capitals).
KeywordLists ==
    [voided      |-> {"DISQUALIFY", "disqualify", "rejection", "RISK"},
     ineligible  |-> {"REJECT", "disqualify", "rejection"},
     refused     |-> {"REJECT", "rejection", "RISK"},
     examination |-> {"disqualify", "prelim"},
     docked      |-> {"DEDUCT", "bonus_penalty", "advisory", "SCORING", "RISK"},
     preferred   |-> {"bonus_penalty", "advisory", "BONUS"},
     must        |-> {"must", "MUST"},
     shall       |-> {"MUST"},
     bidderShall |-> {"prelim", "MUST", "BIDDING"},
     licence     |-> {"prelim"},
     score       |-> {"score", "SCORING"},
     format      |-> {"format"},
     demand      |-> {"demand"},
     technical   |-> {"BIDDING"},
     substation  |-> {"POWER_ENG"}]

In(text, list) == \E w \in text.words : list \in KeywordLists[w]

classify_clause_strength(text) ==
    CASE In(text, "DISQUALIFY") -> "DISQUALIFY"
      [] ~In(text, "DISQUALIFY") /\ In(text, "REJECT") -> "REJECT"
      [] ~In(text, "DISQUALIFY") /\ ~In(text, "REJECT") /\ In(text, "DEDUCT") -> "DEDUCT"
      [] OTHER -> "ADVISORY"

----------------------------------------------------------------------------
(* prelim_extractor and key_personnel_extractor                            *)
Fatal(text) ==
    classify_clause_strength(text) \in {"DISQUALIFY", "REJECT"} \/ In(text, "disqualify")

extract_preliminary(tender) ==
    {[at |-> i, clause |-> tender[i].text, fatal_if_unmet |-> Fatal(tender[i].text)] :
        i \in {j \in DOMAIN tender :
                 /\ tender[j].text.size >= 8
                 /\ \E list \in {"disqualify", "must", "prelim"} : In(tender[j].text, list)}}

DescribingMutant(lines) == Max(lines)

\* Of the sentences that name a role, the first describes it; the later ones are
\* dropped, also when they ask for more.
Describing(lines) == Min(lines)

extract_key_personnel(tender) ==
    LET naming(role) == {i \in DOMAIN tender : tender[i].text.size >= 10 /\ role \in tender[i].text.roles}
        roles == UNION {tender[i].text.roles : i \in DOMAIN tender}
    IN  {[role |-> r, cert_required |-> tender[Describing(naming(r))].text.cert] :
            r \in {x \in roles : naming(x) # {}}}

----------------------------------------------------------------------------
(* fatal_gate                                                              *)
Clause(level, categories) == [i \in DOMAIN categories |-> [category |-> categories[i], level |-> level]]

\* The patterns by category, in the order of the table; equal neighbours are one.
ClausePatterns ==
    Clause("FATAL", <<"safety_license", "qualification", "business_license", "qualification", "bid_bond">>)
    \o Clause("HIGH", <<"bid_validity">>)
    \o Clause("FATAL", <<"format_compliance", "personnel", "special_operator">>)
    \o Clause("HIGH", <<"personnel">>)
    \o Clause("FATAL", <<"voltage_performance">>)
    \o Clause("HIGH", <<"grid_connection", "relay_protection">>)
    \o Clause("FATAL", <<"live_work">>)
    \o Clause("HIGH", <<"facility_protection", "substation", "transmission_line", "grounding", "safety_tools",
                        "commissioning", "similar_performance", "contract_performance">>)
    \o Clause("FATAL", <<"legal_compliance">>) \o Clause("HIGH", <<"legal_compliance">>)

\* The markers are looked for around the keyword: clauses here are no longer than that.
grade_risk(text, level) ==
    IF In(text, "advisory") THEN "WARN" ELSE IF In(text, "rejection") THEN "FATAL" ELSE level

scan(text) ==
    [i \in DOMAIN SetToSortSeq(text.terms, <) |->
        LET p == ClausePatterns[SetToSortSeq(text.terms, <)[i]]
        IN  [p EXCEPT !.level = grade_risk(text, @)]]

\* Any valid qualification meets any clause: what does not match by title is left to a
\* human.  A query that fails meets none.
match_prelim_to_assets(assets) ==
    "qualifications" \in assets.answers /\ get_company_qualifications(assets.library, assets.day) # {}

\* The query is given the role and its conditions, and looks at none of them.
get_people_candidates(library, day) == {d \in library : d.kind = "PERSONNEL" /\ d.valid_to > day}

match_personnel_to_assets(assets) ==
    "people" \in assets.answers /\ get_people_candidates(assets.library, assets.day) # {}

ClauseCheck(item, assets) ==
    LET hits == scan(item.clause)
        first == IF hits = <<>> THEN [category |-> "general", level |-> "WARN"] ELSE hits[1]
    IN  [of |-> item.at, blocked |-> ~match_prelim_to_assets(assets),
         category |-> first.category, risk_level |-> first.level]

RoleCheck(c, assets) ==
    [of |-> c.role, blocked |-> ~match_personnel_to_assets(assets),
     category |-> "personnel", risk_level |-> "HIGH"]

\* A role without a certificate is checked, and does not block.
check_fatal_gate(items, constraints, assets) ==
    LET clauses == {i \in items : i.fatal_if_unmet}
        blocked_reasons == {<<"clause", i.at>> : i \in {x \in clauses : ClauseCheck(x, assets).blocked}}
                           \cup {<<"role", c.role>> : c \in {x \in constraints : x.cert_required /\ RoleCheck(x, assets).blocked}}
    IN  [passed |-> blocked_reasons = {}, blocked_reasons |-> blocked_reasons,
         clauses |-> {ClauseCheck(i, assets) : i \in clauses},
         roles |-> {RoleCheck(c, assets) : c \in constraints}]

fatal_gate(tender, assets) ==
    check_fatal_gate(extract_preliminary(tender), extract_key_personnel(tender), assets)

----------------------------------------------------------------------------
(* tender_parser: what the first model that finds anything extracts, else  *)
(* what the lists find.  An extraction says whether it is a must, or not.  *)
parse_with_llm(answers) ==
    LET found == {a \in DOMAIN answers : answers[a] # <<>>}
        item(x) == [page |-> x.page, text |-> x.text,
                    must |-> IF x.must = "unsaid" THEN In(x.text, "must") ELSE x.must = "yes",
                    score |-> IF x.score > 0 THEN x.score ELSE x.text.score,
                    format |-> x.format \/ In(x.text, "format")]
    IN  IF found = {} THEN <<>> ELSE [i \in DOMAIN answers[Min(found)] |-> item(answers[Min(found)][i])]

\* A requirement is named for the sentence it is read from.
parse_with_regex(tender) ==
    LET read == {i \in DOMAIN tender : \E list \in {"must", "disqualify", "bonus_penalty", "score", "format"} :
                    In(tender[i].text, list)}
    IN  [i \in read |->
            [page |-> tender[i].page, text |-> tender[i].text,
             must |-> In(tender[i].text, "must") \/ In(tender[i].text, "disqualify"),
             score |-> tender[i].text.score, format |-> In(tender[i].text, "format")]]

parse_tender_requirements(tender, answers) ==
    IF parse_with_llm(answers) # <<>> THEN parse_with_llm(answers) ELSE parse_with_regex(tender)

----------------------------------------------------------------------------
(* tender_analysis: the key points, each in every category it belongs to.  *)
Point(i, r, category, must, importance) ==
    [at |-> i, page |-> r.page, content |-> r.text, category |-> category, is_must |-> must,
     importance |-> importance]

Bidding(text) == In(text, "BIDDING") \/ (In(text, "demand") /\ text.size >= 10)

KeyPoints(i, r, bidding, boost) ==
    LET point(yes, category, must, n) == IF yes THEN {Point(i, r, category, must, n + boost)} ELSE {}
    IN  UNION {point(Bidding(r.text) \/ r.format, "BIDDING_POINTS", r.must, bidding + (IF r.must THEN 15 ELSE 0)),
               point(r.score > 0 \/ In(r.text, "SCORING"), "SCORING_POINTS", r.must, 60 + Min({r.score, 30})),
               point(r.must, "COMPLIANCE_REQUIREMENTS", TRUE, 75),
               point(In(r.text, "BONUS"), "BONUS_POINTS", FALSE, 70),
               point(In(r.text, "RISK"), "RISK_ALERTS", r.must, 80)}

insights_from_parsed_requirements(requirements) ==
    UNION {LET points == KeyPoints(i, requirements[i], 58, 0)
           IN  IF points = {} THEN {Point(i, requirements[i], "BIDDING_POINTS", FALSE, 50)} ELSE points :
              i \in DOMAIN requirements}

\* Without requirements every sentence is looked at.
classify_line(i, l) ==
    IF l.text.size < 6 THEN {}
    ELSE KeyPoints(i, [page |-> l.page, text |-> l.text, must |-> In(l.text, "MUST"),
                       score |-> l.text.score, format |-> FALSE],
                   55, IF In(l.text, "POWER_ENG") THEN 10 ELSE 0)

SamePointMutant(x, y) == x.content = y.content

SamePoint(x, y) == x.category = y.category /\ x.content = y.content

\* Of the same point, the most important; of those, the first.
dedupe(items) ==
    {x \in items : \A y \in items : SamePoint(x, y) =>
        y.importance < x.importance \/ (y.importance = x.importance /\ x.at <= y.at)}

analyze_tender(tender, answers) ==
    LET parsed == insights_from_parsed_requirements(parse_tender_requirements(tender, answers))
        points == dedupe(IF parsed # {} THEN parsed ELSE UNION {classify_line(i, tender[i]) : i \in DOMAIN tender})
    IN  [points |-> points, status |-> IF points = {} THEN "NEED_HUMAN_INPUT" ELSE "SUCCEEDED"]
==============================================================================
