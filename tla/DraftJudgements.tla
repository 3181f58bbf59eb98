-------------------------- MODULE DraftJudgements --------------------------
(***************************************************************************)
(* The judgements a draft passes through, as functions of what they look   *)
(* at: pricing_guard, evidence_validator, disqualification_matrix,         *)
(* global_facts, llm_contracts, section_router and semantic_cache's key.   *)
(*                                                                         *)
(* A text is a record of what the judgements can tell apart:               *)
(*   pricing    what detect_pricing_content looks for (a set of signs)     *)
(*   grounded   every fact sentence occurs in the evidence                 *)
(*   facts      the global facts it states: [Fields -> value or Unstated]  *)
(*   words      the disqualification keywords in it                        *)
(*   topics     bag of category keywords in it: [Categories -> Nat]        *)
(*   size       its estimate in tokens                                     *)
(***************************************************************************)
EXTENDS Integers, FiniteSets

CONSTANTS Fields, Unstated, Categories,
          MinCoverage,      \* settings.min_matrix_coverage, in percent
          WeightThreshold   \* critical_weight_threshold of the routing file, in percent

----------------------------------------------------------------------------
(* pricing_guard: signs are "hard" (an always-blocking keyword), "near" (a *)
(* context keyword with an amount beside it), "yuan" (the only such        *)
(* keyword is a false positive of the yuan sign), "amount", "context",     *)
(* "many" (ten numbers or more), "dense", "technical" (a technical title   *)
(* within the first 200 characters).                                       *)
PricingSignals(signs) ==
    {s \in {"keyword", "currency", "table"} :
        \/ s = "keyword"  /\ "near" \in signs /\ "yuan" \notin signs
        \/ s = "currency" /\ {"amount", "context"} \subseteq signs
        \/ s = "table"    /\ {"many", "dense"} \subseteq signs}

detect_pricing_content(signs) ==
    \/ "hard" \in signs
    \/ Cardinality(PricingSignals(signs)) >= IF "technical" \in signs THEN 3 ELSE 2

----------------------------------------------------------------------------
(* evidence_validator.run_three_gates.                                     *)
CoverageTooLow(mapped, total, must) ==
    \/ mapped * 100 < MinCoverage * total
    \/ must /\ mapped < total

gate1_evidence_binding(ids) == ids # {}

\* Every fact sentence is a part of some evidence, up to the fuzzy ratio.
gate2_deterministic_check(text) == text.grounded

run_three_gates(ids, text, mapped, total, must) ==
    IF \/ ~gate1_evidence_binding(ids)
       \/ ~gate2_deterministic_check(text)
       \/ CoverageTooLow(mapped, total, must)
    THEN "NEED_HUMAN_INPUT" ELSE "SUPPORTED"

----------------------------------------------------------------------------
(* disqualification_matrix: a condition has its keywords, a category and a *)
(* strength; a text covers it by naming one of its keywords, or by naming  *)
(* two keywords of its category.  A requirement is a set of sentences.     *)
build_matrix_from_requirements(sentences) ==
    {[words |-> s.words, category |-> s.category,
      strength |-> IF s.strong THEN "DISQUALIFY" ELSE "REJECT"] :
        s \in {x \in sentences : x.words # {}}}

Covers(text, cond) ==
    \/ cond.words \cap text.words # {}
    \/ text.topics[cond.category] >= 2

disqualify_level_missing(text, conds) ==
    {c \in conds : c.strength = "DISQUALIFY" /\ ~Covers(text, c)}

coverage_rate(text, conds) ==
    IF conds = {} THEN 100
    ELSE (Cardinality({c \in conds : Covers(text, c)}) * 100) \div Cardinality(conds)

\* _classify_category: the category with most keywords, the first one on a tie,
\* FORMAT when none occurs; order is the enumeration's order.
classify_category(topics, order) ==
    LET best == CHOOSE i \in DOMAIN order :
                  /\ \A j \in DOMAIN order : topics[order[j]] <= topics[order[i]]
                  /\ \A j \in 1..(i - 1) : topics[order[j]] < topics[order[i]]
    IN  IF topics[order[best]] > 0 THEN order[best] ELSE "FORMAT"

----------------------------------------------------------------------------
(* global_facts: rules first, a fallback only fills what the rules missed; *)
(* a conflict is a field both state, differently.                          *)
\* What the thirty-odd patterns find.
extract_with_rules(text) == text.facts

merge_facts(base, fallback) ==
    [f \in Fields |-> IF base[f] = Unstated THEN fallback[f] ELSE base[f]]

detect_global_fact_conflicts(base, candidate) ==
    {f \in Fields : base[f] # Unstated /\ candidate[f] # Unstated /\ base[f] # candidate[f]}

----------------------------------------------------------------------------
(* llm_contracts: a generation payload names at least one block, every     *)
(* block names evidence, and none that was not retrieved.                  *)
\* A v1.1 payload has one block with its evidence, or a placeholder without.
normalize_v11(ids) == {IF ids = {} THEN {"NEED_EVIDENCE"} ELSE ids}

validate_generation_payload(blocks) == blocks # {} /\ {} \notin blocks

ensure_generation_evidence_binding(blocks, allowed) == UNION blocks \subseteq allowed

----------------------------------------------------------------------------
(* section_router: a section is critical by its weight or its title; only  *)
(* a critical one is enhanced, by the review model.                        *)
is_critical_section(section) ==
    \/ section.weighed /\ section.weight >= WeightThreshold
    \/ section.criticalTitle

select_generation_plan(section) ==
    [critical |-> is_critical_section(section), enhance |-> is_critical_section(section)]

(* _prefer_profile_chain: the preferred model's profiles come first, the   *)
(* others keep their order; without one the chain is unchanged.            *)
prefer_profile_chain(chain, preferred) ==
    LET first == {i \in DOMAIN chain : chain[i].model = preferred}
        rank(i) == IF i \in first
                   THEN Cardinality({j \in first : j <= i})
                   ELSE Cardinality(first) + Cardinality({j \in DOMAIN chain \ first : j <= i})
    IN  [k \in DOMAIN chain |-> chain[CHOOSE i \in DOMAIN chain : rank(i) = k]]

(* semantic_cache.build_cache_key over the scope generate_draft builds.    *)
build_cache_key(req, ids, reviewed) ==
    [topic |-> req.topic, project |-> req.project, ids |-> ids, reviewed |-> reviewed]
============================================================================
