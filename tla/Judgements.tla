----------------------------- MODULE Judgements -----------------------------
(***************************************************************************)
(* The functions the system answers a request with, each put every         *)
(* question of a bounded set: a search of the expert library, the          *)
(* compression of its hits, the team for a bid, the ensemble of reviews,   *)
(* the qualification of a provider's profile, the thresholds recommended   *)
(* for the library, and the reading of a tender.  A behaviour asks one     *)
(* question; the properties say what its answer promises, against a        *)
(* definition that does not follow the code.                               *)
(***************************************************************************)
EXTENDS Retrieval, LibraryStatistics, TenderReading

CONSTANTS Searches, Compressions, Teams, Ensembles, Profiles, Libraries,
          Gates, Papers, Analyses, NoQuestion, NoOne

IsSequence(s) == s \in Seq({s[i] : i \in DOMAIN s})

\* What the questions are made of.
ASSUME LibrariesAssumption ==
    \A q \in Libraries :
      /\ IsFiniteSet(q.chunks)
      /\ q.now \in [low_confidence : Int, strong_review_confidence : Int, max_section_pages : Int,
                    max_chunk_tokens : Int, chunk_overlap_tokens : Int]

ASSUME GatesAssumption ==
    \A q \in Gates : /\ IsSequence(q.tender)
                     /\ {"library", "answers", "day"} \subseteq DOMAIN q.assets

ASSUME AnalysesAssumption ==
    \A q \in Analyses :
      /\ IsSequence(q.tender) /\ \A i \in DOMAIN q.tender : q.tender[i].text.score \in Int
      /\ IsSequence(q.answers)
      /\ \A a \in DOMAIN q.answers :
           /\ IsSequence(q.answers[a])
           /\ \A i \in DOMAIN q.answers[a] : {q.answers[a][i].score, q.answers[a][i].text.score} \subseteq Int

ASSUME TeamsAssumption ==
    \A q \in Teams :
      /\ IsFiniteSet(q.pool) /\ NoOne \notin q.pool /\ \A p \in q.pool : p.score \in Int
      /\ IsSequence(q.requirements)

\* The settings ask the store for at least what a prompt takes.  Points of several
\* documents may share the id of their chunk.
ASSUME SearchesAssumption ==
    \A q \in Searches :
      LET hits == ToSet(q.vector) \cup ToSet(q.sparse)
      IN  /\ {q.top_k, q.s.topn_max, q.s.topk_min, q.s.topk_max, q.s.hybrid, q.s.rerank, q.s.rrf_k,
              q.s.llm_candidates, q.s.llm_top_k, Unit} \subseteq Int
          /\ q.s.topn_min \in Nat \ {0}
          /\ \A n \in {q.s.topn_min, q.s.topn_max} : n <= q.s.topk_min \/ n <= q.s.topk_max
          /\ q.vector \in Seq(hits) /\ q.sparse \in Seq(hits) /\ IsFiniteSet(q.words)
          /\ \A x \in hits :
               /\ DOMAIN x = {"chunk", "words", "context", "allowed", "quality"}
               /\ IsFiniteSet(x.words) /\ x.quality \in Int
          /\ q.answer # Unavailable => IsSequence(q.answer)
          /\ q.model # Unavailable => IsSequence(q.model)

\* The order of relevance names every text once.
ASSUME CompressionsAssumption ==
    \A q \in Compressions :
      /\ {q.c.max_items, q.c.max_chars, q.c.snippet_chars} \subseteq Nat \ {0}
      /\ q.texts \in Seq(Nat)
      /\ q.answer # Unavailable => IsSequence(q.answer)
      /\ q.order \in Seq(DOMAIN q.texts) /\ \A i \in DOMAIN q.texts : \E k \in DOMAIN q.order : q.order[k] = i
      /\ \A j, k \in DOMAIN q.order : q.order[j] = q.order[k] => j = k

\* A vote is named for the profile that cast it.
ASSUME EnsemblesAssumption ==
    \A q \in Ensembles :
      /\ q.size \in Int /\ IsSequence(q.chain)
      /\ \A i \in DOMAIN q.chain :
           /\ {q.chain[i].vote.index, q.chain[i].vote.cover} \subseteq Int
           /\ \A s \in {q.chain[i].vote.issues, q.chain[i].vote.missing, q.chain[i].vote.risks} : IsFiniteSet(s)
      /\ \A i, j \in DOMAIN q.chain : q.chain[i].vote.index = q.chain[j].vote.index => i = j

ASSUME ProfilesAssumption ==
    \A q \in Profiles :
      /\ {"credential", "base_url", "probe", "generation", "review", "compliance", "estimate", "report"} \subseteq DOMAIN q
      /\ {"cover", "status"} \subseteq DOMAIN q.report
      /\ q.estimate \in Int /\ q.report.cover \in Int
      /\ \A s \in {q.report.issues, q.report.missing, q.report.risks} : IsFiniteSet(s)

VARIABLE asked      \* the question: [kind, of]

----------------------------------------------------------------------------
(* personnel_matcher: a person fills one role.  Every assignment is tried, *)
(* but a role stays empty only when no one is left for it.                 *)
assignments(options) ==
    LET Free(t, i) == options[i] \ {t[j] : j \in 1..(i - 1)}
    IN  {t \in [DOMAIN options -> (UNION {options[i] : i \in DOMAIN options}) \cup {NoOne}] :
            \A i \in DOMAIN options : IF Free(t, i) = {} THEN t[i] = NoOne ELSE t[i] \in Free(t, i)}

Filled(team) == {i \in DOMAIN team : team[i] # NoOne}

\* The sum of the first n numbers of g.
Total(g, n) ==
    LET sum[k \in 0..n] == IF k = 0 THEN 0 ELSE sum[k - 1] + g[k]
    IN  sum[n]

TeamScore(team) ==
    Total([i \in DOMAIN team |-> IF team[i] = NoOne THEN 0 ELSE team[i].score], Len(team))

BetterTeam(t, u) ==
    \/ Cardinality(Filled(t)) > Cardinality(Filled(u))
    \/ Cardinality(Filled(t)) = Cardinality(Filled(u)) /\ TeamScore(t) > TeamScore(u)

\* Every role takes the best person left, in the roles' order.
pick_best_teamMutant(options) ==
    CHOOSE t \in assignments(options) :
        \A i \in Filled(t) : \A p \in options[i] \ {t[j] : j \in 1..(i - 1)} : p.score <= t[i].score

pick_best_team(options) ==
    CHOOSE t \in assignments(options) : \A u \in assignments(options) : ~BetterTeam(u, t)

\* A requirement that names no role is passed over: no one is an option for it.
Options(pool, requirements) ==
    [i \in DOMAIN requirements |->
        IF requirements[i].role = NoCode THEN {}
        ELSE list_personnel_candidates(pool, requirements[i].role, requirements[i].idle, requirements[i].months)]

match_personnel_team(pool, requirements) ==
    LET team == pick_best_team(Options(pool, requirements))
    IN  [team |-> team, matched |-> Filled(team) = {i \in DOMAIN requirements : requirements[i].role # NoCode}]

----------------------------------------------------------------------------
(* byok/profiles: a credential, a probe, and the three contracts an        *)
(* adapter must keep.  A probe without an address to call passes.          *)
completion_probe(p) == p.credential /\ (p.base_url => p.probe)

cases_passed(p) ==
    (IF p.credential THEN {"credential"} ELSE {})
    \cup (IF completion_probe(p) THEN {"probe"} \cup {c \in {"generation", "review", "compliance"} : p[c]} ELSE {})

capability_score(p) ==
    LET points(case, weight) == IF case \in cases_passed(p) THEN weight ELSE 0
    IN  points("credential", 20) + points("probe", 15) + points("generation", 20)
        + points("review", 20) + points("compliance", 25)

\* The mean of the scores that are not zero, whether or not their case passed.
model_quality_score(p) ==
    LET review     == Clamp(p.estimate, 0, 100) * 100
        compliance == evaluate_compliance_quality(p.report)
    IN  IF ~completion_probe(p) THEN 0
        ELSE IF 0 \in {review, compliance} THEN Max({review, compliance})
        ELSE (review + compliance) \div 2

quality_scoreMutant(p) == (100 * capability_score(p) + 3 * model_quality_score(p)) \div 4

\* In hundredths.
quality_score(p) == (300 * capability_score(p) + model_quality_score(p)) \div 4

qualify_provider_profile(p, threshold) ==
    /\ quality_score(p) >= 100 * Clamp(threshold, 0, 100)
    /\ {"credential", "probe", "review", "compliance"} \subseteq cases_passed(p)

----------------------------------------------------------------------------
Ask(kind, question) == asked' = [kind |-> kind, of |-> question]

NothingAsked == asked = NoQuestion

AskOne ==
    /\ asked = NoQuestion
    /\ \/ \E q \in Searches : Ask("search", q)
       \/ \E q \in Compressions : Ask("compress", q)
       \/ \E q \in Teams : Ask("team", q)
       \/ \E q \in Ensembles : Ask("ensemble", q)
       \/ \E q \in Profiles : Ask("profile", q)
       \/ \E q \in Libraries : Ask("library", q)
       \/ \E q \in Gates : Ask("gate", q)
       \/ \E q \in Analyses : Ask("analysis", q)

Questions == NothingAsked /\ [][AskOne]_asked

Answers(kind, Good(_)) == asked # NoQuestion /\ asked.kind = kind => Good(asked.of)

----------------------------------------------------------------------------
\* A search serves each chunk once, only points that may be served, and never
\* more than the prompt has room for.  Of what the store returned it loses only a
\* chunk whose id a later point has that may not be served: there are as many hits
\* as there is room for, whatever a model answers (ids it made up, ids twice,
\* nothing), and a query that names a fact gets at least one
\* (qdrant_store.search, _fuse_hybrid, _llm_rerank_hits, _apply_key_fact_filter).
SearchServesAllowed ==
    LET Good(q) ==
          LET n == prompt_top_n(q.s, q.top_k)
              hits == search(q.s, q)
              served == {hits[i].chunk : i \in DOMAIN hits}
              both == vector_search(q.vector, q.s, n) \o sparse_search(q.sparse, q.s, n)
              may(x) == x.allowed /\ x.words # {}
              last(i) == \A j \in DOMAIN both : both[j].chunk = both[i].chunk => j <= i
              found == {both[i].chunk : i \in {k \in DOMAIN both : last(k) /\ may(both[k])}}
              ranks == q.s.enable_rerank /\ q.s.llm_enabled /\ q.answer \notin {Unavailable, <<>>}
              room == IF ranks THEN Max({1, Min({n, q.s.llm_top_k})}) ELSE n
          IN  /\ Cardinality(served) = Len(hits) /\ served \subseteq found /\ Len(hits) <= n
              /\ \A i \in DOMAIN hits : may(hits[i])
              /\ Cardinality(found) > 0 => Len(hits) > 0
              /\ q.words \cap Facts = {} => Len(hits) = Min({room, Cardinality(found)})
    IN  Answers("search", Good)

\* The context handed to a model takes each text once, exceeds the budget of
\* signs only when its first text alone does, and is empty only when there is
\* nothing to take, whoever chose its texts
\* (context_compressor.compress_evidence_context).
ContextFitsBudget ==
    LET Good(q) ==
          LET t == compress_evidence_context(q.c, q.texts, q.answer, q.order)
          IN  /\ Cardinality(ToSet(t.of)) = Len(t.of) /\ Len(t.of) <= q.c.max_items
              /\ t.signs <= q.c.max_chars \/ Len(t.of) = 1
              /\ t.of = <<>> <=> \A i \in DOMAIN q.texts : q.texts[i] = 0
    IN  Answers("compress", Good)

\* No assignment of people to roles, left empty anywhere or not, fills more
\* roles than the team that is picked, nor as many with a higher score; a bid
\* is matched when all its roles can be filled
\* (personnel_matcher._pick_best_team, match_personnel_team).
TeamIsBest ==
    LET Good(q) ==
          LET options == Options(q.pool, q.requirements)
              any == {t \in [DOMAIN options -> q.pool \cup {NoOne}] :
                        /\ \A i \in Filled(t) : t[i] \in options[i]
                        /\ \A i, j \in Filled(t) : i # j => t[i] # t[j]}
              roles == {i \in DOMAIN q.requirements : q.requirements[i].role # NoCode}
              answer == match_personnel_team(q.pool, q.requirements)
          IN  /\ answer.team \in any /\ \A t \in any : ~BetterTeam(t, answer.team)
              /\ answer.matched <=> \E t \in any : Filled(t) = roles
    IN  Answers("team", Good)

\* An ensemble drops no issue a reviewer that was asked raised, gives a status no
\* other status outvotes, and asks the next reviewer for every one that does not
\* answer
\* (llm_gateway.compliance_review_with_ensemble).
EnsembleKeepsIssues ==
    LET Good(q) ==
          LET answer == compliance_review_with_ensemble(q.chain, q.size)
              up == {i \in DOMAIN q.chain : q.chain[i].up}
              votes == {q.chain[i].vote : i \in Voters(q.chain, Max({1, Min({q.size, Len(q.chain)})}))}
              saying(s) == Cardinality({v \in votes : v.status = s})
          IN  up # {} =>
                /\ Cardinality(votes) = Min({Max({1, q.size}), Cardinality(up)})
                /\ \A v \in votes : v.issues \subseteq answer.issues
                /\ \A v \in votes : saying(v.status) <= saying(answer.status)
                /\ \E v \in votes : v.index = answer.winner
    IN  Answers("ensemble", Good)

\* Keeping one more contract never costs a profile points, though the score
\* that comes with it may be far below the one it is averaged with
\* (byok/profiles.qualify_provider_profile).
AnsweringNeverCosts ==
    LET Good(q) ==
          /\ ~q.review => quality_score([q EXCEPT !.estimate = 0])
                            <= quality_score([q EXCEPT !.review = TRUE])
          /\ ~q.compliance => quality_score([q EXCEPT !.report.cover = 0, !.report.status = "FAIL"])
                            <= quality_score([q EXCEPT !.compliance = TRUE])
    IN  Answers("profile", Good)

\* What an update of all the thresholds must be.
Accepted(t) ==
    /\ t.low_confidence \in 0..100 /\ t.strong_review_confidence \in 0..100
    /\ t.max_section_pages >= 1 /\ t.max_chunk_tokens >= 200
    /\ t.chunk_overlap_tokens \in 0..(t.max_chunk_tokens - 1)

\* The thresholds recommended for a library are thresholds an update accepts,
\* with an overlap below the chunk's size, when the present ones are.  The chunk
\* recommended is 4000 tokens at most and an update has no such limit: from an
\* overlap of 4000 on nothing is promised
\* (stats._build_threshold_recommendations).
RecommendationIsAccepted ==
    LET Good(q) ==
          LET stats == expert_quality_stats(q.chunks, q.runs, q.now.low_confidence)
          IN  Accepted(q.now) /\ q.now.chunk_overlap_tokens < 4000
              => Accepted(threshold_recommendations(q.now, stats))
    IN  Answers("library", Good)

\* The gate fails closed: what the first pages of a tender close, the pages that
\* follow do not open, nor does an asset that is missing or a query that fails; and
\* a clause that voids the bid closes it when no valid qualification is at hand
\* (pipeline.py's R0; fatal_gate.check_fatal_gate).
GateFailsClosed ==
    LET Good(q) ==
          LET passes(tender, assets) == fatal_gate(tender, assets).passed
              valid == {d \in q.assets.library : d.kind = "QUALIFICATION" /\ d.valid_to > q.assets.day}
          IN  /\ passes(q.tender, q.assets) =>
                    /\ \A n \in 0..Len(q.tender) : passes(SubSeq(q.tender, 1, n), q.assets)
                    /\ \A library \in {q.assets.library \cup {d} : d \in Papers} :
                         passes(q.tender, [q.assets EXCEPT !.library = library, !.answers = {"qualifications", "people"}])
              /\ (valid = {} \/ "qualifications" \notin q.assets.answers)
                    /\ (\E i \in DOMAIN q.tender : q.tender[i].text.size >= 8 /\ "voided" \in q.tender[i].text.words)
                  => ~passes(q.tender, q.assets)
    IN  Answers("gate", Good)

\* A sentence that may void the bid is not lost among its other points: the
\* analysis that the lists make lists it once as a compliance requirement, a
\* must, and the gate takes it as fatal; no point is listed twice
\* (tender_analysis.analyze_and_persist_tender_pdf, extract_preliminary).
VoidingClausesAreListed ==
    LET Good(q) ==
          LET points == analyze_tender(q.tender, q.answers).points
              voiding == {i \in DOMAIN q.tender : In(q.tender[i].text, "disqualify")}
              listed(i) == {x \in points : x.content = q.tender[i].text /\ x.category = "COMPLIANCE_REQUIREMENTS"}
          IN  /\ \A x, y \in points : x # y => <<x.category, x.content>> # <<y.category, y.content>>
              /\ \A i \in voiding : q.tender[i].text.size >= 8 =>
                    \E item \in extract_preliminary(q.tender) : item.at = i /\ item.fatal_if_unmet
              /\ (\A i \in DOMAIN q.answers : q.answers[i] = <<>>) =>
                    \A i \in voiding : Cardinality(listed(i)) = 1 /\ \A x \in listed(i) : x.is_must
    IN  Answers("analysis", Good)
=============================================================================
