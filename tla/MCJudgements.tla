---------------------------- MODULE MCJudgements ----------------------------
(* Questions small enough to ask all of: points of three chunks, one of them *)
(* with two points, that the two searches rank in any order, three people   *)
(* for two roles, three reviewers, libraries of up to eight chunks around   *)
(* the limits of the thresholds, and tenders of up to three sentences.      *)
EXTENDS Judgements

Lists(S, n) == UNION {{l \in [1..k -> S] : \A i, j \in 1..k : i # j => l[i] # l[j]} : k \in 0..n}

MCHits == {[chunk |-> "a", words |-> {"w"}, context |-> {}, allowed |-> TRUE, quality |-> 40],
           [chunk |-> "b", words |-> {"w", "kv"}, context |-> {}, allowed |-> TRUE, quality |-> 90],
           [chunk |-> "c", words |-> {"v"}, context |-> {"kv"}, allowed |-> TRUE, quality |-> 60],
           [chunk |-> "a", words |-> {"v"}, context |-> {}, allowed |-> FALSE, quality |-> 90]}

\* A reranker's answer is asked for only where its reranker is on.
MCRerankers ==
    {[rerank |-> FALSE, llm |-> FALSE, k |-> 1, answer |-> Unavailable, model |-> Unavailable]}
    \cup {[rerank |-> TRUE, llm |-> FALSE, k |-> 1, answer |-> Unavailable, model |-> m] :
             m \in {Unavailable, <<"b", "c">>}}
    \cup {[rerank |-> TRUE, llm |-> TRUE, k |-> k, answer |-> a, model |-> Unavailable] :
             k \in {1, 2}, a \in {Unavailable, <<>>, <<"made up">>, <<"b", "b">>, <<"c", "a">>}}

MCSearches ==
    {[s |-> [topn_min |-> 1, topn_max |-> 2, topk_min |-> 3, hybrid |-> 3, topk_max |-> 6, rerank |-> 2,
             rrf_k |-> 1, sparse |-> sparse # <<>>, enable_rerank |-> x.rerank, llm_enabled |-> x.llm,
             llm_candidates |-> 2, llm_top_k |-> x.k, cross_encoder |-> ~x.llm],
      top_k |-> k, words |-> w, vector |-> vector, sparse |-> sparse, answer |-> x.answer, model |-> x.model] :
        x \in MCRerankers, k \in {1, 3}, w \in {{"w"}, {"w", "kv"}},
        vector \in Lists(MCHits, 3), sparse \in Lists(MCHits, 2)}

MCCompressions ==
    {[c |-> c, texts |-> t, answer |-> a, order |-> o] :
        c \in {[use_llm |-> u, max_items |-> 2, max_chars |-> 4, snippet_chars |-> n] : u \in BOOLEAN, n \in {3, 5}},
        t \in [1..3 -> {0, 2, 3, 7}], a \in {Unavailable, <<>>, <<9, 2, 2>>, <<3, 1, 2>>},
        o \in {f \in [1..3 -> 1..3] : \A i, j \in 1..3 : i # j => f[i] # f[j]}}

MCPerson(id, roles, months, active, score) ==
    [id |-> id, asset_type |-> "person", roles |-> roles, months |-> months, active |-> active, score |-> score]

MCPools ==
    {{MCPerson(1, r1, 6, 0, 1), MCPerson(2, r2, 12, 1, 2), MCPerson(3, r3, 3, 0, 4)} :
        r1 \in SUBSET {"lead", "safety"}, r2 \in SUBSET {"lead", "safety"}, r3 \in SUBSET {"lead", "safety"}}

MCTeams ==
    {[pool |-> p, requirements |-> r] : p \in MCPools,
        r \in Lists({[role |-> "lead", idle |-> FALSE, months |-> 0], [role |-> "lead", idle |-> TRUE, months |-> 0],
                     [role |-> "safety", idle |-> FALSE, months |-> 6], [role |-> NoCode, idle |-> FALSE, months |-> 0]}, 3)}

MCEnsembles ==
    {[size |-> n, chain |-> [i \in 1..3 |->
        [up |-> u[i], vote |-> [index |-> i, status |-> s[i], cover |-> c[i], missing |-> {}, risks |-> {},
                                issues |-> IF c[i] = 50 THEN {i} ELSE {}]]]] :
        n \in 0..4, u \in [1..3 -> BOOLEAN], s \in [1..3 -> {"PASS", "WARN", "FAIL"}], c \in [1..3 -> {50, 90}]}

MCProfiles ==
    {[credential |-> x[1], base_url |-> x[2], probe |-> x[3], generation |-> x[4], review |-> x[5], compliance |-> x[6],
      estimate |-> e, report |-> [status |-> s, cover |-> c, issues |-> {}, missing |-> {}, risks |-> {}]] :
        x \in [1..6 -> BOOLEAN], e \in {0, 1, 50, 100}, c \in {0, 1, 50, 100}, s \in {"FAIL", "PASS"}}

MCLibraries ==
    {[now |-> [low_confidence |-> l, strong_review_confidence |-> r, max_section_pages |-> p,
               max_chunk_tokens |-> m[1], chunk_overlap_tokens |-> m[2]],
      chunks |-> {[id |-> i, quality |-> IF i <= low THEN 30 ELSE q, pricing |-> FALSE] : i \in 1..size},
      runs |-> {[id |-> 1, step |-> f, signals |-> [schema |-> TRUE, fallback |-> FALSE, manual |-> FALSE,
                                                    fields |-> Unset, filled |-> {}, evidence |-> 10000]]}] :
        l \in {0, 60, 100}, r \in {0, 100}, p \in {1, 20},
        m \in {<<200, 0>>, <<200, 199>>, <<1000, 990>>, <<1200, 120>>, <<4000, 3999>>,
             <<5000, 3999>>, <<400, 500>>},
        low \in 0..2, size \in {2, 8}, q \in {70, 95}, f \in {"KB_READY", "FAILED"}}

MCText(words, size, roles, cert, score, terms) ==
    [words |-> words, size |-> size, roles |-> roles, cert |-> cert, score |-> score, terms |-> terms]

MCTexts ==
    {MCText({"bidderShall", "voided"}, 20, {}, FALSE, 0, {3}),
     MCText({"ineligible", "must"}, 7, {}, FALSE, 0, {}),
     MCText({"refused", "licence"}, 12, {}, FALSE, 0, {6, 9}),
     MCText({"examination", "docked", "score"}, 12, {}, FALSE, 40, {1}),
     MCText({}, 12, {"lead", "safety"}, FALSE, 0, {}),
     MCText({"must", "demand"}, 12, {"lead"}, TRUE, 0, {8}),
     MCText({"preferred", "format"}, 9, {}, FALSE, 0, {}),
     MCText({"technical", "shall", "substation"}, 12, {}, FALSE, 5, {})}

MCTenders == {[i \in DOMAIN t |-> [page |-> (i + 1) \div 2, text |-> t[i]]] : t \in SeqOf(MCTexts, 3)}

MCPapers == {[kind |-> "QUALIFICATION", valid_to |-> 9], [kind |-> "QUALIFICATION", valid_to |-> 5],
             [kind |-> "PERSONNEL", valid_to |-> 9]}

MCGates == {[tender |-> t, assets |-> [library |-> l, day |-> 5, answers |-> a]] :
               t \in MCTenders, l \in SUBSET MCPapers, a \in SUBSET {"qualifications", "people"}}

\* A model that extracts nothing, one that repeats a sentence, one that is not asked.
MCExtraction(text, must, score) ==
    [page |-> 1, text |-> text, must |-> must, score |-> score, format |-> FALSE]

MCAnalyses ==
    {[tender |-> t, answers |-> a] : t \in MCTenders,
        a \in {<<>>, <<<<>>, <<>>>>}
              \cup {<<<<>>, <<MCExtraction(x, m, 0), MCExtraction(x, "unsaid", 12)>>>> :
                       x \in MCTexts, m \in {"yes", "no"}}}
=============================================================================
