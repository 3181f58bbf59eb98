------------------------------ MODULE Retrieval ------------------------------
(***************************************************************************)
(* The search of qdrant_store and context_compressor, as functions.  A     *)
(* hit is [chunk, words, context, allowed, quality]: its chunk's id, what  *)
(* its text and its parent's speak of, whether its payload may be served,  *)
(* and its quality in percent.  The two searches of the store rank the     *)
(* points that match the request's filter; a word of Facts is a number or  *)
(* a model designation.  Scores are whole multiples of 1 / Unit.           *)
(***************************************************************************)
EXTENDS Integers, FiniteSets, Sequences, SequencesExt, FiniteSetsExt

CONSTANTS Facts, Unit,
          Unavailable           \* a reranker that fails, or is not configured

----------------------------------------------------------------------------
\* How many hits a request gets, how many the store is asked for, and how many
\* are fused before they are ranked again.
prompt_top_n(s, top_k) == Max({s.topn_min, Min({top_k, s.topn_max})})

candidate_limit(s, n) == Max({s.topk_min, Min({Max({5 * n, s.hybrid}), s.topk_max})})

rerank_candidate_limit(s, n) ==
    Max({candidate_limit(s, n), s.rerank} \cup (IF s.llm_enabled THEN {s.llm_candidates} ELSE {}))

vector_search(hits, s, n) == SubSeq(hits, 1, Min({Len(hits), Max({candidate_limit(s, n), 8})}))

sparse_search(hits, s, n) ==
    IF s.sparse THEN SubSeq(hits, 1, Min({Len(hits), Max({candidate_limit(s, n), s.hybrid})})) ELSE <<>>

----------------------------------------------------------------------------
\* The members of a set, those before others first, and the items at some
\* positions of a sequence, in their order.
InOrder(S, before) ==
    [k \in 1..Cardinality(S) |-> CHOOSE x \in S : Cardinality({y \in S : <<y, x>> \in before}) = k - 1]

ItemsAt(items, positions) ==
    LET order == InOrder(positions, {p \in positions \X positions : p[1] < p[2]})
    IN  [k \in DOMAIN order |-> items[order[k]]]

\* Reciprocal ranks are added per chunk id; of two points with one id the last
\* counts.  What may not be served, or has no text, is left out before the cut.
RankOf(hits, chunk) ==
    LET at == {i \in DOMAIN hits : hits[i].chunk = chunk}
    IN  IF at = {} THEN 0 ELSE Max(at)

fusion_score(s, vector, sparse, chunk) ==
    LET part(rank) == IF rank = 0 THEN 0 ELSE Unit \div (Max({1, s.rrf_k}) + rank)
    IN  part(RankOf(vector, chunk)) + part(RankOf(sparse, chunk))

WithScore(hit, score) == [f \in DOMAIN hit \cup {"score"} |-> IF f = "score" THEN score ELSE hit[f]]

FirstSeen(hits, chunk) == Min({i \in DOMAIN hits : hits[i].chunk = chunk})

fuse_hybrid(s, vector, sparse, top_k) ==
    LET both == vector \o sparse
        chunks == {both[i].chunk : i \in DOMAIN both}
        payload(c) == IF RankOf(sparse, c) # 0 THEN sparse[RankOf(sparse, c)] ELSE vector[RankOf(vector, c)]
        score(c) == fusion_score(s, vector, sparse, c)
        before == {p \in chunks \X chunks :
                     \/ score(p[1]) > score(p[2])
                     \/ score(p[1]) = score(p[2]) /\ FirstSeen(both, p[1]) < FirstSeen(both, p[2])}
        order == InOrder({c \in chunks : payload(c).allowed /\ payload(c).words # {}}, before)
    IN  [i \in 1..Min({Len(order), top_k}) |-> WithScore(payload(order[i]), score(order[i]))]

----------------------------------------------------------------------------
\* The hits in the order of their scores, ties as they were; the first top_k.
ByScore(items, score, top_k) ==
    LET before == {p \in (DOMAIN items) \X (DOMAIN items) :
                     score[p[1]] > score[p[2]] \/ (score[p[1]] = score[p[2]] /\ p[1] < p[2])}
        order == InOrder(DOMAIN items, before)
    IN  [i \in 1..Min({Len(items), top_k}) |-> items[order[i]]]

\* 0.55 of the score, 0.40 of the query's words the text has, 0.05 of its quality.
rerank_hits(query, items, top_k) ==
    LET score == [i \in DOMAIN items |->
                    5500 * Cardinality(query) * items[i].score
                    + 4000 * Unit * Cardinality(query \cap items[i].words)
                    + 5 * Unit * Cardinality(query) * Max({0, Min({100, items[i].quality})})]
    IN  IF query = {} THEN SubSeq(items, 1, Min({Len(items), top_k})) ELSE ByScore(items, score, top_k)

\* model: the order of relevance the cross encoder gives, or Unavailable.
cross_encoder_rerank_hits(s, query, items, model, top_k) ==
    LET score == [i \in DOMAIN items |-> 0 - Cardinality({k \in DOMAIN model : \A j \in 1..k : model[j] # items[i].chunk})]
    IN  IF s.cross_encoder /\ model # Unavailable THEN ByScore(items, score, top_k)
        ELSE rerank_hits(query, items, top_k)

rankedMutant(answer, candidates) == SelectSeq(answer, LAMBDA c : c \in candidates)

\* The ids of an answer that are candidates' ids, each once.
ranked(answer, candidates) ==
    LET done[k \in 0..Len(answer)] ==
          IF k = 0 THEN <<>>
          ELSE IF answer[k] \in candidates \ ToSet(done[k - 1]) THEN Append(done[k - 1], answer[k]) ELSE done[k - 1]
    IN  done[Len(answer)]

\* What the answer leaves out follows in the order it had.
llm_rerank_hits(s, items, answer, top_k) ==
    LET candidates == SubSeq(items, 1, Min({Len(items), Max({top_k, s.llm_candidates})}))
        first == ranked(answer, {candidates[i].chunk : i \in DOMAIN candidates})
        rest  == ItemsAt(candidates, {i \in DOMAIN candidates : candidates[i].chunk \notin ToSet(first)})
        all   == [i \in DOMAIN first |-> candidates[RankOf(candidates, first[i])]] \o rest
    IN  SubSeq(all, 1, Min({Len(all), top_k}))

\* An answer without ids is an error, and any error leaves the local rerank.
rerank_hits_with_optional_llm(s, query, items, answer, model, top_k) ==
    IF s.llm_enabled /\ answer \notin {Unavailable, <<>>}
    THEN llm_rerank_hits(s, items, answer, Max({1, Min({top_k, s.llm_top_k})}))
    ELSE cross_encoder_rerank_hits(s, query, items, model, top_k)

\* Hits without a fact of the query are dropped, unless all are.
apply_key_fact_filter(query, items) ==
    LET stating == ItemsAt(items, {i \in DOMAIN items : query \cap Facts \cap (items[i].words \cup items[i].context) # {}})
    IN  IF query \cap Facts = {} \/ stating = <<>> THEN items ELSE stating

search(s, q) ==
    LET n      == prompt_top_n(s, q.top_k)
        fused(k) == fuse_hybrid(s, vector_search(q.vector, s, n), sparse_search(q.sparse, s, n), k)
        hits   == IF s.enable_rerank
                  THEN rerank_hits_with_optional_llm(s, q.words, fused(rerank_candidate_limit(s, n)),
                                                     q.answer, q.model, n)
                  ELSE fused(n)
    IN  apply_key_fact_filter(q.words, hits)

----------------------------------------------------------------------------
(* context_compressor: snippets are taken in an order, the relevance the   *)
(* texts have or the model's choice, while they fit.  A text is a number   *)
(* of signs.                                                               *)
FitsMutant(c, taken, snippet) ==
    Len(taken.of) < c.max_items /\ taken.signs < c.max_chars /\ snippet # 0

\* The first snippet is taken whatever its length.
Fits(c, taken, snippet) ==
    /\ Len(taken.of) < c.max_items /\ taken.signs < c.max_chars /\ snippet # 0
    /\ taken.of = <<>> \/ taken.signs + snippet <= c.max_chars

\* What is taken after one more text, and after all of them.
Take(c, taken, i, text) ==
    LET snippet == Min({text, c.snippet_chars})
    IN  IF Fits(c, taken, snippet) THEN [of |-> Append(taken.of, i), signs |-> taken.signs + snippet] ELSE taken

select(c, texts, order) ==
    LET taken[k \in 0..Len(order)] ==
          IF k = 0 THEN [of |-> <<>>, signs |-> 0] ELSE Take(c, taken[k - 1], order[k], texts[order[k]])
    IN  taken[Len(order)]

\* The model's ids that are the evidence's, each once; an answer that selects
\* nothing leaves the choice to the local order.
compress_evidence_context(c, texts, answer, order) ==
    LET chosen == select(c, texts, IF answer = Unavailable THEN <<>> ELSE ranked(answer, DOMAIN texts))
    IN  IF c.use_llm /\ chosen.of # <<>> THEN chosen ELSE select(c, texts, order)
==============================================================================
