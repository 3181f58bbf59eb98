-------------------------- MODULE LibraryStatistics --------------------------
(***************************************************************************)
(* What the statistics endpoints compute from the expert library, as       *)
(* functions, and the thresholds they recommend for it.  A chunk has an    *)
(* id, a quality and whether it speaks of prices, an ingest run its step   *)
(* and its quality signals.  Confidences and qualities are in percent,     *)
(* rates and averages in hundredths of a percent.                          *)
(***************************************************************************)
EXTENDS Integers, FiniteSets, FiniteSetsExt

CONSTANT Unset                  \* a signal a run does not carry

Rounded(a, b) ==
    LET q == a \div b  twice == 2 * (a % b)
    IN  IF twice > b \/ (twice = b /\ q % 2 = 1) THEN q + 1 ELSE q

Rate(part, whole) == IF whole = 0 THEN 0 ELSE Rounded(10000 * part, whole)

Clamped(x, low, high) == Max({low, Min({high, x})})

----------------------------------------------------------------------------
quality_signal_metrics(signals) ==
    [schema |-> signals.schema, fallback |-> signals.fallback, manual |-> signals.manual,
     fields |-> IF signals.fields # Unset THEN Clamped(signals.fields, 0, 10000)
                ELSE 2500 * Cardinality(signals.filled \cap {"voltage", "type", "region", "equipment"}),
     evidence |-> Clamped(signals.evidence, 0, 10000)]

expert_quality_stats(chunks, runs, low_confidence) ==
    LET low == {c \in chunks : c.quality < low_confidence}
        metrics(r) == quality_signal_metrics(r.signals)
        share(p(_)) == Rate(Cardinality({r \in runs : p(metrics(r))}), Cardinality(runs))
    IN  [chunk_count |-> Cardinality(chunks),
         avg_quality |-> Rate(MapThenSumSet(LAMBDA c : c.quality, chunks), 100 * Cardinality(chunks)),
         low_quality_rate |-> Rate(Cardinality(low), Cardinality(chunks)),
         pricing_related |-> Cardinality({c \in chunks : c.pricing}),
         kb_ready_count |-> Cardinality({r \in runs : r.step = "KB_READY"}),
         kb_failed_count |-> Cardinality({r \in runs : r.step = "FAILED"}),
         schema_pass_rate |-> share(LAMBDA x : x.schema),
         fallback_trigger_rate |-> share(LAMBDA x : x.fallback),
         manual_review_rate |-> share(LAMBDA x : x.manual),
         fields_rate |-> MapThenSumSet(LAMBDA r : metrics(r).fields, runs) \div Max({1, Cardinality(runs)}),
         evidence_rate |-> MapThenSumSet(LAMBDA r : metrics(r).evidence, runs) \div Max({1, Cardinality(runs)})]

----------------------------------------------------------------------------
(* What to change the thresholds to, from what the library's quality is.   *)
suggested_low_confidence(t, s) ==
    CASE s.low_quality_rate >= 1500 -> Clamped(t.low_confidence + 5, 40, 90)
      [] s.low_quality_rate <= 500 /\ s.kb_failed_count = 0 -> Clamped(t.low_confidence - 3, 40, 90)
      [] OTHER -> t.low_confidence

suggested_strong_review(t, s) ==
    CASE s.kb_failed_count > 0 \/ s.low_quality_rate >= 1200 -> Clamped(t.strong_review_confidence + 3, 60, 95)
      [] s.low_quality_rate <= 500 /\ s.kb_failed_count = 0 -> Clamped(t.strong_review_confidence - 2, 60, 95)
      [] OTHER -> t.strong_review_confidence

suggested_max_tokens(t, s) ==
    CASE s.avg_quality < 8000 /\ s.low_quality_rate >= 1000 -> Max({400, Rounded(9 * t.max_chunk_tokens, 10)})
      [] s.avg_quality >= 9000 /\ s.low_quality_rate <= 300 -> Min({4000, Rounded(11 * t.max_chunk_tokens, 10)})
      [] OTHER -> t.max_chunk_tokens

suggested_overlapMutant(t, s) ==
    IF s.low_quality_rate >= 1000 THEN t.chunk_overlap_tokens + 20 ELSE t.chunk_overlap_tokens

\* More overlap for a poor library, but no more than half of the suggested chunk.
suggested_overlap(t, s) ==
    IF s.low_quality_rate >= 1000
    THEN Min({Rounded(suggested_max_tokens(t, s), 2), t.chunk_overlap_tokens + 20})
    ELSE t.chunk_overlap_tokens

threshold_recommendations(t, s) ==
    [low_confidence |-> suggested_low_confidence(t, s),
     strong_review_confidence |-> suggested_strong_review(t, s),
     max_section_pages |-> IF s.kb_failed_count > 0 THEN Max({8, t.max_section_pages - 2})
                           ELSE t.max_section_pages,
     max_chunk_tokens |-> suggested_max_tokens(t, s),
     chunk_overlap_tokens |-> suggested_overlap(t, s)]
==============================================================================
