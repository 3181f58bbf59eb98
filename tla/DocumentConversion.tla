------------------------- MODULE DocumentConversion -------------------------
(***************************************************************************)
(* From an uploaded text to the chunks of the expert library, as functions *)
(* (expert_library, expert_enterprise_pipeline, expert_chunking).  A word  *)
(* stands for one token and is named for the topic it speaks of.  A block  *)
(* is [type, anchor, page, words, rows]: a text has words, a table rows of *)
(* cells, one token each, and one without is empty.  Confidences are in    *)
(* percent.                                                                *)
(***************************************************************************)
EXTENDS Integers, FiniteSets, Sequences, SequencesExt, FiniteSetsExt

CONSTANTS Short,       \* words below which a section is called short of information
          TableMax     \* settings.table_chunk_max_tokens

Blocks == [type : {"text", "table"}, anchor : STRING, page : Nat,
           words : Seq(STRING), rows : Seq(Seq(STRING))]

\* The items that are in a set, in their order.
Kept(items, keep) ==
    LET kept[k \in 0..Len(items)] ==
          IF k = 0 THEN <<>>
          ELSE IF items[k] \in keep THEN Append(kept[k - 1], items[k]) ELSE kept[k - 1]
    IN  kept[Len(items)]

BlocksOf(section, type) == Kept(section.blocks, {b \in ToSet(section.blocks) : b.type = type})

----------------------------------------------------------------------------
(* expert_library: a plain or markdown text is cut at empty lines; a       *)
(* heading or a numbered first line names what follows it.                 *)
build_text_blocks(paragraphs, default, markdown) ==
    LET headings(i) == {j \in 1..i : paragraphs[j].heading # ""}
    IN  [i \in DOMAIN paragraphs |->
            [type   |-> IF markdown /\ paragraphs[i].rows # <<>> THEN "table" ELSE "text",
             anchor |-> IF headings(i) = {} THEN default ELSE paragraphs[Max(headings(i))].heading,
             page   |-> 1, words |-> paragraphs[i].words, rows |-> paragraphs[i].rows]]

----------------------------------------------------------------------------
(* The structure: a section is a run of blocks with one anchor; an empty   *)
(* document gets a section that says so.                                   *)
safe_rows(rows) == Kept(rows, {row \in ToSet(rows) : \E i \in DOMAIN row : row[i] # ""})

Placeholder == [title |-> "unrecognised", first |-> 1, last |-> 1,
                blocks |-> <<[type |-> "text", anchor |-> "unrecognised", page |-> 1,
                              words |-> <<"empty">>, rows |-> <<>>]>>]

Grow(sections, block) ==
    IF sections = <<>> \/ Last(sections).title # block.anchor
    THEN Append(sections, [title |-> block.anchor, first |-> block.page, last |-> block.page,
                           blocks |-> <<block>>])
    ELSE LET s == Last(sections)
         IN  Append(Front(sections), [s EXCEPT !.last = Max({@, block.page}),
                                               !.blocks = Append(@, block)])

Filled(blocks) == Kept(blocks, {b \in ToSet(blocks) : b.words # <<>> \/ b.rows # <<>>})

build_structure_v1_from_blocks(blocks) ==
    LET filled == Filled(blocks)
        sections[k \in 0..Len(filled)] == IF k = 0 THEN <<>> ELSE Grow(sections[k - 1], filled[k])
    IN  IF filled = <<>> THEN <<Placeholder>> ELSE sections[Len(filled)]

\* A block's number counts the blocks of its type in its section.
BlockId(s, section, b) ==
    <<s, section.blocks[b].type,
      Cardinality({i \in 1..b : section.blocks[i].type = section.blocks[b].type})>>

build_conversion_layout_rows(sections) ==
    UNION {{[block |-> BlockId(s, sections[s], b), page |-> sections[s].blocks[b].page,
             anchor |-> sections[s].title] : b \in DOMAIN sections[s].blocks} : s \in DOMAIN sections}

----------------------------------------------------------------------------
(* What the sections are about.  The first kind a section speaks of wins.  *)
section_text(section) ==
    FlattenSeq([b \in DOMAIN section.blocks |->
        IF section.blocks[b].type = "table" THEN FlattenSeq(section.blocks[b].rows)
        ELSE section.blocks[b].words])

First(kinds, words, default) ==
    LET spoken == {i \in DOMAIN kinds : kinds[i] \in words}
    IN  IF spoken = {} THEN default ELSE kinds[Min(spoken)]

section_type(words) ==
    First(<<"price", "schedule", "safety", "quality", "method", "licence", "record", "contract",
            "business", "technical">>, words, "other")

table_type(words) ==
    First(<<"person", "equipment", "record", "schedule", "parameter", "price", "rules">>, words, "other")

contains_score(words) == "score" \in words

contains_compliance(words) == words \cap {"must", "reject", "forced"} # {}

risk_level(words) ==
    CASE words \cap {"reject", "forced"} # {} -> "high"
      [] "must" \in words /\ words \cap {"reject", "forced"} = {} -> "medium"
      [] OTHER -> IF contains_score(words) THEN "low" ELSE "none"

reusability(words) ==
    CASE "thisproject" \in words -> "low"
      [] "thisproject" \notin words /\ section_type(words) \in {"safety", "quality", "method", "technical"}
           -> "high"
      [] OTHER -> "medium"

summarize_tables(section) ==
    {[type |-> table_type(ToSet(FlattenSeq(safe_rows(section.blocks[b].rows)))),
      rows |-> Max({Len(safe_rows(section.blocks[b].rows)) - 1, 0})] :
        b \in {x \in DOMAIN section.blocks : section.blocks[x].type = "table"}}

enrich_section(section) ==
    LET text  == section_text(section)
        words == ToSet(text) \cup {section.title} \cup {t.type : t \in summarize_tables(section)}
    IN  [type |-> section_type(words), score |-> contains_score(words),
         compliance |-> contains_compliance(words), risk |-> risk_level(words),
         reusability |-> reusability(words),
         confidence |-> IF Len(text) < Short THEN 50 ELSE 85]

\* Sentences that score, bind or reject are quoted, three at most; a section of
\* high risk without one is quoted from its beginning.
evidence_quotes(section, risk) ==
    LET marked == Kept(section_text(section), {"score", "must", "reject", "contract"})
    IN  IF marked = <<>> /\ risk = "high" THEN SubSeq(section_text(section), 1, 1)
        ELSE SubSeq(marked, 1, Min({3, Len(marked)}))

risk_review_sections(sections, strong) ==
    LET meta(s) == enrich_section(sections[s])
        asked(s) == \/ meta(s).compliance \/ meta(s).risk = "high"
                    \/ meta(s).score /\ meta(s).confidence < strong
        quotes(s) == evidence_quotes(sections[s], meta(s).risk)
    IN  [s \in {x \in DOMAIN sections : asked(x)} |->
            [quotes |-> quotes(s), critical |-> meta(s).score,
             confidence |-> Max({0, Min({100, meta(s).confidence
                                             + (IF quotes(s) = <<>> THEN -20 ELSE 8)})})]]

build_exceptions_queue(sections, low, max_pages) ==
    LET issues(s) ==
          (IF enrich_section(sections[s]).confidence < low THEN {"LOW_CONFIDENCE"} ELSE {})
          \cup (IF sections[s].last - sections[s].first + 1 > max_pages THEN {"SECTION_TOO_LONG"} ELSE {})
          \cup {<<"TABLE_EMPTY", BlockId(s, sections[s], b)>> :
                  b \in {x \in DOMAIN sections[s].blocks :
                           sections[s].blocks[x].type = "table" /\ safe_rows(sections[s].blocks[x].rows) = <<>>}}
    IN  UNION {{<<s, i>> : i \in issues(s)} : s \in DOMAIN sections}

----------------------------------------------------------------------------
(* Chunks.  A table is rendered as wide as its header: longer rows lose    *)
(* their end, shorter ones are filled up.                                  *)
table_to_markdown(rows) ==
    LET safe  == safe_rows(rows)
        width == Len(safe[1])
        row(r) == [i \in 1..width |-> IF i <= Len(r) THEN r[i] ELSE ""]
    IN  IF safe = <<>> THEN <<<<"empty">>, <<"">>>>
        ELSE [i \in 1..Max({2, Len(safe)}) |-> IF i <= Len(safe) THEN row(safe[i]) ELSE row(<<>>)]

estimate_text_tokens(words) == Cardinality({i \in DOMAIN words : words[i] # ""})

to_token_slices(words, max, overlap) ==
    LET step == max - overlap
    IN  [i \in 1..((Len(words) + step - 1) \div step) |->
            SubSeq(words, (i - 1) * step + 1, Min({Len(words), (i - 1) * step + max}))]

FlushMutant(s, least) == IF Len(s.buffer) >= least THEN [chunks |-> Append(s.chunks, s.buffer), buffer |-> <<>>]
                         ELSE s

\* The buffer becomes a chunk, unless it is empty.
Flush(s, least) == IF s.buffer = <<>> THEN s
                   ELSE [chunks |-> Append(s.chunks, s.buffer), buffer |-> <<>>]

\* A text over the budget is sliced; the others are gathered until there are
\* enough of them, or the next would exceed the budget.
AddText(s, words, min, max, overlap) ==
    LET flushed == Flush(s, min)
        room == IF Len(s.buffer) + Len(words) > max THEN flushed ELSE s
        with == [room EXCEPT !.buffer = @ \o words]
    IN  IF Len(words) > max THEN [flushed EXCEPT !.chunks = @ \o to_token_slices(words, max, overlap)]
        ELSE IF Len(with.buffer) >= min THEN Flush(with, min) ELSE with

split_text_blocks(texts, min, max, overlap) ==
    LET done[k \in 0..Len(texts)] ==
          IF k = 0 THEN [chunks |-> <<>>, buffer |-> <<>>]
          ELSE AddText(done[k - 1], texts[k], min, max, overlap)
    IN  Flush(done[Len(texts)], min).chunks

\* A long table is split by rows, each part under the header; a row is never cut.
AddRow(s, row, budget) ==
    IF s.rows # <<>> /\ estimate_text_tokens(FlattenSeq(s.rows)) + estimate_text_tokens(row) > budget
    THEN [parts |-> Append(s.parts, s.rows), rows |-> <<row>>]
    ELSE [s EXCEPT !.rows = Append(@, row)]

RowBudget(table, max) == Max({1, max - estimate_text_tokens(table[1])})

split_table_with_header(table, max) ==
    LET done[k \in 1..Len(table)] ==
          IF k = 1 THEN [parts |-> <<>>, rows |-> <<>>]
          ELSE AddRow(done[k - 1], table[k], RowBudget(table, max))
        last  == done[Len(table)]
        parts == IF last.rows = <<>> THEN last.parts ELSE Append(last.parts, last.rows)
    IN  [i \in DOMAIN parts |-> <<table[1]>> \o parts[i]]

table_fragments(table) ==
    IF estimate_text_tokens(FlattenSeq(table)) <= TableMax THEN <<table>>
    ELSE split_table_with_header(table, TableMax)

\* What chunk_sections_for_rag refuses with a ValueError.
ChunkBudgetOk(min, max, overlap) == 0 < min /\ min <= max /\ 0 <= overlap /\ overlap < max

WordsOf(blocks) == [i \in DOMAIN blocks |-> blocks[i].words]

chunk_section(section, min, max, overlap) ==
    LET tables == BlocksOf(section, "table")
    IN  [text |-> split_text_blocks(WordsOf(BlocksOf(section, "text")), min, max, overlap),
         table |-> [i \in DOMAIN tables |-> table_fragments(table_to_markdown(tables[i].rows))],
         quality |-> enrich_section(section).confidence]

chunk_sections_for_rag(sections, min, max, overlap) ==
    [s \in DOMAIN sections |-> chunk_section(sections[s], min, max, overlap)]

\* Blocks as they are, without the short ones, when no section yields a chunk.
fallback_chunks_from_blocks(blocks) == Kept(blocks, {b \in ToSet(blocks) : Len(b.words) >= Short})

----------------------------------------------------------------------------
(* What a conversion promises of the document.                             *)
BlocksIn(structure) == FlattenSeq([i \in DOMAIN structure |-> structure[i].blocks])

\* The sections hold the blocks that are not empty, and no others; an empty
\* document has the section that says so.
HoldsBlocks(structure, blocks) ==
    IF Filled(blocks) = <<>> THEN structure = <<Placeholder>> ELSE BlocksIn(structure) = Filled(blocks)

HoldsText(section, chunks, max, overlap) ==
    LET words == FlattenSeq(WordsOf(BlocksOf(section, "text")))
    IN  /\ \A i \in DOMAIN chunks.text : Len(chunks.text[i]) \in 1..max
        /\ ToSet(FlattenSeq(chunks.text)) = ToSet(words)
        /\ overlap = 0 => FlattenSeq(chunks.text) = words

\* The parts stand under the uploaded header and are over the budget only when
\* they are one row; together they have the uploaded rows, in their order, with
\* every cell that has a header above it.  A cell past the header's last column
\* is in no part: the rendering cuts it off without an exception in the queue.
HoldsTable(rows, fragments) ==
    LET safe  == safe_rows(rows)
        parts == [f \in DOMAIN fragments |-> Tail(fragments[f])]
        body  == FlattenSeq(parts)
    IN  safe # <<>> =>
          /\ \A f \in DOMAIN fragments :
               /\ fragments[f][1] = safe[1]
               /\ Len(parts[f]) > 1 => estimate_text_tokens(FlattenSeq(parts[f])) <= RowBudget(safe, TableMax)
          /\ Len(body) = Max({1, Len(safe) - 1})
          /\ \A i \in 2..Len(safe) : \A c \in DOMAIN safe[i] \cap DOMAIN safe[1] : body[i - 1][c] = safe[i][c]

HoldsTables(section, chunks) ==
    LET tables == BlocksOf(section, "table")
    IN  \A t \in DOMAIN tables : HoldsTable(tables[t].rows, chunks.table[t])
============================================================================
