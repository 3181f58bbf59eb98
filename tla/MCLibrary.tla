------------------------------ MODULE MCLibrary ------------------------------
(* Two requests, one session, three documents: texts over, under and across  *)
(* the budget, a table that is split, nothing.                                  *)
EXTENDS ExpertLibrary

Text(anchor, page, words) == [type |-> "text", anchor |-> anchor, page |-> page, words |-> words, rows |-> <<>>]
Table(anchor, rows) == [type |-> "table", anchor |-> anchor, page |-> 2, words |-> <<>>, rows |-> rows]

MCDocuments ==
    {[pricing |-> FALSE,
      blocks |-> <<Text("method", 1, <<"a">>), Text("method", 1, <<"b", "must", "c", "d", "e", "f", "g">>),
                   Text("method", 3, <<"h">>),
                   Table("method", <<<<"equipment", "x">>, <<"p", "q">>, <<"", "">>, <<"r">>, <<"s", "t", "lost">>>>)>>],
     [pricing |-> TRUE,
      blocks |-> <<Text("contract", 1, <<>>), Text("contract", 1, <<"a", "b">>), Text("contract", 2, <<"c", "d">>),
                   Text("price", 2, <<"forced">>), Text("contract", 2, <<"e", "score">>)>>],
     [pricing |-> FALSE, blocks |-> build_text_blocks(<<[heading |-> "", words |-> <<>>, rows |-> <<>>]>>, "page", TRUE)]}

MCBase == [low_confidence |-> 60, strong_review_confidence |-> 75, max_section_pages |-> 2,
           max_chunk_tokens |-> 3, chunk_overlap_tokens |-> 1]

\* Legal each, but not together: a budget of 1 is below the smallest chunk.
MCUpdates == {[max_chunk_tokens |-> 1], [max_chunk_tokens |-> 4, chunk_overlap_tokens |-> 0],
              [chunk_overlap_tokens |-> 3], [low_confidence |-> 90, max_section_pages |-> 1],
              [max_chunk_tokens |-> 2, chunk_overlap_tokens |-> 2]}

Symmetry == Permutations(Clients)
=============================================================================
