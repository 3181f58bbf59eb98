------------------------------ MODULE MCReview ------------------------------
(* BidReview with one requirement that moves between two sections and the   *)
(* answers that tell the scoring's branches apart, and RedlineGate with     *)
(* documents, people and letters with and without a flaw and a check of     *)
(* each outcome.  The two share no state, so a behaviour is one of either.  *)
EXTENDS BidReview, TLC

VARIABLES today, library, pool, check, report

redlineVars == <<today, library, pool, check, report>>

MCIssue(code) ==
    [code |-> code, type |-> "MISSING", severity |-> "high", clash |-> FALSE, described |-> TRUE]

MCVerdicts == {[status |-> "PASS", issues |-> {}],
               [status |-> "FAIL", issues |-> {MCIssue("r1")}],
               [status |-> "FAIL", issues |-> {MCIssue("PARSE_ERROR")}]}

\* The days of the redline check; a document runs out among them or does not.
MCDocuments == {[kind |-> "QUALIFICATION", valid_to |-> 2], [kind |-> "QUALIFICATION", valid_to |-> 3],
                [kind |-> "PERFORMANCE", valid_to |-> 3]}

Person(months, active) == [asset_type |-> "person", roles |-> {}, months |-> months, active |-> active]
Letter(phrases) == [asset_type |-> "authorization", phrases |-> phrases]

MCAssets == {Person(6, 0), Person(5, 0), Person(6, 1), Letter({"representative", "seal"}), Letter({"seal"})}

Ask(comparisons, durations, active) ==
    [given |-> {}, comparisons |-> comparisons, durations |-> durations, active |-> active]
Duration(committed) == [start |-> 1, completion |-> 3, committed |-> committed, minimum |-> 2]

MCChecks == {Ask({}, {}, TRUE), Ask({}, {Duration(2)}, TRUE), Ask({}, {Duration(1)}, TRUE),
             Ask({[name |-> "voltage", provided |-> 1, required |-> 2]}, {}, TRUE), Ask({}, {}, FALSE)}

Redline == INSTANCE RedlineGate
             WITH LastDay <- 2, Documents <- MCDocuments, Assets <- MCAssets, Requests <- MCChecks

MCInit == Init /\ Redline!Init
MCNext ==
    \/ Redline!Init /\ Next /\ UNCHANGED redlineVars
    \/ Init /\ Redline!Next /\ UNCHANGED vars
MCSpec == MCInit /\ [][MCNext]_<<vars, redlineVars>>

\* A full redline check that does not block speaks for an equipped project
\* (RedlineGate, of redline_engine.run_redline_check).
ClearsOnlyTheEquipped == Redline!ClearsOnlyTheEquipped

Symmetry == Permutations(Clients)
=============================================================================
