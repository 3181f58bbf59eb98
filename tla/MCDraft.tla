------------------------------- MODULE MCDraft -------------------------------
(* Requests that differ in what the cache's key leaves out, and one text    *)
(* for each judgement to refuse.                                            *)
EXTENDS DraftGeneration

MCText(facts, words, grounded, signs, size) ==
    [facts |-> [f \in Fields |-> facts], words |-> words, grounded |-> grounded,
     pricing |-> signs, topics |-> [c \in Categories |-> 0], size |-> size]

MCHumanText == MCText(Unstated, {}, FALSE, {}, 1)

MCTexts == {MCText(1, {"void"}, TRUE, {}, 1),
            MCText(2, {}, TRUE, {"many", "dense"}, 2),
            MCText(Unstated, {"void"}, TRUE, {"near", "amount", "context"}, 1),
            MCText(1, {"void"}, TRUE, {}, 4)}

MCVoid == [words |-> {"void"}, category |-> "FORMAT", strong |-> TRUE]

MCRequest(facts, project, critical) ==
    [topic |-> "t", project |-> project, enable_review |-> ~project, section |-> "s",
     weighed |-> critical, weight |-> 80, criticalTitle |-> FALSE,
     must |-> critical, signs |-> {}, sentences |-> IF critical THEN {MCVoid} ELSE {},
     facts |-> [f \in Fields |-> facts]]

MCRequests == {MCRequest(1, TRUE, FALSE), MCRequest(2, TRUE, FALSE),
               MCRequest(1, FALSE, TRUE),
               [MCRequest(1, TRUE, FALSE) EXCEPT !.signs = {"hard"}]}
==============================================================================
