----------------------------- MODULE MCKnowledge -----------------------------
(* KnowledgeBase with interchangeable requests.                             *)
EXTENDS KnowledgeBase, TLC

Symmetry == Permutations(Requests)
=============================================================================
