------------------------------ MODULE MCSection ------------------------------
(* SectionWorkflow on two requests; the configurations choose the sections, *)
(* the bounds and whether the requests of a section may overlap.            *)
EXTENDS SectionWorkflow, TLC

(* Requests and sections are interchangeable (safety runs only).            *)
Symmetry == Permutations(Chains) \cup Permutations(Sections)
=============================================================================
