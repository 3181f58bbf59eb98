----------------------------- MODULE MCProviders -----------------------------
(* Two profiles, one of the registry's first model; the registry knows two. *)
(* Processes are interchangeable.                                           *)
EXTENDS ProviderProfiles, TLC

MCModelOrder == <<"m1", "m2">>
MCModelOf == [p \in Profiles |-> IF p = CHOOSE q \in Profiles : TRUE THEN "m1" ELSE "m2"]
Symmetry == Permutations(Procs)
==============================================================================
