---------------------------- MODULE MCRuleReload ----------------------------
(* Small instance of RuleReload: three rule sets that disagree on both the  *)
(* bitmap and the path filter, and an operation only one of them selects.   *)
EXTENDS RuleReload, TLC

CONSTANTS r1, r2, r3, o1, o2

MCCovers == r1 :> {o1, o2} @@ r2 :> {o2} @@ r3 :> {o1}
MCCandidates == r1 :> {o1} @@ r2 :> {o2} @@ r3 :> {o1}
MCSelects == r1 :> {o1} @@ r2 :> {o2} @@ r3 :> {}
\* Threads differ in nothing but their name.
ThreadSymmetry == Permutations(Threads)
=============================================================================
