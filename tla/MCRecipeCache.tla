---------------------------- MODULE MCRecipeCache ----------------------------
(* A repository with two recipes, one the parent of the other, and an         *)
(* override file that may or may not name a parent.                          *)
EXTENDS RecipeCache, TLC
CONSTANTS P, s, t, A, B, X

MCFiles == {[repo |-> P, stem |-> s, identifier |-> A, parent |-> NoParent],
            [repo |-> P, stem |-> t, identifier |-> B, parent |-> A]}
MCOverrides == {[stem |-> s, identifier |-> X, parent |-> NoParent],
                [stem |-> s, identifier |-> X, parent |-> B]}
Symmetry == Permutations(Threads)
=============================================================================
