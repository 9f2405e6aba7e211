-------------------------- MODULE MCReleaseMapping --------------------------
(* Instances of ReleaseMapping for TLC. *)
EXTENDS ReleaseMapping, TLC

Symmetry == Permutations(Imports) \union Permutations(Rows) \union Permutations(Scopes)
            \union Permutations(Releases) \union Permutations(Changes)
=============================================================================
