--------------------------- MODULE MCArtistIntake ---------------------------
(* An instance of ArtistIntake for TLC. *)
EXTENDS ArtistIntake, FiniteSets, TLC

\* Nothing orders or names images, addresses, releases or requests.
Symmetry == Permutations(Images) \union Permutations(Urls) \union
            Permutations(Releases) \union Permutations(Requests)

\* Bound: what follows an excused write is not explored. No property judges the
\* draft after it; that the images are accounted for is proved without the bound.
Judged == ~excused

\* Bound: what follows the loss of a second image is not explored.
OneLost == Cardinality(orphans \union missing) <= 1
=============================================================================
