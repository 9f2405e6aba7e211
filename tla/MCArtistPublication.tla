------------------------ MODULE MCArtistPublication ------------------------
EXTENDS ArtistPublication, FiniteSets, TLC

Symmetry == Permutations(Artists) \union Permutations(Slugs)
            \union Permutations(Versions) \union Permutations(Requests)

\* Two versions of each artist are enough for one to supersede the other.
FewVersions == \A a \in Artists : Cardinality(VersionsOf(a)) <= 2
=============================================================================
