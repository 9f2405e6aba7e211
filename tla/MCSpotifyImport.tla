--------------------------- MODULE MCSpotifyImport ---------------------------
(* Instances of SpotifyImport for TLC. *)
EXTENDS SpotifyImport, TLC

\* The members of every set are interchangeable: nothing orders or names them.
Symmetry ==
  UNION {Permutations(S) : S \in
    {Requests, Previews, Withdrawals, Sweeps, Users, Hashes, Keys, Scopes}}
=============================================================================
