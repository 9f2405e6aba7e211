---------------------------- MODULE MCImportLedger ----------------------------
(* An instance of ImportLedger for TLC. *)
EXTENDS ImportLedger, TLC

Symmetry == Permutations(Imports) \union Permutations(Hashes) \union Permutations(Keys)
=============================================================================
