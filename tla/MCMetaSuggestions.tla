-------------------------- MODULE MCMetaSuggestions --------------------------
EXTENDS MetaSuggestions, TLC

CONSTANTS f1, f2, f3

\* f1: day 1. f2: days 1 and 2, trusted less than f1 and f3. f3: days 2 and 3.
MCExport ==
  f1 :> [spend |-> <<1, None, None>>, trust |-> 4, asOf |-> 1, eligible |-> TRUE]
  @@ f2 :> [spend |-> <<1, 1, None>>, trust |-> 2, asOf |-> 0, eligible |-> TRUE]
  @@ f3 :> [spend |-> <<None, 0, 1>>, trust |-> 4, asOf |-> 2, eligible |-> TRUE]

Symmetry == Permutations(Commits) \union Permutations(Withdrawals) \union Permutations(Buttons)
            \union Permutations(Previews) \union Permutations(Keys)

\* Bound: what follows a second file left in storage is not explored.
OneLost == Cardinality(orphans) <= 1
=============================================================================
