------------------------- MODULE MCCampaignTimeline -------------------------
EXTENDS CampaignTimeline, TLC

MCWindow == [s \in Suggestions |-> <<1, 1>>]

Symmetry == Permutations(Changes) \union Permutations(Suggestions)
=============================================================================
