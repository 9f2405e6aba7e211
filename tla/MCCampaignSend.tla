--------------------------- MODULE MCCampaignSend ---------------------------
EXTENDS CampaignSend, TLC

Symmetry == Permutations(Sends) \union Permutations(Subscribers)
=============================================================================
