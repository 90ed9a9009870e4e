-------------------------------- MODULE MCCampaigns --------------------------------
(* TLC instance of Campaigns. *)
EXTENDS Campaigns, TLC

Threads == Permutations(Requests)
================================================================================
