------------------------------ MODULE MCAssets -----------------------------
(* Small instances of CampaignAssets.  Assets and workers are              *)
(* interchangeable; symmetry is not used, the run checks liveness.         *)
EXTENDS CampaignAssets, TLC
=============================================================================
