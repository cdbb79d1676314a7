------------------------------- MODULE MCLive -------------------------------
(* One client, two jobs of the view, two deployments *)
EXTENDS LivePlatform
=============================================================================
