------------------------------ MODULE MCLinkEvidence -------------------------
(* The values in the configurations come from LinkInstances.                 *)
EXTENDS LinkEvidence, LinkInstances
===============================================================================
