------------------------------ MODULE MCLinkReview ---------------------------
(* The values in the configurations come from LinkInstances.                 *)
EXTENDS LinkReview, LinkInstances
===============================================================================
