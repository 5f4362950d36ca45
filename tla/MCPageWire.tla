------------------------------ MODULE MCPageWire ------------------------------
(* Names for the values of the page's instance, and what may be renamed in it. *)
EXTENDS PageWire, TLC

CONSTANTS s1, s2, c1, c2, c3, k1
===============================================================================
