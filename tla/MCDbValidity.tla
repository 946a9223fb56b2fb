----------------------------- MODULE MCDbValidity -----------------------------
(* Instances of DbValidity for TLC.                                           *)
EXTENDS DbValidity
=============================================================================
