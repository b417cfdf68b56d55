----------------------------- MODULE MCRiskOutbox ------------------------------
(***************************************************************************)
(* RiskOutbox for TLC.  Events and workers are interchangeable.            *)
(***************************************************************************)
EXTENDS RiskOutbox, TLC

Interchangeable == Permutations(Events) \cup Permutations(Workers)

===============================================================================
