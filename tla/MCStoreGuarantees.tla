------------------------- MODULE MCStoreGuarantees --------------------------
(* StoreGuarantees for TLC.                                                *)
EXTENDS StoreGuarantees, TLC

Symmetry == Permutations(Keys)
=============================================================================
