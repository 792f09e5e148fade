------------------------ MODULE MCServerStoreManager ------------------------
(* Instances of ServerStoreManager for TLC.                                *)
EXTENDS ServerStoreManager, TLC

MCSymmetry == Permutations(Sessions)

=============================================================================
