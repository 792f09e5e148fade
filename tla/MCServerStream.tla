--------------------------- MODULE MCServerStream ---------------------------
(* Instances of ServerStream for TLC.                                      *)
EXTENDS ServerStream, TLC

MCSqns == 0..MaxSqn
MCKeyOf(n) == n
MCSegmentSymmetry == Permutations(Segments)

=============================================================================
