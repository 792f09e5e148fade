------------------------ MODULE MCServerStreamBuffer ------------------------
(***************************************************************************)
(* Instances of ServerStreamBuffer for TLC.  Links are triples <<store,    *)
(* stream, sequence number>>; the index key is the one of LinkHash.        *)
(***************************************************************************)
EXTENDS ServerStreamBuffer, LinkHash, TLC

\* Two stores that share the buffer, and one segment still to be written
MCStores == {1, 2}
MCLinks == {<<1, 0, 0>>, <<2, 0, 0>>}
MCExisting == {<<1, 0, 0>>}

\* The store ids 1 and 65536 fold to the same 16 bits.
MCStoresFolded == {1, 65536}
MCLinksFolded == {<<1, 0, 0>>, <<65536, 0, 0>>}

MCKeyOf(l) == IndexKey(l)
MCStoreOf(l) == l[1]

MCSymmetry == Permutations(Segments) \cup Permutations(Threads)

=============================================================================
