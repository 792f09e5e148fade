------------------------------ MODULE LinkHash ------------------------------
(***************************************************************************)
(* struct LinkHash of ServerStreamBuffer and the equality of the keys of   *)
(* _standbyIndex.  A link is <<store, stream, sequence number>>.           *)
(***************************************************************************)
EXTENDS Integers, Sequences, Bitwise

\* A store id is 32 bits wide: it folds to the exclusive or of its halves.
FoldedStore(store) == (store % 2^16) ^^ (store \div 2^16)

(***************************************************************************)
(* The hash maps two links to one value only if FoldedStore, the stream    *)
(* and the sequence number agree up to the exclusive or of the lowest 16   *)
(* bits; the keys are then compared by operator== of the base class        *)
(* StreamSegmentLink, which sees the stream and the sequence number and    *)
(* not the store.  So this is all of a link that the index tells apart.    *)
(***************************************************************************)
IndexKey(link) == <<FoldedStore(link[1]), link[2], link[3]>>

=============================================================================
