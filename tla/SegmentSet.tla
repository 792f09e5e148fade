----------------------------- MODULE SegmentSet -----------------------------
(***************************************************************************)
(* What the free list of ServerStreamBuffer promises: a set of segments    *)
(* from which a thread takes any member in one step, and to which it gives *)
(* a segment it holds back in one step.  SegmentPool uses the free list in *)
(* this form.                                                              *)
(***************************************************************************)
CONSTANTS Segments, Threads

VARIABLES free, held

Init ==
    /\ free = Segments
    /\ held = [t \in Threads |-> {}]

Take(t) ==
    \E s \in free :
        /\ free' = free \ {s}
        /\ held' = [held EXCEPT ![t] = @ \cup {s}]

Give(t) ==
    \E s \in held[t] :
        /\ free' = free \cup {s}
        /\ held' = [held EXCEPT ![t] = @ \ {s}]

Next == \E t \in Threads : Take(t) \/ Give(t)

Spec == Init /\ [][Next]_<<free, held>>

=============================================================================
