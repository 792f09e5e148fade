---------------------------- MODULE TraceStream ----------------------------
(***************************************************************************)
(* What a stream of the storage server promises its sessions, without the  *)
(* buffer, the cache, read-ahead, the encoders and the locks: a segment is *)
(* written by one session, then encoded, and either vanishes or is stored  *)
(* for good; only stored segments are mapped for reading, by any number of *)
(* sessions.                                                               *)
(***************************************************************************)
CONSTANTS Sessions, Sqns, Existing

VARIABLES
    phase,    \* of every sequence number
    mapped    \* <<c, n>>: session c may access the data of n

Phases == {"absent", "writing", "encoding", "stored"}

Init ==
    /\ phase = [n \in Sqns |-> IF n \in Existing THEN "stored" ELSE "absent"]
    /\ mapped = {}

\* append, addSegment: the session may write the segment.
Create(c, n) ==
    /\ phase[n] = "absent"
    /\ phase' = [phase EXCEPT ![n] = "writing"]
    /\ mapped' = mapped \cup {<<c, n>>}

\* The segment is closed: nobody can write it any more.  An empty one is
\* dropped.
Submit(n) ==
    /\ phase[n] = "writing"
    /\ \E p \in {"encoding", "absent"} : phase' = [phase EXCEPT ![n] = p]
    /\ mapped' = mapped \ (Sessions \X {n})

\* The encoder succeeds or fails.
Encoded(n) ==
    /\ phase[n] = "encoding"
    /\ \E p \in {"stored", "absent"} : phase' = [phase EXCEPT ![n] = p]
    /\ UNCHANGED mapped

\* open
Map(c, n) ==
    /\ phase[n] = "stored"
    /\ mapped' = mapped \cup {<<c, n>>}
    /\ UNCHANGED phase

\* close, or the session leaves with all it has
Unmap(c, N) ==
    /\ mapped' = mapped \ ({c} \X N)
    /\ UNCHANGED phase

Next ==
    \/ \E n \in Sqns : Submit(n) \/ Encoded(n)
    \/ \E c \in Sessions, n \in Sqns : Create(c, n) \/ Map(c, n)
    \/ \E c \in Sessions, N \in SUBSET Sqns : Unmap(c, N)

Spec == Init /\ [][Next]_<<phase, mapped>>

=============================================================================
