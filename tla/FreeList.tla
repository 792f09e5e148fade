------------------------------ MODULE FreeList ------------------------------
(***************************************************************************)
(* The free list of ServerStreamBuffer: _freeHead and the next pointers of *)
(* the segments form a singly linked stack that threads change with        *)
(* compare_exchange_strong and without a lock.  One action is one access   *)
(* to shared memory.                                                       *)
(*                                                                         *)
(* Poppers are the threads that request segments; every thread gives the   *)
(* segments it holds back.  The compare-and-swap compares pointers only:   *)
(* a head that was popped and pushed again in between looks unchanged.     *)
(* Two history variables, which no guard reads, record that this happened. *)
(***************************************************************************)
EXTENDS Integers

CONSTANTS
    NumSegments,   \* _numSegments: the constructor of StreamBuffer refuses 0
    Null,          \* nullptr
    Callers,       \* the threads that request segments or give them back
    Poppers        \* the threads that call _dequeueFromFreeList

\* _segments, by their ids
SegmentIds == 0..(NumSegments - 1)

ASSUME FreeListAssumption ==
    /\ NumSegments \in Nat \ {0}
    /\ Null \notin SegmentIds
    /\ Poppers \subseteq Callers

VARIABLES
    freeHead,  \* _freeHead
    next,      \* Segment::next
    flags,     \* Segment::flags: "free" or "inuse"
    pc,        \* where a thread is
    seg,       \* the local variable seg, or the parameter segment
    succ,      \* the value of seg->next that the thread has read
    held,      \* the segments a thread owns
    stale,     \* history: the threads that read the head before another
               \* thread took a segment off the list
    aba        \* history: the compare-and-swap of such a thread succeeded

history == <<stale, aba>>
listVars == <<freeHead, next, flags, pc, seg, succ, held, history>>

ListTypeOK ==
    /\ freeHead \in SegmentIds \cup {Null}
    /\ next \in [SegmentIds -> SegmentIds \cup {Null}]
    /\ flags \in [SegmentIds -> {"free", "inuse"}]
    /\ pc \in [Callers -> {"idle", "load", "swap", "taken", "link", "publish"}]
    /\ seg \in [Callers -> SegmentIds \cup {Null}]
    /\ succ \in [Callers -> SegmentIds \cup {Null}]
    /\ held \in [Callers -> SUBSET SegmentIds]
    /\ stale \subseteq Callers /\ aba \in BOOLEAN

\* _initializeSegments links the segments in the order of their ids.
ListInit ==
    /\ freeHead = 0
    /\ next = [s \in SegmentIds |-> IF s = NumSegments - 1 THEN Null ELSE s + 1]
    /\ flags = [s \in SegmentIds |-> "free"]
    /\ pc = [t \in Callers |-> "idle"]
    /\ seg = [t \in Callers |-> Null]
    /\ succ = [t \in Callers |-> Null]
    /\ held = [t \in Callers |-> {}]
    /\ stale = {} /\ aba = FALSE

-----------------------------------------------------------------------------
(* _dequeueFromFreeList                                                    *)

\* The threads between the read of the head and their compare-and-swap
Taking == {u \in Callers : pc[u] \in {"load", "swap"}}

\* Thread t takes the segment it has read ...
TakesHead(t) ==
    /\ stale' = (stale \cup Taking) \ {t}
    /\ aba' = (aba \/ t \in stale)

\* ... or reads the head, again.
RereadsHead(t) == stale' = stale \ {t} /\ UNCHANGED aba

\* seg = _freeHead, and the test of the loop: an empty list returns nullptr
ReadHead(t) ==
    /\ t \in Poppers
    /\ pc[t] = "idle"
    /\ freeHead # Null
    /\ seg' = [seg EXCEPT ![t] = freeHead]
    /\ pc' = [pc EXCEPT ![t] = "load"]
    /\ RereadsHead(t)
    /\ UNCHANGED <<freeHead, next, flags, succ, held>>

\* The argument seg->next of the compare-and-swap
ReadNext(t) ==
    /\ pc[t] = "load"
    /\ succ' = [succ EXCEPT ![t] = next[seg[t]]]
    /\ pc' = [pc EXCEPT ![t] = "swap"]
    /\ UNCHANGED <<freeHead, next, flags, seg, held, history>>

\* Variant: the head is overwritten without a comparison.
SwapHeadBlindly(t) ==
    /\ pc[t] = "swap"
    /\ freeHead' = succ[t]
    /\ held' = [held EXCEPT ![t] = @ \cup {seg[t]}]
    /\ pc' = [pc EXCEPT ![t] = "taken"]
    /\ TakesHead(t)
    /\ UNCHANGED <<next, flags, seg, succ>>

\* compare_exchange_strong(seg, seg->next)
SwapHead(t) ==
    /\ pc[t] = "swap"
    /\ IF freeHead = seg[t]
       THEN /\ freeHead' = succ[t]
            /\ held' = [held EXCEPT ![t] = @ \cup {seg[t]}]
            /\ pc' = [pc EXCEPT ![t] = "taken"]
            /\ TakesHead(t)
            /\ UNCHANGED seg
       ELSE /\ seg' = [seg EXCEPT ![t] = freeHead]
            /\ pc' = [pc EXCEPT ![t] = IF freeHead = Null THEN "idle" ELSE "load"]
            /\ RereadsHead(t)
            /\ UNCHANGED <<freeHead, held>>
    /\ UNCHANGED <<next, flags, succ>>

\* The caller owns the segment and marks it.
MarkInUse(t) ==
    /\ pc[t] = "taken"
    /\ flags' = [flags EXCEPT ![seg[t]] = "inuse"]
    /\ next' = [next EXCEPT ![seg[t]] = Null]
    /\ pc' = [pc EXCEPT ![t] = "idle"]
    /\ UNCHANGED <<freeHead, seg, succ, held, history>>

-----------------------------------------------------------------------------
(* _enqueueToFreeList                                                      *)

\* The flags are reset first.
MarkFree(t, s) ==
    /\ pc[t] = "idle"
    /\ s \in held[t]
    /\ flags' = [flags EXCEPT ![s] = "free"]
    /\ seg' = [seg EXCEPT ![t] = s]
    /\ pc' = [pc EXCEPT ![t] = "link"]
    /\ UNCHANGED <<freeHead, next, succ, held, history>>

\* segment.next = _freeHead
LinkHead(t) ==
    /\ pc[t] = "link"
    /\ next' = [next EXCEPT ![seg[t]] = freeHead]
    /\ pc' = [pc EXCEPT ![t] = "publish"]
    /\ UNCHANGED <<freeHead, flags, seg, succ, held, history>>

\* Variant: the head is overwritten without a comparison.
PublishHeadBlindly(t) ==
    /\ pc[t] = "publish"
    /\ freeHead' = seg[t]
    /\ held' = [held EXCEPT ![t] = @ \ {seg[t]}]
    /\ pc' = [pc EXCEPT ![t] = "idle"]
    /\ UNCHANGED <<next, flags, seg, succ, history>>

\* compare_exchange_strong(segment.next, &segment)
PublishHead(t) ==
    /\ pc[t] = "publish"
    /\ IF freeHead = next[seg[t]]
       THEN /\ freeHead' = seg[t]
            /\ held' = [held EXCEPT ![t] = @ \ {seg[t]}]
            /\ pc' = [pc EXCEPT ![t] = "idle"]
            /\ UNCHANGED next
       ELSE /\ next' = [next EXCEPT ![seg[t]] = freeHead]
            /\ UNCHANGED <<freeHead, held, pc>>
    /\ UNCHANGED <<flags, seg, succ, history>>

\* A segment changes hands inside the server: a stream requests it in one
\* thread, a worker of the encoder gives it back.
HandOver(t, u, s) ==
    /\ t # u
    /\ s \in held[t]
    /\ pc[t] = "idle" /\ pc[u] = "idle"
    /\ held' = [held EXCEPT ![t] = @ \ {s}, ![u] = @ \cup {s}]
    /\ UNCHANGED <<freeHead, next, flags, pc, seg, succ, history>>

-----------------------------------------------------------------------------
Step(t) ==
    \/ ReadHead(t) \/ ReadNext(t) \/ SwapHead(t) \/ MarkInUse(t)
    \/ \E s \in SegmentIds : MarkFree(t, s)
    \/ LinkHead(t) \/ PublishHead(t)

ListNext ==
    \/ \E t \in Callers : Step(t)
    \/ \E t, u \in Callers, s \in SegmentIds : HandOver(t, u, s)

ListSpec == ListInit /\ [][ListNext]_listVars

-----------------------------------------------------------------------------
(* Properties                                                              *)

\* The segments that can be reached from head: the members of every set that
\* holds it and, with a segment, the one after it
Reachable(head, after) ==
    {s \in SegmentIds : \A R \in SUBSET SegmentIds :
        head \in R \cup {Null} /\ (\A q \in R : after[q] \in R \cup {Null}) => s \in R}

\* The segments on the list
OnList == Reachable(freeHead, next)

\* assert(seg->flags == SegmentFlags::SgfFree) in _dequeueFromFreeList: a
\* segment that a thread just took off the list is free, nobody uses it.
\* Refuted with two threads that take segments.
TakenIsFree == \A t \in Callers : pc[t] = "taken" => flags[seg[t]] = "free"

\* No two threads own a segment, no owned segment is on the list, and the
\* list has not lost any.
Intact ==
    /\ \A t, u \in Callers : t # u => held[t] \cap held[u] = {}
    /\ \A t \in Callers : held[t] \cap OnList = {}
    /\ OnList \cup UNION {held[t] : t \in Callers} = SegmentIds

\* However many threads take segments and give them back at the same time,
\* only ABA breaks the list of _dequeueFromFreeList and _enqueueToFreeList: it
\* is intact until a compare-and-swap finds the head unchanged although
\* another thread has taken a segment since the head was read.  Every other
\* interleaving, that of pushes with a pop included, is harmless.
NothingLost == ~aba => Intact

\* The list is the set of segments of SegmentSet.  Handing a segment over is
\* invisible there: all threads together are the one holder.
Abstract == INSTANCE SegmentSet WITH
    Segments <- SegmentIds,
    Threads <- {"server"},
    free <- OnList,
    held <- [t \in {"server"} |-> UNION {held[u] : u \in Callers}]

\* Until ABA, every step of the list takes one segment out of the set, puts
\* one back or is not seen.
ImplementsSet ==
    /\ Abstract!Init
    /\ [][Abstract!Next \/ aba']_<<OnList, [t \in {"server"} |-> UNION {held[u] : u \in Callers}]>>

\* A bound of the runs: nothing is said of a list that ABA has broken, and
\* nothing is explored of it.
UntilABA == ~aba

=============================================================================
