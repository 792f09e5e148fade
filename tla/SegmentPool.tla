---------------------------- MODULE SegmentPool ----------------------------
(***************************************************************************)
(* The data structures of ServerStreamBuffer and the operations that run   *)
(* under one of its locks, as functions from a pool to a pool.  The        *)
(* modules ServerStreamBuffer and ServerStream build their actions from    *)
(* them.                                                                   *)
(*                                                                         *)
(* A pool is a record                                                      *)
(*    free     the segments on the free list (_freeHead); the order of the *)
(*             list decides nothing a property mentions, module FreeList   *)
(*             has its links and its compare-and-swap                      *)
(*    standby  the LRU cache (_standbyHead), head first, victim last       *)
(*    index    the hash map over the cache (_standbyIndex)                 *)
(*    seg      the array of struct Segment (_segments)                     *)
(***************************************************************************)
EXTENDS Integers, Sequences, SequencesExt

CONSTANTS
    Segments,      \* the segment ids of the buffer
    NoSegment,     \* INVALID_SEGMENT_ID
    Links,         \* <store, stream, sequence number> of a stream segment
    NoLink,        \* the owner of a free or scratch segment
    KeyOf(_),      \* what the hash map can tell apart of a link
    EnableCache    \* !server.memmgmt.disableCache

ASSUME PoolAssumption ==
    /\ NoSegment \notin Segments
    /\ NoLink \notin Links
    /\ EnableCache \in BOOLEAN

Keys == {KeyOf(l) : l \in Links}

\* enum SegmentFlags.  SgfFree is the empty set.
Flags == {"InUse", "ReadOnly", "Scratch", "Cacheable", "LowPriority", "Prefetch"}

(***************************************************************************)
(* struct Segment: the owner (stream and sequenceNumber) is the link.      *)
(* "ready" is a ghost: the memory of the segment holds all of the data of  *)
(* its link.  rawEntryCount is left out: a segment that reaches            *)
(* _freeSegment has been encoded or decoded and is not empty.              *)
(***************************************************************************)
SegmentType ==
    [flags : SUBSET Flags, link : Links \cup {NoLink},
     submitted : BOOLEAN, ready : BOOLEAN]

PoolType ==
    [free : SUBSET Segments, standby : Seq(Segments),
     index : [Keys -> Segments \cup {NoSegment}],
     seg : [Segments -> SegmentType]]

\* _initializeSegments
InitPool ==
    [free    |-> Segments,
     standby |-> <<>>,
     index   |-> [k \in Keys |-> NoSegment],
     seg     |-> [s \in Segments |->
                    [flags |-> {}, link |-> NoLink,
                     submitted |-> FALSE, ready |-> FALSE]]]

-----------------------------------------------------------------------------
(* The free list.                                                          *)

\* _dequeueFromFreeList, for a segment s of the free list
DequeueFromFreeList(p, s) ==
    [p EXCEPT !.free = p.free \ {s},
              !.seg = [p.seg EXCEPT ![s] =
                  [flags |-> {"InUse"}, link |-> p.seg[s].link,
                   submitted |-> FALSE, ready |-> p.seg[s].ready]]]

\* Variant: the flags of the last owner stay.
EnqueueToFreeListKeepsFlags(p, s) ==
    [p EXCEPT !.free = p.free \cup {s},
              !.seg = [p.seg EXCEPT ![s] =
                  [flags |-> p.seg[s].flags, link |-> NoLink,
                   submitted |-> p.seg[s].submitted, ready |-> FALSE]]]

\* _enqueueToFreeList
EnqueueToFreeList(p, s) ==
    [p EXCEPT !.free = p.free \cup {s},
              !.seg = [p.seg EXCEPT ![s] =
                  [flags |-> {}, link |-> NoLink,
                   submitted |-> p.seg[s].submitted, ready |-> FALSE]]]

\* _purgeSegment.  The encoder is told that the segment leaves the cache;
\* no encoder of the repository overrides notifySegmentCacheClosed.
PurgeSegment(p, s) == EnqueueToFreeList(p, s)

\* Variant: a segment that is reused keeps its last owner.
PrepareSegmentKeepsOwner(p, s, link) ==
    [p EXCEPT !.seg[s].link = IF @ = NoLink THEN link ELSE @,
              !.seg[s].ready = FALSE]

\* _prepareSegment
PrepareSegment(p, s, link) ==
    [p EXCEPT !.seg = [p.seg EXCEPT ![s] =
        [flags |-> p.seg[s].flags, link |-> link,
         submitted |-> p.seg[s].submitted, ready |-> FALSE]]]

-----------------------------------------------------------------------------
(* The standby list: _standbyLock is held.                                 *)

Position(list, s) == CHOOSE i \in DOMAIN list : list[i] = s

\* _findStandbySegment
FindStandbySegment(p, link) == p.index[KeyOf(link)]

\* _dequeueFromStandbyList together with the erase of the index entry
\* under which the caller found the segment
DequeueFromStandbyList(p, s, link) ==
    [p EXCEPT !.standby = RemoveAt(p.standby, Position(p.standby, s)),
              !.index = [p.index EXCEPT ![KeyOf(link)] = NoSegment],
              !.seg = [p.seg EXCEPT ![s] = [p.seg[s] EXCEPT !.submitted = FALSE]]]

\* _enqueueToStandbyList: the tail is the next victim, so only segments of
\* low priority go there, and not those that were prefetched.
EnqueueToStandbyList(p, s) ==
    LET flags  == p.seg[s].flags
        atHead == "LowPriority" \notin flags \/ "Prefetch" \in flags
    IN  IF p.standby = <<>>
        THEN [p EXCEPT !.standby = <<s>>]
        ELSE IF atHead
             THEN [p EXCEPT !.standby = <<s>> \o p.standby,
                            !.seg = [p.seg EXCEPT ![s] =
                               [p.seg[s] EXCEPT !.flags = flags \ {"Prefetch"}]]]
             ELSE [p EXCEPT !.standby = Append(p.standby, s)]

\* Variant: a second copy of a link is cached, too.
AddStandbySegmentTwice(p, s) ==
    EnqueueToStandbyList([p EXCEPT !.index[KeyOf(p.seg[s].link)] = s], s)

\* _addStandbySegment: only one copy of a link is cached.
AddStandbySegment(p, s) ==
    LET link == p.seg[s].link
    IN  IF FindStandbySegment(p, link) # NoSegment
        THEN PurgeSegment(p, s)
        ELSE EnqueueToStandbyList([p EXCEPT !.index[KeyOf(link)] = s], s)

\* _evictFromStandbyList, for a standby list that is not empty
EvictFromStandbyList(p) ==
    LET s == Last(p.standby)
    IN  [DequeueFromStandbyList(p, s, p.seg[s].link)
            EXCEPT !.seg[s].flags = {"InUse"}]

\* Variant: the segment is not taken off the list.
FlushSegmentListed(p, s) == PurgeSegment(p, s)

\* One iteration of the loop of flushStandbyList, for a cached segment s
FlushSegment(p, s) ==
    PurgeSegment(DequeueFromStandbyList(p, s, p.seg[s].link), s)

-----------------------------------------------------------------------------
(* Segment management.                                                     *)

\* _freeSegment
FreeSegment(p, s, prefetch) ==
    LET add == {"ReadOnly"} \cup (IF prefetch THEN {"Prefetch"} ELSE {})
        q   == [p EXCEPT !.seg[s].submitted = TRUE]
    IN  IF "Cacheable" \in p.seg[s].flags /\ EnableCache
        THEN AddStandbySegment([q EXCEPT !.seg[s].flags = @ \cup add], s)
        ELSE PurgeSegment(q, s)

\* The flags _requestSegment gives a segment it allocated
RequestFlags(kind, low) ==
    CASE kind = "scratch" -> {"InUse", "Scratch"}
      [] kind = "write"   -> {"InUse"} \cup
                             (IF EnableCache THEN {"Cacheable", "LowPriority"} ELSE {})
      [] kind \in {"read", "prefetch"} ->
                             {"InUse", "ReadOnly"} \cup
                             (IF EnableCache THEN {"Cacheable"} ELSE {}) \cup
                             (IF EnableCache /\ low THEN {"LowPriority"} ELSE {})

\* _tryAllocateFreeSegment after it got segment s, and the flags
AllocateSegment(p, s, kind, link, low) ==
    [PrepareSegment(p, s, link) EXCEPT !.seg[s].flags = RequestFlags(kind, low)]

\* The accepting path of _submitSegment for a written segment
SubmitWritten(p, s) == [p EXCEPT !.seg[s].submitted = TRUE]

\* The encoder has read or written all of the data of the segment (ghost)
MarkReady(p, s) == [p EXCEPT !.seg[s].ready = TRUE]

\* freeSegment, purgeSegment and submitSegment refuse a segment that is not
\* in use or that is on a list (its next pointer is set).
InUse(p, s) == "InUse" \in p.seg[s].flags /\ s \notin Range(p.standby)

============================================================================
