----------------------------- MODULE StreamIndex ----------------------------
(***************************************************************************)
(* The index of a stream of the server and the handles that read along it: *)
(* _segments, _trees and _stats of ServerStream with the queries of        *)
(* ServerStream::open, and StStreamOpen, StGetNextEntry and                *)
(* StGetPreviousEntry of the client.                                       *)
(*                                                                         *)
(* A client appends segments of entries one after the other; encoders      *)
(* complete them, or fail to, in any order, while another client reads.    *)
(* Afterwards the store is opened again: the segments whose frames are in  *)
(* the file are added in the order in which they were committed.           *)
(*                                                                         *)
(* An entry is its cycle count.  The index over the wall clock time works  *)
(* as the one over cycle counts and is left out.  StreamSegmentId is an    *)
(* integer of Width bits whose largest value is INVALID_STREAM_SEGMENT_ID. *)
(***************************************************************************)
EXTENDS Integers, Sequences, FiniteSets, FiniteSetsExt

CONSTANTS
    Width,          \* bits of a sequence number
    Capacity,       \* entries of a segment
    MaxCycle,       \* bound on the cycle counts
    Ties,           \* entries of two segments may have the same cycle count
    EncodersMayFail,
    Directions      \* in which the readers go

ASSUME StreamIndexAssumption ==
    /\ Width \in Nat /\ 2^Width \in Nat \ {0}   \* the second follows from the first
    /\ Capacity \in Nat \ {0} /\ MaxCycle \in Nat
    /\ Ties \in BOOLEAN /\ EncodersMayFail \in BOOLEAN
    /\ Directions \subseteq {"next", "previous"}

Invalid == 2^Width - 1
Sqns == 0..Invalid - 1

\* INVALID_LARGE_OBJECT_ID, larger than any index or cycle count
InvalidObject == MaxCycle + Capacity * Invalid + 1

VARIABLES
    segments,       \* _segments, from 1
    last,           \* _lastSequenceNumber
    lastAppend,     \* _lastAppendSequenceNumber
    lastIndex,      \* _lastAppendIndex
    clock,          \* the cycle count of the entry that was written last
    trees,          \* _trees
    stats,          \* _stats.ranges
    file,           \* the frames of the store, in the order of their commit
    mode,           \* of the store: being written, loaded, open for reading
    handle,         \* a read handle of a client
    seen            \* the entries its reader was given

stream == <<segments, last, lastAppend, lastIndex, trees, stats>>
vars == <<stream, clock, file, mode, handle, seen>>

Types == {"index", "cycle"}

Hole == [state |-> "hole", start |-> 0, cycles |-> <<>>]
NoHandle == [state |-> "none", dir |-> "next", sqn |-> Invalid, pos |-> 0, from |-> <<0, 0>>]

TypeOK ==
    /\ Len(segments) <= Invalid
    /\ \A i \in DOMAIN segments :
         segments[i].state \in {"hole", "writing", "encoding", "stored"}
    /\ last \in 0..Invalid /\ lastAppend \in 0..Invalid /\ lastIndex \in 0..InvalidObject
    /\ \A t \in Types : trees[t] \subseteq
         [start : 0..InvalidObject, end : 0..InvalidObject, sqn : Sqns]
    /\ \A t \in Types : stats[t].end \in 0..InvalidObject
    /\ mode \in {"written", "loading", "open", "refused"}
    /\ handle.state \in {"none", "valid", "invalid", "null", "wild"}

Empty ==
    /\ segments = <<>>
    /\ last = Invalid /\ lastAppend = Invalid /\ lastIndex = 0
    /\ trees = [t \in Types |-> {}]
    /\ stats = [t \in Types |-> [start |-> InvalidObject, end |-> InvalidObject]]

Init ==
    /\ Empty
    /\ clock = 0
    /\ file = <<>>
    /\ mode = "written"
    /\ handle = NoHandle
    /\ seen = {}

-----------------------------------------------------------------------------
(* The vector of segments                                                  *)

\* _segmentIsAllocated
Allocated(n) == n < Len(segments) /\ segments[n + 1] # Hole
Segment(n) == segments[n + 1]
Stored(n) == Allocated(n) /\ Segment(n).state = "stored"

\* A set of sequence numbers has at most one member where the code has a
\* pointer that may be null.
SmallestOf(S) == {n \in S : \A m \in S : n <= m}
LargestOf(S) == {n \in S : \A m \in S : m <= n}

\* A number beyond the last one is taken for the last one, whose
\* predecessor is returned.
getPreviousSegment(n) ==
    LET k == IF n > last THEN last ELSE n IN
    IF last = Invalid /\ n <= last THEN {}
    ELSE LargestOf({m \in Sqns : m < k /\ Allocated(m)})

\* Variant: segments that are still encoded are passed over.
NextStoredSegment(n) ==
    SmallestOf({m \in Sqns : m >= (n + 1) % (Invalid + 1) /\ Stored(m)})

\* The increment of INVALID_STREAM_SEGMENT_ID leads to the first segment.
getNextSegment(n) ==
    SmallestOf({m \in Sqns : m >= (n + 1) % (Invalid + 1) /\ Allocated(m)})

-----------------------------------------------------------------------------
(* Adding a segment                                                        *)

RangesOf(loc) ==
    [t \in Types |->
        IF t = "index"
        THEN [start |-> loc.start, end |-> loc.start + Len(loc.cycles) - 1]
        ELSE [start |-> loc.cycles[1], end |-> loc.cycles[Len(loc.cycles)]]]

\* Variant: the neighbours are taken for each other.
ViolatesSwapped(loc, n, before) ==
    LET r == RangesOf(loc)
        q == RangesOf(Segment(n))
    IN  Stored(n) /\ \E t \in Types :
            /\ q[t].start = q[t].end
            /\ IF before THEN r[t].end >= q[t].start ELSE r[t].start <= q[t].end

\* The check of _addSegment against a neighbour that has a location
Violates(loc, n, before) ==
    LET r == RangesOf(loc)
        q == RangesOf(Segment(n))
    IN  Stored(n) /\ \E t \in Types :
            /\ q[t].start = q[t].end
            /\ IF before THEN r[t].start <= q[t].end ELSE r[t].end >= q[t].start

Accepted(n, loc) ==
    /\ \A m \in getPreviousSegment(n) : ~Violates(loc, m, TRUE)
    /\ \A m \in getNextSegment(n) : ~Violates(loc, m, FALSE)

\* std::set::insert: a range that starts like one in the tree is not added.
Insert(tree, range, n) ==
    IF \E r \in tree : r.start = range.start THEN tree
    ELSE tree \cup {[start |-> range.start, end |-> range.end, sqn |-> n]}

\* Variant: the end of the last segment added
StatEndLast(stat, range) == range.end

StatEnd(stat, range) ==
    IF range.end > stat.end \/ stat.end = InvalidObject THEN range.end ELSE stat.end

\* The rest of _addSegment.  A segment that is loaded extends the vector,
\* and moves _lastAppendIndex to its start.
addSegment(n, loc) ==
    LET ranges == RangesOf(loc)
        size == IF n < Len(segments) THEN Len(segments) ELSE n + 1
    IN
    /\ segments' = [i \in 1..size |->
                       IF i = n + 1 THEN [loc EXCEPT !.state = "stored"]
                       ELSE IF i <= Len(segments) THEN segments[i] ELSE Hole]
    /\ trees' = [t \in Types |-> Insert(trees[t], ranges[t], n)]
    /\ stats' = [t \in Types |->
          [start |-> IF ranges[t].start < stats[t].start THEN ranges[t].start
                     ELSE stats[t].start,
           end |-> StatEnd(stats[t], ranges[t])]]
    /\ last' = IF ~Allocated(n) /\ (n > last \/ last = Invalid) THEN n ELSE last
    /\ lastIndex' = IF ~Allocated(n) /\ loc.start > lastIndex THEN loc.start ELSE lastIndex
    /\ UNCHANGED lastAppend

-----------------------------------------------------------------------------
(* The writer and the encoders                                             *)

SetSegment(n, loc) == segments' = [segments EXCEPT ![n + 1] = loc]

Unread == <<file, mode, handle, seen>>

\* The second half of ServerStream::append
Allocate ==
    LET n == (last + 1) % (Invalid + 1) IN
    /\ mode = "written" /\ lastAppend = Invalid
    /\ n # Invalid
    /\ segments' = [i \in 1..n + 1 |->
                       IF i = n + 1 THEN [state |-> "writing", start |-> lastIndex, cycles |-> <<>>]
                       ELSE segments[i]]
    /\ last' = n /\ lastAppend' = n
    /\ UNCHANGED <<lastIndex, trees, stats, clock, Unread>>

\* The client writes an entry with StGetNextEntry and StSubmitEntry.  Cycle
\* counts never go back.
WriteEntry(c) ==
    LET loc == Segment(lastAppend) IN
    /\ lastAppend # Invalid
    /\ Len(loc.cycles) < Capacity
    /\ c >= clock
    /\ loc.cycles = <<>> /\ ~Ties /\ lastIndex > 0 => c > clock
    /\ clock' = c
    /\ SetSegment(lastAppend, [loc EXCEPT !.cycles = Append(@, c)])
    /\ UNCHANGED <<last, lastAppend, lastIndex, trees, stats, Unread>>

\* _close of the segment that was appended last.  An empty one is dropped.
Submit ==
    LET loc == Segment(lastAppend) IN
    /\ lastAppend # Invalid
    /\ SetSegment(lastAppend, IF loc.cycles = <<>> THEN Hole
                              ELSE [loc EXCEPT !.state = "encoding"])
    /\ lastIndex' = lastIndex + Len(loc.cycles)
    /\ lastAppend' = Invalid
    /\ UNCHANGED <<last, trees, stats, clock, Unread>>

\* _writerMain: the frame is in the file before the stream completes the
\* segment; a segment the stream does not accept is dropped.
Complete(n) ==
    /\ Allocated(n) /\ Segment(n).state = "encoding"
    /\ file' = Append(file, [sqn |-> n, start |-> Segment(n).start, cycles |-> Segment(n).cycles])
    /\ IF Accepted(n, Segment(n))
       THEN addSegment(n, Segment(n))
       ELSE SetSegment(n, Hole) /\ UNCHANGED <<last, lastAppend, lastIndex, trees, stats>>
    /\ UNCHANGED <<clock, mode, handle, seen>>

\* Compressing the segment or writing the frame fails.
EncodeFails(n) ==
    /\ EncodersMayFail
    /\ Allocated(n) /\ Segment(n).state = "encoding"
    /\ SetSegment(n, Hole)
    /\ UNCHANGED <<last, lastAppend, lastIndex, trees, stats, clock, Unread>>

-----------------------------------------------------------------------------
(* The store is closed and opened again                                    *)

Reopen ==
    /\ mode = "written" /\ handle = NoHandle
    /\ \A n \in Sqns : Allocated(n) => Stored(n)
    /\ mode' = "loading"
    /\ segments' = <<>>
    /\ last' = Invalid /\ lastAppend' = Invalid /\ lastIndex' = 0
    /\ trees' = [t \in Types |-> {}]
    /\ stats' = [t \in Types |-> [start |-> InvalidObject, end |-> InvalidObject]]
    /\ clock' = 0
    /\ UNCHANGED <<file, handle, seen>>

\* addSegment of the next frame of the file
LoadFrame ==
    LET k == Cardinality({n \in Sqns : Stored(n)}) + 1
        loc == [state |-> "stored", start |-> file[k].start, cycles |-> file[k].cycles]
    IN
    /\ mode = "loading" /\ k <= Len(file)
    /\ IF Accepted(file[k].sqn, loc)
       THEN addSegment(file[k].sqn, loc) /\ UNCHANGED mode
       ELSE mode' = "refused" /\ UNCHANGED stream
    /\ UNCHANGED <<clock, file, handle, seen>>

Loaded ==
    /\ mode = "loading"
    /\ Cardinality({n \in Sqns : Stored(n)}) = Len(file)
    /\ mode' = "open"
    /\ UNCHANGED <<stream, clock, file, handle, seen>>

-----------------------------------------------------------------------------
(* Queries                                                                 *)

\* _findSequenceNumber in a tree: the range that starts last, at or before
\* the value, if it reaches the value
FindInTree(type, value) ==
    LET before == {r \in trees[type] : r.start <= value}
    IN  {r.sqn : r \in {r \in before : value <= r.end /\ \A q \in before : q.start <= r.start}}

\* _adjustQuery for a value relative to the end of the stream
Adjusted(type, value) ==
    IF value > stats[type].end THEN {} ELSE {stats[type].end - value}

\* _findCycleCountBinarySearch: the offset is that of the entry looked at
\* last.
FindCycleCountBinarySearch(cycles, cycle, reverse) ==
    LET search[s \in 0..Capacity, e \in 0..Capacity, offset \in 0..Capacity] ==
            LET mid == s + (e - s) \div 2 IN
            IF s >= e THEN offset
            ELSE IF cycles[mid + 1] < cycle THEN search[mid + 1, e, mid]
            ELSE IF cycles[mid + 1] = cycle /\ reverse /\ s # mid THEN search[mid, e, mid]
            ELSE search[s, mid, mid]
    IN  search[0, Len(cycles) - 1, 0]

-----------------------------------------------------------------------------
(* A reader                                                                *)

Readable == mode \in {"written", "open"}

\* StStreamOpen for the entry with an index, from the end for a reader that
\* goes backwards.  It throws, and there is no handle, when the entry is not
\* found.
OpenHandle(dir, value) ==
    /\ Readable /\ handle = NoHandle
    /\ dir \in Directions
    /\ \E v \in IF dir = "next" THEN {value} ELSE Adjusted("index", value) :
       \E n \in FindInTree("index", v) :
         /\ Stored(n)
         /\ handle' = [state |-> "valid", dir |-> dir, sqn |-> n,
                       pos |-> v - Segment(n).start, from |-> <<n, v - Segment(n).start>>]
    /\ seen' = {}
    /\ UNCHANGED <<stream, clock, file, mode>>

\* The reader is given entry p of segment n, and the handle moves on by d.
Give(n, p, d) ==
    /\ seen' = seen \cup {<<n, p>>}
    /\ handle' = [handle EXCEPT !.state = "valid", !.sqn = n, !.pos = p + d]

\* The open of the next segment throws or finds none.  The handle is
\* invalidated and keeps its sequence number.
Invalidate ==
    /\ handle' = [handle EXCEPT !.state = "invalid"]
    /\ UNCHANGED seen

\* StGetNextEntryFast
GetNextEntry ==
    LET n == handle.sqn
        next == {m \in getNextSegment(n) : Stored(m)}
    IN
    /\ Readable
    /\ handle.dir = "next" /\ handle.state \in {"valid", "invalid"}
    /\ \/ /\ handle.state = "valid" /\ handle.pos < Len(Segment(n).cycles)
          /\ Give(n, handle.pos, 1)
       \/ /\ handle.state = "invalid" \/ handle.pos >= Len(Segment(n).cycles)
          /\ \/ \E m \in next : Give(m, 0, 1)
             \/ next = {} /\ Invalidate
    /\ UNCHANGED <<stream, clock, file, mode>>

\* StGetPreviousEntryFast.  With a handle that was invalidated it does not
\* ask the server: entry and segmentStart are both NULL.  It returns NULL
\* and moves the entry before NULL, and then returns that.
GetPreviousEntry ==
    LET n == handle.sqn
        prev == {m \in getPreviousSegment(n) : Stored(m)}
    IN
    /\ Readable
    /\ handle.dir = "previous" /\ handle.state \in {"valid", "invalid", "null"}
    /\ \/ /\ handle.state = "valid" /\ handle.pos >= 0
          /\ Give(n, handle.pos, -1)
       \/ /\ handle.state = "valid" /\ handle.pos < 0
          /\ \/ \E m \in prev : Give(m, Len(Segment(m).cycles) - 1, -1)
             \/ prev = {} /\ Invalidate
       \/ /\ handle.state \in {"invalid", "null"}
          /\ handle' = [handle EXCEPT !.state = IF @ = "null" THEN "wild" ELSE "null"]
          /\ UNCHANGED seen
    /\ UNCHANGED <<stream, clock, file, mode>>

CloseHandle ==
    /\ handle # NoHandle
    /\ handle' = NoHandle
    /\ seen' = {}
    /\ UNCHANGED <<stream, clock, file, mode>>

Next ==
    \/ Allocate \/ Submit
    \/ \E c \in 0..MaxCycle : WriteEntry(c)
    \/ \E n \in Sqns : Complete(n) \/ EncodeFails(n)
    \/ Reopen \/ LoadFrame \/ Loaded
    \/ \E dir \in Directions, value \in 0..Capacity * Invalid : OpenHandle(dir, value)
    \/ GetNextEntry \/ GetPreviousEntry \/ CloseHandle

Spec == Init /\ [][Next]_vars

-----------------------------------------------------------------------------
(* Properties                                                              *)

\* The segments that can be read and have the value in their range
Holds(type, value) ==
    {n \in Sqns : Stored(n) /\ RangesOf(Segment(n))[type].start <= value
                            /\ value <= RangesOf(Segment(n))[type].end}

\* Whatever order segments were completed or loaded in, and whichever failed:
\* a query finds the segment that holds the value, if there is one, and a
\* query from the end counts from the last entry that can be read.
QueriesExact ==
    \A type \in Types :
        /\ \A value \in 0..InvalidObject - 1 : FindInTree(type, value) = Holds(type, value)
        /\ \A n \in Sqns : Stored(n) =>
               \E end \in Adjusted(type, 0) :
                  /\ Holds(type, end) # {}
                  /\ RangesOf(Segment(n))[type].end <= end

\* A reader is given every entry between the one it opened and the one it is
\* at, although segments are completed out of order and fail behind its
\* back, and the end of the stream invalidates the handle again and again.
NothingSkipped ==
    handle.state \in {"valid", "invalid"} =>
        \A n \in Sqns : Stored(n) =>
            \A p \in 0..Len(Segment(n).cycles) - 1 :
                LET Before(a, b) == a[1] < b[1] \/ (a[1] = b[1] /\ a[2] < b[2])
                    at == <<handle.sqn, handle.pos>>
                IN  CASE handle.dir = "next" ->
                           ~Before(<<n, p>>, handle.from) /\ Before(<<n, p>>, at) =>
                               <<n, p>> \in seen
                      [] handle.dir = "previous" ->
                           ~Before(handle.from, <<n, p>>) /\ Before(at, <<n, p>>) =>
                               <<n, p>> \in seen

\* A store that was written can be opened again, and the stream then has
\* every segment whose frame is in the file.
Reloads ==
    /\ mode # "refused"
    /\ mode = "open" =>
          {n \in Sqns : Stored(n)} = {file[k].sqn : k \in DOMAIN file}

\* "Deferred equality version from Wikipedia returns the smallest index of the
\* region where entries have the same cycle count."
FindsFirstOfCycle ==
    \A n \in Sqns : Stored(n) =>
        LET cycles == Segment(n).cycles IN
        \A p \in DOMAIN cycles :
            FindCycleCountBinarySearch(cycles, cycles[p], FALSE) + 1 =
                Min({q \in DOMAIN cycles : cycles[q] = cycles[p]})

\* "an invalidated handle is not freed and may be used to retry the operation"
\* (StGetPreviousEntryFast)
RetryPossible == handle.state # "wild"

\* QPreviousValidSequenceNumber finds the segment before a sequence number.
PreviousExact ==
    \A n \in 0..Invalid :
        getPreviousSegment(n) = LargestOf({m \in Sqns : m < n /\ Allocated(m)})

=============================================================================
