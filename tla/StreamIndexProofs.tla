-------------------------- MODULE StreamIndexProofs --------------------------
(***************************************************************************)
(* The theorems about module StreamIndex and their proofs, and at the end  *)
(* those about module WorkerPool.                                          *)
(*                                                                         *)
(* The inductive invariant of the stream has three layers.  StreamInv says *)
(* what the vector of segments, the counters and the file may hold,        *)
(* whatever the cycle counts: only the last segment is appended to, and    *)
(* what is closed lies before it.  HandleInv ties a reader to it: all the  *)
(* entries between the one its handle was opened at and the one it is at   *)
(* were given to it, because a segment that can be read never disappears   *)
(* and no location a reader has passed is filled afterwards.  QueryInv     *)
(* needs cycle counts that differ between segments: then the segments      *)
(* follow one another in the file as in the stream, the ranges in the      *)
(* trees do not overlap, and each is that of a segment that can be read.   *)
(*                                                                         *)
(* The proof does not follow the vector itself.  Every step that touches   *)
(* it is shown to be Changed(n, c) for one location n, and the invariants  *)
(* are kept by any such change whose cell c meets a few conditions.        *)
(***************************************************************************)
EXTENDS StreamIndex, WorkerPool,
        SequenceTheorems, FunctionTheorems, FiniteSetTheorems, TLAPS

-----------------------------------------------------------------------------
(* The invariant                                                           *)

Cycles == 0..MaxCycle
Cell == [state : {"hole", "writing", "encoding", "stored"}, start : Nat, cycles : Seq(Cycles)]
Frame == [sqn : Sqns, start : Nat, cycles : Seq(Cycles)]

\* What a location of _segments, or a frame of the file, can be
RunOK(c) ==
    /\ c.start \in Nat /\ c.cycles \in Seq(Cycles)
    /\ Len(c.cycles) <= Capacity
    /\ c.start + Len(c.cycles) <= Capacity * Invalid
    /\ \A i, j \in 1..Len(c.cycles) : i <= j => c.cycles[i] <= c.cycles[j]

CellOK(c) ==
    /\ c \in Cell /\ RunOK(c)
    /\ c.state = "hole" => c = Hole
    /\ c.state \in {"encoding", "stored"} => c.cycles # <<>>

FrameOK(f) == f \in Frame /\ RunOK(f) /\ f.cycles # <<>>

\* The vector ends with the last segment.
VectorInv ==
    /\ segments \in Seq(Cell) /\ Len(segments) <= Invalid
    /\ \A n \in Sqns : n < Len(segments) => CellOK(Segment(n))
    /\ last \in 0..Invalid
    /\ Len(segments) = IF last = Invalid THEN 0 ELSE last + 1

\* One segment at most is appended to, and it is the last one; what is closed
\* ends before _lastAppendIndex.
AppendInv ==
    /\ lastAppend \in 0..Invalid /\ lastIndex \in 0..Capacity * Invalid /\ clock \in Cycles
    /\ \A n \in Sqns : Allocated(n) /\ Segment(n).state = "writing" => lastAppend = n
    /\ lastAppend # Invalid =>
          /\ mode = "written" /\ lastAppend = last
          /\ Allocated(last) /\ Segment(last).state = "writing" /\ Segment(last).start = lastIndex
    /\ mode = "written" =>
          /\ lastIndex + (IF lastAppend = Invalid THEN 0 ELSE Capacity) <= Capacity * Len(segments)
          /\ \A n \in Sqns : Allocated(n) =>
                /\ n # lastAppend => Segment(n).start + Len(Segment(n).cycles) <= lastIndex
                /\ \A i \in 1..Len(Segment(n).cycles) : Segment(n).cycles[i] <= clock
    /\ mode # "written" => \A n \in Sqns : Allocated(n) => Stored(n)

IndexTypes ==
    /\ trees = [t \in Types |-> trees[t]] /\ stats = [t \in Types |-> stats[t]]
    /\ \A t \in Types :
          /\ trees[t] \subseteq [start : 0..InvalidObject, end : 0..InvalidObject, sqn : Sqns]
          /\ stats[t].end \in 0..InvalidObject

FileTypes ==
    /\ file \in Seq(Frame)
    /\ \A k \in 1..Len(file) : FrameOK(file[k])
    /\ mode \in {"written", "loading", "open", "refused"}

StreamInv == VectorInv /\ AppendInv /\ IndexTypes /\ FileTypes

\* What the reader has passed
Passed(m) ==
    IF handle.dir = "next" THEN handle.from[1] <= m /\ m <= handle.sqn
                           ELSE handle.sqn <= m /\ m <= handle.from[1]

HandleTypes ==
    handle \in [state : {"none", "valid", "invalid", "null", "wild"}, dir : {"next", "previous"},
                sqn : 0..Invalid, pos : Int, from : (0..Invalid) \X Int]

\* Entry p of segment n comes before entry q of segment m.
Earlier(n, p, m, q) == n < m \/ (n = m /\ p < q)

\* The reader has passed entry p of segment n, or was given it.
PassedEntry(n, p) ==
    IF handle.dir = "next"
    THEN ~Earlier(n, p, handle.from[1], handle.from[2]) /\ Earlier(n, p, handle.sqn, handle.pos)
    ELSE ~Earlier(handle.from[1], handle.from[2], n, p) /\ Earlier(handle.sqn, handle.pos, n, p)

\* Whatever is allocated where the reader has passed can be read.
HandleAt ==
    /\ handle.sqn \in Sqns /\ handle.from[1] \in Sqns
    /\ Passed(handle.sqn) /\ Passed(handle.from[1])
    /\ \A m \in Sqns : Passed(m) /\ Allocated(m) => Stored(m)
    /\ Stored(handle.sqn) /\ Stored(handle.from[1])
    /\ handle.state = "invalid" /\ handle.dir = "next" =>
          handle.pos >= Len(Segment(handle.sqn).cycles)

AllGiven ==
    \A n \in Sqns : Stored(n) =>
        \A p \in 0..Len(Segment(n).cycles) - 1 : PassedEntry(n, p) => <<n, p>> \in seen

HandleInv ==
    /\ HandleTypes
    /\ handle.state # "none" => Readable
    /\ handle.state \in {"valid", "invalid"} => HandleAt /\ AllGiven

\* a ends before b starts.
Follows(a, b) ==
    /\ a.start + Len(a.cycles) <= b.start
    /\ a.cycles # <<>> /\ b.cycles # <<>> => a.cycles[Len(a.cycles)] < b.cycles[1]

OrderInv ==
    \A n, m \in Sqns : n < m /\ Allocated(n) /\ Allocated(m) => Follows(Segment(n), Segment(m))

\* Frame k is in the stream.
Present(k) ==
    /\ Stored(file[k].sqn)
    /\ Segment(file[k].sqn).start = file[k].start
    /\ Segment(file[k].sqn).cycles = file[k].cycles

\* The segments that can be read are the first k frames.
Frames(k) ==
    /\ \A j \in 1..k : Present(j)
    /\ \A n \in Sqns : Stored(n) => \E j \in 1..k : file[j].sqn = n

FileInv ==
    /\ \A j, k \in 1..Len(file) : j # k => file[j].sqn # file[k].sqn
    /\ \A j, k \in 1..Len(file) : file[j].sqn < file[k].sqn => Follows(file[j], file[k])
    /\ mode # "refused"
    /\ \E k \in 0..Len(file) : Frames(k) /\ (mode # "loading" => k = Len(file))

\* The ranges of the segments that can be read
RangeOf(n, t) ==
    [start |-> RangesOf(Segment(n))[t].start, end |-> RangesOf(Segment(n))[t].end, sqn |-> n]

TreeInv == \A t \in Types : trees[t] = {RangeOf(n, t) : n \in {m \in Sqns : Stored(m)}}

StatInv ==
    \A t \in Types :
        /\ \A n \in Sqns : Stored(n) =>
              stats[t].end < InvalidObject /\ RangesOf(Segment(n))[t].end <= stats[t].end
        /\ stats[t].end # InvalidObject =>
              \E n \in Sqns : Stored(n) /\ RangesOf(Segment(n))[t].end = stats[t].end

QueryInv == OrderInv /\ FileInv /\ TreeInv /\ StatInv

-----------------------------------------------------------------------------
(* Numbers                                                                 *)

\* What is needed of the largest sequence number and of the largest object
LEMMA Numbers ==
    /\ Invalid \in Nat /\ Capacity \in Nat \ {0} /\ MaxCycle \in Nat
    /\ Capacity * Invalid \in Nat
    /\ InvalidObject = MaxCycle + Capacity * Invalid + 1
    /\ Invalid \notin Sqns
    /\ \A n \in 0..Invalid : (n + 1) % (Invalid + 1) = IF n = Invalid THEN 0 ELSE n + 1
<1>1. PICK m : m = 2^Width
  OBVIOUS
<1>2. m \in Nat \ {0} /\ Capacity \in Nat \ {0} /\ MaxCycle \in Nat
  BY <1>1, StreamIndexAssumption
<1>3. Invalid = m - 1
  BY <1>1 DEF Invalid
<1>4. Invalid \in Nat
  BY <1>2, <1>3
<1>5. \A c, i \in Nat : c * i \in Nat
  OBVIOUS
<1>6. Capacity * Invalid \in Nat
  BY <1>2, <1>4, <1>5
<1>7. ASSUME NEW n \in 0..Invalid
      PROVE  (n + 1) % (Invalid + 1) = IF n = Invalid THEN 0 ELSE n + 1
  <2>1. PICK k \in Nat : k = Invalid
    BY <1>4
  <2>2. CASE n = Invalid
    BY <2>1, <2>2
  <2>3. CASE n # Invalid
    <3>1. n + 1 < k + 1 /\ n + 1 \in Nat /\ k + 1 \in Nat \ {0}
      BY <2>1, <2>3
    <3>2. \A a \in Nat, b \in Nat \ {0} : a < b => a % b = a
      OBVIOUS
    <3>3. (n + 1) % (k + 1) = n + 1
      BY <3>1, <3>2
    <3> QED
      BY <2>1, <2>3, <3>3
  <2> QED
    BY <2>2, <2>3
<1> QED
  BY <1>2, <1>4, <1>6, <1>7 DEF InvalidObject, Sqns

\* Capacity times a number
LEMMA Scaled ==
    ASSUME NEW a \in Nat, NEW b \in Nat
    PROVE  /\ Capacity * a \in Nat
           /\ Capacity * (a + 1) = Capacity * a + Capacity
           /\ a <= b => Capacity * a <= Capacity * b
<1>1. PICK c \in Nat : c = Capacity
  BY Numbers
<1>2. c * a \in Nat /\ c * (a + 1) = c * a + c
  OBVIOUS
<1>3. ASSUME a <= b PROVE c * a <= c * b
  <2>1. PICK d \in Nat : b = a + d
    BY <1>3
  <2>2. c * b = c * a + c * d /\ c * d >= 0
    BY <2>1
  <2> QED
    BY <1>2, <2>2
<1> QED
  BY <1>1, <1>2, <1>3

-----------------------------------------------------------------------------
(* The vector of segments                                                  *)

\* What a new vector needs
VectorOK(v, size) ==
    /\ v \in Seq(Cell) /\ Len(v) = size
    /\ \A m \in Sqns : m < size => CellOK(v[m + 1])

\* Location n becomes c, the others stay as they are.
Changed(n, c) ==
    /\ Allocated(n)' <=> c # Hole
    /\ c # Hole => Segment(n)' = c
    /\ \A m \in Sqns : m # n =>
          (Allocated(m)' <=> Allocated(m)) /\ (Allocated(m) => Segment(m)' = Segment(m))

\* An unused location
LEMMA HoleIsCell == CellOK(Hole)
<1>1. <<>> \in Seq(Cycles) /\ Len(<<>>) = 0
  BY EmptySeq
<1>2. Capacity \in Nat \ {0} /\ Capacity * Invalid \in Nat
  BY Numbers
<1> QED
  BY <1>1, <1>2 DEF CellOK, RunOK, Cell, Hole

\* What is allocated is in the vector.
LEMMA AllocatedCell ==
    ASSUME VectorInv, NEW n \in Sqns, Allocated(n)
    PROVE  /\ n < Len(segments) /\ n \in Nat /\ CellOK(Segment(n)) /\ Segment(n) \in Cell
           /\ Segment(n).state \in {"writing", "encoding", "stored"}
           /\ last # Invalid /\ last \in Sqns /\ n <= last
<1>1. n \in Nat /\ n < Len(segments) /\ Len(segments) \in Nat /\ last \in 0..Invalid
  BY Numbers, LenProperties DEF Sqns, VectorInv, Allocated
<1>2. CellOK(Segment(n)) /\ Segment(n) # Hole
  BY <1>1 DEF VectorInv, Allocated, Segment
<1>3. last # Invalid /\ Len(segments) = last + 1
  BY <1>1 DEF VectorInv
<1>4. last \in Sqns /\ n <= last
  BY <1>1, <1>3, Numbers DEF Sqns
<1> QED
  BY <1>1, <1>2, <1>3, <1>4 DEF CellOK, Cell

\* SetSegment changes one location.
LEMMA SetChanges ==
    ASSUME VectorInv, NEW n \in Sqns, n < Len(segments), NEW c, CellOK(c), SetSegment(n, c)
    PROVE  VectorOK(segments', Len(segments)) /\ Changed(n, c)
<1>1. n \in Nat /\ Len(segments) \in Nat /\ segments \in Seq(Cell)
  BY Numbers, LenProperties DEF Sqns, VectorInv
<1>2. n + 1 \in 1..Len(segments) /\ c \in Cell
  BY <1>1 DEF CellOK
<1>3. /\ segments' \in Seq(Cell) /\ Len(segments') = Len(segments)
      /\ \A i \in 1..Len(segments) : segments'[i] = IF i = n + 1 THEN c ELSE segments[i]
  BY <1>1, <1>2, ExceptSeq DEF SetSegment
<1>4. ASSUME NEW m \in Sqns, m < Len(segments)
      PROVE  segments'[m + 1] = IF m = n THEN c ELSE segments[m + 1]
  <2>1. m \in Nat /\ m + 1 \in 1..Len(segments)
    BY <1>1, <1>4, Numbers DEF Sqns
  <2> QED
    BY <1>1, <1>3, <2>1
<1>5. VectorOK(segments', Len(segments))
  BY <1>3, <1>4 DEF VectorOK, VectorInv, Segment
<1> QED
  BY <1>3, <1>4, <1>5 DEF Changed, Allocated, Segment

\* A vector that is extended, if needed, to reach location n
Extended(n, c) ==
    [i \in 1..(IF n < Len(segments) THEN Len(segments) ELSE n + 1) |->
        IF i = n + 1 THEN c ELSE IF i <= Len(segments) THEN segments[i] ELSE Hole]

\* A function over the first numbers is a sequence.
LEMMA FunctionIsSeq ==
    ASSUME NEW S, NEW n \in Nat, NEW f \in [1..n -> S]
    PROVE  f \in Seq(S) /\ Len(f) = n
OBVIOUS

\* A location is set, behind the end of the vector too.
LEMMA ExtendChanges ==
    ASSUME VectorInv, NEW n \in Sqns, NEW c, CellOK(c), segments' = Extended(n, c)
    PROVE  /\ VectorOK(segments', IF n < Len(segments) THEN Len(segments) ELSE n + 1)
           /\ Changed(n, c)
<1>1. n \in Nat /\ Len(segments) \in Nat /\ segments \in Seq(Cell) /\ c \in Cell /\ Hole \in Cell
  BY Numbers, LenProperties, HoleIsCell DEF Sqns, VectorInv, CellOK
<1>2. PICK size \in Nat : size = IF n < Len(segments) THEN Len(segments) ELSE n + 1
  BY <1>1
<1>3. \A i \in 1..Len(segments) : segments[i] \in Cell
  BY <1>1, ElementOfSeq
<1>4. segments' = [i \in 1..size |->
          IF i = n + 1 THEN c ELSE IF i <= Len(segments) THEN segments[i] ELSE Hole]
  BY <1>2 DEF Extended
<1>5. segments' \in [1..size -> Cell]
  BY <1>1, <1>3, <1>4
<1>6. segments' \in Seq(Cell) /\ Len(segments') = size
  BY <1>5, FunctionIsSeq
<1>7. ASSUME NEW m \in Sqns, m < size
      PROVE  /\ segments'[m + 1] = IF m = n THEN c
                                   ELSE IF m < Len(segments) THEN segments[m + 1] ELSE Hole
             /\ m \in Nat
  <2>1. m \in Nat /\ m + 1 \in 1..size
    BY <1>7, Numbers DEF Sqns
  <2> QED
    BY <1>1, <1>4, <2>1
<1>8. VectorOK(segments', size)
  <2>1. ASSUME NEW m \in Sqns, m < size PROVE CellOK(segments'[m + 1])
    BY <1>7, <2>1, HoleIsCell DEF VectorInv, Segment
  <2> QED
    BY <1>6, <2>1 DEF VectorOK
<1>9. Allocated(n)' <=> c # Hole
  BY <1>1, <1>2, <1>6, <1>7 DEF Allocated
<1>10. Segment(n)' = c
  BY <1>1, <1>2, <1>6, <1>7 DEF Segment
<1>11. ASSUME NEW m \in Sqns, m # n
       PROVE  (Allocated(m)' <=> Allocated(m)) /\ (Allocated(m) => Segment(m)' = Segment(m))
  <2>1. CASE m < size
    BY <1>1, <1>2, <1>6, <1>7, <1>11, <2>1 DEF Allocated, Segment
  <2>2. CASE ~(m < size)
    <3>1. m \in Nat
      BY Numbers DEF Sqns
    <3> QED
      BY <1>1, <1>2, <1>6, <2>2, <3>1 DEF Allocated, Segment
  <2> QED
    BY <2>1, <2>2
<1> QED
  BY <1>2, <1>8, <1>9, <1>10, <1>11 DEF Changed

\* QPreviousValidSequenceNumber for a number up to the last one
LEMMA PreviousSegment ==
    ASSUME VectorInv, NEW n \in Sqns, NEW m \in getPreviousSegment(n)
    PROVE  /\ m \in Sqns /\ m < n /\ Allocated(m)
           /\ n <= last => \A q \in Sqns : m < q /\ q < n => ~Allocated(q)
<1>1. n \in Nat /\ last \in Nat /\ \A q \in Sqns : q \in Nat
  BY Numbers DEF Sqns, VectorInv
<1>2. PICK k \in Nat : k = IF n > last THEN last ELSE n
  BY <1>1
<1>3. m \in LargestOf({q \in Sqns : q < k /\ Allocated(q)})
  BY <1>2 DEF getPreviousSegment
<1>4. m \in Sqns /\ m < k /\ Allocated(m) /\ \A q \in Sqns : q < k /\ Allocated(q) => q <= m
  BY <1>3 DEF LargestOf
<1> QED
  BY <1>1, <1>2, <1>4

\* QNextValidSequenceNumber
LEMMA NextSegment ==
    ASSUME NEW n \in Sqns, NEW m \in getNextSegment(n)
    PROVE  /\ m \in Sqns /\ n < m /\ Allocated(m)
           /\ \A q \in Sqns : n < q /\ q < m => ~Allocated(q)
<1>1. n \in 0..Invalid /\ n # Invalid /\ \A q \in Sqns : q \in Nat
  BY Numbers DEF Sqns
<1>2. (n + 1) % (Invalid + 1) = n + 1
  BY <1>1, Numbers
<1>3. m \in SmallestOf({q \in Sqns : q >= n + 1 /\ Allocated(q)})
  BY <1>2 DEF getNextSegment
<1>4. m \in Sqns /\ m >= n + 1 /\ Allocated(m) /\ \A q \in Sqns : q >= n + 1 /\ Allocated(q) => m <= q
  BY <1>3 DEF SmallestOf
<1> QED
  BY <1>1, <1>4

\* The ranges of a segment with entries
LEMMA RangeTypes ==
    ASSUME NEW c, RunOK(c), c.cycles # <<>>, NEW t \in Types
    PROVE  /\ RangesOf(c)[t].start \in 0..InvalidObject - 1
           /\ RangesOf(c)[t].end \in 0..InvalidObject - 1
           /\ RangesOf(c)[t].start <= RangesOf(c)[t].end
<1>1. /\ Len(c.cycles) \in Nat \ {0} /\ c.start \in Nat
      /\ c.start + Len(c.cycles) <= Capacity * Invalid
      /\ \A i \in 1..Len(c.cycles) : c.cycles[i] \in Cycles
  BY EmptySeq, LenProperties, ElementOfSeq DEF RunOK
<1>2. c.cycles[1] \in Cycles /\ c.cycles[Len(c.cycles)] \in Cycles
      /\ c.cycles[1] <= c.cycles[Len(c.cycles)]
  <2>1. 1 \in 1..Len(c.cycles) /\ Len(c.cycles) \in 1..Len(c.cycles) /\ 1 <= Len(c.cycles)
    BY <1>1
  <2> QED
    BY <1>1, <2>1 DEF RunOK
<1>3. PICK k \in Nat : k = Capacity * Invalid
  BY Numbers
<1>4. MaxCycle \in Nat /\ InvalidObject = MaxCycle + k + 1
  BY <1>3, Numbers
<1>5. CASE t = "index"
  <2>1. RangesOf(c)[t] = [start |-> c.start, end |-> c.start + Len(c.cycles) - 1]
    BY <1>5 DEF RangesOf, Types
  <2> QED
    BY <1>1, <1>3, <1>4, <2>1
<1>6. CASE t = "cycle"
  <2>1. RangesOf(c)[t] = [start |-> c.cycles[1], end |-> c.cycles[Len(c.cycles)]]
    BY <1>6 DEF RangesOf, Types
  <2> QED
    BY <1>2, <1>4, <2>1 DEF Cycles
<1> QED
  BY <1>5, <1>6 DEF Types

\* Of two segments with entries, the range of the first ends before that of
\* the second.
LEMMA FollowsRange ==
    ASSUME NEW c, RunOK(c), c.cycles # <<>>, NEW d, RunOK(d), d.cycles # <<>>, Follows(c, d),
           NEW t \in Types
    PROVE  RangesOf(c)[t].end < RangesOf(d)[t].start
<1>1. Len(c.cycles) \in Nat /\ c.start \in Nat /\ d.start \in Nat
  BY LenProperties DEF RunOK
<1>2. CASE t = "index"
  <2>1. RangesOf(c)[t].end = c.start + Len(c.cycles) - 1 /\ RangesOf(d)[t].start = d.start
    BY <1>2 DEF RangesOf, Types
  <2> QED
    BY <1>1, <2>1 DEF Follows
<1>3. CASE t = "cycle"
  <2>1. RangesOf(c)[t].end = c.cycles[Len(c.cycles)] /\ RangesOf(d)[t].start = d.cycles[1]
    BY <1>3 DEF RangesOf, Types
  <2> QED
    BY <2>1 DEF Follows
<1> QED
  BY <1>2, <1>3 DEF Types

\* The ranges do not depend on the state of the location.
LEMMA RangesOfRun ==
    ASSUME NEW c, NEW d, c.start = d.start, c.cycles = d.cycles
    PROVE  RangesOf(c) = RangesOf(d)
BY DEF RangesOf

-----------------------------------------------------------------------------
(* What the steps do to the vector                                         *)

\* A segment that was just allocated
Opened == [state |-> "writing", start |-> lastIndex, cycles |-> <<>>]

\* A new segment is the location behind the last one.
LEMMA AllocateFacts ==
    ASSUME StreamInv, Allocate
    PROVE  \E n \in Sqns :
              /\ n = Len(segments) /\ last' = n /\ lastAppend' = n
              /\ CellOK(Opened) /\ VectorOK(segments', n + 1) /\ Changed(n, Opened)
<1>1. PICK n \in Nat : n = Len(segments)
  BY LenProperties DEF StreamInv, VectorInv
<1>2. n = (last + 1) % (Invalid + 1) /\ n # Invalid
  <2>1. last \in 0..Invalid /\ n = IF last = Invalid THEN 0 ELSE last + 1
    BY <1>1 DEF StreamInv, VectorInv
  <2>2. n = (last + 1) % (Invalid + 1)
    BY <2>1, Numbers
  <2> QED
    BY <2>2 DEF Allocate
<1>3. n \in Sqns
  BY <1>1, <1>2, Numbers DEF StreamInv, VectorInv, Sqns
<1>4. /\ segments' = [i \in 1..n + 1 |-> IF i = n + 1 THEN Opened ELSE segments[i]]
      /\ last' = n /\ lastAppend' = n
  BY <1>2 DEF Allocate, Opened
<1>5. CellOK(Opened)
  <2>1. <<>> \in Seq(Cycles) /\ Len(<<>>) = 0
    BY EmptySeq
  <2>2. lastIndex \in Nat /\ lastIndex <= Capacity * Invalid /\ Capacity \in Nat
    BY Numbers DEF StreamInv, AppendInv
  <2> QED
    BY <2>1, <2>2 DEF CellOK, RunOK, Cell, Opened
<1>6. segments' = Extended(n, Opened)
  BY <1>1, <1>4 DEF Extended
<1>7. VectorOK(segments', n + 1) /\ Changed(n, Opened)
  BY <1>1, <1>3, <1>5, <1>6, ExtendChanges DEF StreamInv
<1> QED
  BY <1>1, <1>3, <1>4, <1>5, <1>7

\* The segment that is appended to
LEMMA AppendedTo ==
    ASSUME StreamInv, lastAppend # Invalid
    PROVE  /\ lastAppend \in Sqns /\ lastAppend = last /\ Allocated(lastAppend)
           /\ lastAppend < Len(segments) /\ lastAppend \in Nat
           /\ CellOK(Segment(lastAppend)) /\ Segment(lastAppend) \in Cell
           /\ Segment(lastAppend).state = "writing" /\ Segment(lastAppend).start = lastIndex
           /\ mode = "written" /\ Len(segments) = last + 1
           /\ lastIndex \in Nat /\ lastIndex + Capacity <= Capacity * Len(segments)
           /\ lastIndex + Capacity <= Capacity * Invalid
<1>1. lastAppend \in Sqns
  BY Numbers DEF StreamInv, AppendInv, Sqns
<1>2. /\ lastAppend = last /\ Allocated(lastAppend) /\ mode = "written" /\ lastIndex \in Nat
      /\ Segment(lastAppend).state = "writing" /\ Segment(lastAppend).start = lastIndex
      /\ lastIndex + Capacity <= Capacity * Len(segments)
  BY DEF StreamInv, AppendInv
<1>3. /\ lastAppend < Len(segments) /\ lastAppend \in Nat
      /\ CellOK(Segment(lastAppend)) /\ Segment(lastAppend) \in Cell
  BY <1>1, <1>2, AllocatedCell DEF StreamInv
<1>4. Len(segments) \in Nat /\ Len(segments) <= Invalid /\ Len(segments) = last + 1
  BY <1>2, LenProperties DEF StreamInv, VectorInv
<1>5. Capacity * Len(segments) <= Capacity * Invalid
  BY <1>4, Scaled, Numbers
<1>6. Capacity * Len(segments) \in Nat /\ Capacity * Invalid \in Nat /\ Capacity \in Nat
  BY <1>4, Scaled, Numbers
<1> QED
  BY <1>1, <1>2, <1>3, <1>4, <1>5, <1>6

\* An entry is written.
Written(c) == [Segment(lastAppend) EXCEPT !.cycles = Append(@, c)]

\* A written entry is the last of the segment that is appended to.
LEMMA WriteFacts ==
    ASSUME StreamInv, NEW c \in Cycles, WriteEntry(c)
    PROVE  /\ CellOK(Written(c)) /\ VectorOK(segments', Len(segments))
           /\ \E n \in Sqns : n = lastAppend /\ Changed(n, Written(c))
           /\ Written(c) # Hole /\ Written(c).state = "writing" /\ Written(c).start = lastIndex
<1>1. lastAppend # Invalid
  BY DEF WriteEntry
<1> DEFINE loc == Segment(lastAppend)
<1>2. /\ loc \in Cell /\ CellOK(loc) /\ loc.state = "writing" /\ loc.start = lastIndex
      /\ lastIndex \in Nat /\ lastIndex + Capacity <= Capacity * Invalid
      /\ lastAppend \in Sqns /\ lastAppend < Len(segments)
  BY <1>1, AppendedTo
<1>3. Len(loc.cycles) < Capacity /\ c >= clock /\ SetSegment(lastAppend, Written(c))
  BY DEF WriteEntry, Written
<1>4. /\ loc.cycles \in Seq(Cycles) /\ Len(loc.cycles) \in Nat
      /\ \A i \in 1..Len(loc.cycles) : loc.cycles[i] <= clock /\ loc.cycles[i] \in Cycles
  <2>1. mode = "written" /\ Allocated(lastAppend) /\ lastAppend \in Sqns
    BY <1>1, AppendedTo
  <2>2. loc.cycles \in Seq(Cycles) /\ Len(loc.cycles) \in Nat
    BY <1>2, LenProperties DEF Cell
  <2>3. \A i \in 1..Len(loc.cycles) : loc.cycles[i] <= clock
    BY <2>1 DEF StreamInv, AppendInv
  <2> QED
    BY <2>2, <2>3, ElementOfSeq
<1>5. Written(c) = [loc EXCEPT !.cycles = Append(loc.cycles, c)]
  BY DEF Written
<1> HIDE DEF loc
<1>6. PICK q : q = Append(loc.cycles, c)
  OBVIOUS
<1>7. /\ q \in Seq(Cycles) /\ Len(q) = Len(loc.cycles) + 1 /\ q[Len(loc.cycles) + 1] = c
      /\ \A i \in 1..Len(loc.cycles) : q[i] = loc.cycles[i]
  BY <1>4, <1>6, AppendProperties
<1>8. /\ Written(c).cycles = q /\ Written(c).start = lastIndex
      /\ Written(c).state = "writing" /\ Written(c) \in Cell
  BY <1>2, <1>5, <1>6, <1>7 DEF Cell
<1>9. clock \in Int /\ c \in Int
  BY Numbers DEF StreamInv, AppendInv, Cycles
<1>10. \A i, j \in 1..Len(q) : i <= j => q[i] <= q[j]
  <2> SUFFICES ASSUME NEW i \in 1..Len(q), NEW j \in 1..Len(q), i <= j PROVE q[i] <= q[j]
    OBVIOUS
  <2>1. CASE j \in 1..Len(loc.cycles)
    <3>1. i \in 1..Len(loc.cycles)
      BY <1>4, <1>7, <2>1
    <3> QED
      BY <1>2, <1>7, <2>1, <3>1 DEF CellOK, RunOK
  <2>2. CASE j = Len(loc.cycles) + 1 /\ i # j
    <3>1. i \in 1..Len(loc.cycles)
      BY <1>4, <1>7, <2>2
    <3>2. q[i] <= clock /\ q[i] \in Cycles
      BY <1>4, <1>7, <3>1, Zenon
    <3>3. q[j] = c /\ q[i] \in Int
      BY <1>7, <2>2, <3>2 DEF Cycles
    <3> QED
      BY <1>3, <1>9, <3>2, <3>3
  <2>3. CASE i = j /\ j = Len(loc.cycles) + 1
    BY <1>7, <1>9, <2>3
  <2> QED
    BY <1>4, <1>7, <2>1, <2>2, <2>3
<1>11. Len(q) <= Capacity /\ lastIndex + Len(q) <= Capacity * Invalid
  BY <1>2, <1>3, <1>4, <1>7, Numbers
<1>12. RunOK(Written(c))
  BY <1>2, <1>7, <1>8, <1>10, <1>11 DEF RunOK
<1>13. CellOK(Written(c)) /\ Written(c) # Hole
  BY <1>8, <1>12 DEF CellOK, Hole
<1>14. PICK n \in Sqns : n = lastAppend
  BY <1>2
<1>15. VectorOK(segments', Len(segments)) /\ Changed(n, Written(c))
  BY <1>2, <1>3, <1>13, <1>14, SetChanges DEF StreamInv
<1> QED
  BY <1>8, <1>13, <1>14, <1>15

\* The segment that was appended to is closed.
Closed == IF Segment(lastAppend).cycles = <<>> THEN Hole
          ELSE [Segment(lastAppend) EXCEPT !.state = "encoding"]

\* Submitting a segment closes it, or gives its number back if it is empty.
LEMMA SubmitFacts ==
    ASSUME StreamInv, Submit
    PROVE  /\ CellOK(Closed) /\ VectorOK(segments', Len(segments))
           /\ \E n \in Sqns : n = lastAppend /\ Changed(n, Closed)
           /\ Closed # Hole => /\ Closed.state = "encoding" /\ Closed.start = lastIndex
                               /\ Closed.cycles = Segment(lastAppend).cycles
<1>1. lastAppend # Invalid /\ SetSegment(lastAppend, Closed)
  BY DEF Submit, Closed
<1>2. /\ Segment(lastAppend) \in Cell /\ CellOK(Segment(lastAppend))
      /\ Segment(lastAppend).start = lastIndex
      /\ lastAppend \in Sqns /\ lastAppend < Len(segments)
  BY <1>1, AppendedTo
<1>3. /\ CellOK(Closed)
      /\ Closed # Hole => /\ Closed.state = "encoding" /\ Closed.start = lastIndex
                          /\ Closed.cycles = Segment(lastAppend).cycles
  <2>1. CASE Segment(lastAppend).cycles = <<>>
    BY <2>1, HoleIsCell DEF Closed
  <2>2. CASE Segment(lastAppend).cycles # <<>>
    <3>1. PICK d : d = [Segment(lastAppend) EXCEPT !.state = "encoding"]
      OBVIOUS
    <3>2. /\ d \in Cell /\ d.state = "encoding" /\ d.start = lastIndex
          /\ d.cycles = Segment(lastAppend).cycles
      BY <1>2, <3>1 DEF Cell
    <3>3. CellOK(d)
      BY <1>2, <2>2, <3>2 DEF CellOK, RunOK
    <3> QED
      BY <2>2, <3>1, <3>2, <3>3 DEF Closed
  <2> QED
    BY <2>1, <2>2
<1>4. PICK n \in Sqns : n = lastAppend
  BY <1>2
<1>5. VectorOK(segments', Len(segments)) /\ Changed(n, Closed)
  BY <1>1, <1>2, <1>3, <1>4, SetChanges DEF StreamInv
<1> QED
  BY <1>3, <1>4, <1>5

\* The vector after a step
LEMMA VectorKept ==
    ASSUME NEW size, VectorOK(segments', size), size <= Invalid, last' \in 0..Invalid,
           size = IF last' = Invalid THEN 0 ELSE last' + 1
    PROVE  VectorInv'
BY DEF VectorOK, VectorInv, Segment

\* A segment that is stored
Completed(loc) == [loc EXCEPT !.state = "stored"]

\* A segment that _addSegment may be called for
LocOK(loc) == loc \in Cell /\ RunOK(loc) /\ loc.cycles # <<>>

\* An encoded segment has the range it was closed with.
LEMMA CompletedCell ==
    ASSUME NEW loc, LocOK(loc)
    PROVE  /\ CellOK(Completed(loc)) /\ Completed(loc) # Hole /\ Completed(loc) \in Cell
           /\ Completed(loc).state = "stored" /\ Completed(loc).start = loc.start
           /\ Completed(loc).cycles = loc.cycles
<1>1. PICK c : c = [loc EXCEPT !.state = "stored"]
  OBVIOUS
<1>2. c \in Cell /\ c.state = "stored" /\ c.start = loc.start /\ c.cycles = loc.cycles
  BY <1>1 DEF LocOK, Cell
<1>3. RunOK(c) /\ c # Hole
  BY <1>2 DEF LocOK, RunOK, Hole
<1> QED
  BY <1>1, <1>2, <1>3 DEF CellOK, Completed, LocOK

\* _addSegment of a location that is allocated changes only that location.
LEMMA AddFacts ==
    ASSUME VectorInv, IndexTypes, lastIndex \in 0..Capacity * Invalid,
           NEW n \in Sqns, NEW loc, LocOK(loc), addSegment(n, loc)
    PROVE  /\ Changed(n, Completed(loc)) /\ VectorInv' /\ IndexTypes'
           /\ lastAppend' = lastAppend /\ lastIndex' \in 0..Capacity * Invalid
           /\ Allocated(n) => last' = last /\ lastIndex' = lastIndex /\ Len(segments') = Len(segments)
<1>1. CellOK(Completed(loc))
  BY CompletedCell
<1>2. segments' = Extended(n, Completed(loc))
  BY DEF addSegment, Extended, Completed
<1>3. PICK size : size = IF n < Len(segments) THEN Len(segments) ELSE n + 1
  OBVIOUS
<1>4. VectorOK(segments', size) /\ Changed(n, Completed(loc))
  BY <1>1, <1>2, <1>3, ExtendChanges
<1>5. last' = IF ~Allocated(n) /\ (n > last \/ last = Invalid) THEN n ELSE last
  BY DEF addSegment
<1>6. /\ n \in Nat /\ n < Invalid /\ Len(segments) \in Nat /\ last \in 0..Invalid
      /\ Len(segments) = IF last = Invalid THEN 0 ELSE last + 1
      /\ Len(segments) <= Invalid /\ (Allocated(n) => n < Len(segments))
  BY Numbers, LenProperties DEF Sqns, VectorInv, Allocated
<1>7. /\ size <= Invalid /\ last' \in 0..Invalid
      /\ size = IF last' = Invalid THEN 0 ELSE last' + 1
  BY <1>3, <1>5, <1>6, Numbers
<1>8. VectorInv'
  BY <1>4, <1>7, VectorKept
<1>9. lastIndex' \in 0..Capacity * Invalid /\ (Allocated(n) => lastIndex' = lastIndex)
  <2>1. loc.start \in 0..Capacity * Invalid
    BY Numbers, LenProperties DEF LocOK, RunOK
  <2> QED
    BY <2>1 DEF addSegment
<1>10. IndexTypes'
  <2> DEFINE r == RangesOf(loc)
  <2>1. \A t \in Types : r[t].start \in 0..InvalidObject /\ r[t].end \in 0..InvalidObject
    BY RangeTypes, Numbers DEF LocOK
  <2>2. /\ trees' = [t \in Types |-> Insert(trees[t], r[t], n)]
        /\ stats' = [t \in Types |->
              [start |-> IF r[t].start < stats[t].start THEN r[t].start ELSE stats[t].start,
               end |-> StatEnd(stats[t], r[t])]]
    BY DEF addSegment
  <2> HIDE DEF r
  <2>3. ASSUME NEW t \in Types
        PROVE  trees'[t] \subseteq [start : 0..InvalidObject, end : 0..InvalidObject, sqn : Sqns]
    <3>1. trees'[t] \subseteq trees[t] \cup {[start |-> r[t].start, end |-> r[t].end, sqn |-> n]}
      BY <2>2 DEF Insert
    <3> QED
      BY <2>1, <3>1 DEF IndexTypes
  <2>4. ASSUME NEW t \in Types PROVE stats'[t].end \in 0..InvalidObject
    BY <2>1, <2>2 DEF StatEnd, IndexTypes
  <2>5. trees' = [t \in Types |-> trees'[t]] /\ stats' = [t \in Types |-> stats'[t]]
    BY <2>2
  <2> QED
    BY <2>3, <2>4, <2>5 DEF IndexTypes
<1>11. lastAppend' = lastAppend
  BY DEF addSegment
<1>12. Allocated(n) => last' = last /\ Len(segments') = Len(segments)
  BY <1>3, <1>4, <1>5, <1>6 DEF VectorOK
<1> QED
  BY <1>4, <1>8, <1>9, <1>10, <1>11, <1>12

-----------------------------------------------------------------------------
(* The stream                                                              *)

\* addSegment with a new segment: there is room behind what was appended.
LEMMA AllocateKeeps ==
    ASSUME StreamInv, Allocate
    PROVE  StreamInv'
<1>1. PICK n \in Sqns :
        /\ n = Len(segments) /\ last' = n /\ lastAppend' = n
        /\ CellOK(Opened) /\ VectorOK(segments', n + 1) /\ Changed(n, Opened)
  BY AllocateFacts
<1>2. /\ mode = "written" /\ lastAppend = Invalid
      /\ UNCHANGED <<lastIndex, trees, stats, clock, file, mode>>
  BY DEF Allocate, Unread
<1>3. n \in Nat /\ n < Invalid /\ Invalid \in Nat /\ Capacity \in Nat
  BY Numbers DEF Sqns
<1>4. VectorInv'
  <2>1. n + 1 <= Invalid /\ n \in 0..Invalid /\ n # Invalid
    BY <1>3
  <2> QED
    BY <1>1, <2>1, VectorKept
<1>5. IndexTypes' /\ FileTypes'
  BY <1>2 DEF StreamInv, IndexTypes, FileTypes
<1>6. /\ Opened # Hole /\ Opened.state = "writing" /\ Opened.start = lastIndex
      /\ Opened.cycles = <<>> /\ Len(<<>>) = 0
  BY EmptySeq DEF Opened, Hole
<1>7. Allocated(n)' /\ Segment(n)' = Opened
  BY <1>1, <1>6 DEF Changed
<1>8. AppendInv'
  <2>1. lastIndex' + Capacity <= Capacity * Len(segments')
    <3>1. lastIndex + 0 <= Capacity * n /\ lastIndex \in Int
      BY <1>1, <1>2 DEF StreamInv, AppendInv
    <3>2. Capacity * n \in Nat /\ Capacity * (n + 1) = Capacity * n + Capacity
      BY <1>3, Scaled
    <3>3. Len(segments') = n + 1
      BY <1>1 DEF VectorOK
    <3> QED
      BY <1>2, <1>3, <3>1, <3>2, <3>3
  <2>2. ASSUME NEW m \in Sqns, Allocated(m)'
        PROVE  /\ Segment(m)'.state = "writing" => m = n
               /\ m # n => Segment(m)'.start + Len(Segment(m)'.cycles) <= lastIndex
               /\ \A i \in 1..Len(Segment(m)'.cycles) : Segment(m)'.cycles[i] <= clock
    <3>1. CASE m = n
      BY <1>6, <1>7, <3>1
    <3>2. CASE m # n
      <4>1. Allocated(m) /\ Segment(m)' = Segment(m) /\ m # Invalid
        BY <1>1, <2>2, <3>2, Numbers DEF Changed
      <4> QED
        BY <1>2, <4>1 DEF StreamInv, AppendInv
    <3> QED
      BY <3>1, <3>2
  <2>3. lastAppend' \in 0..Invalid /\ lastAppend' # Invalid
    BY <1>1, <1>3
  <2> QED
    BY <1>1, <1>2, <1>6, <1>7, <2>1, <2>2, <2>3 DEF StreamInv, AppendInv
<1> QED
  BY <1>4, <1>5, <1>8 DEF StreamInv

\* The segment that is appended to changes, with all that is older.
LEMMA WriteKeeps ==
    ASSUME StreamInv, NEW c \in Cycles, WriteEntry(c)
    PROVE  StreamInv'
<1>1. lastAppend # Invalid /\ c >= clock /\ clock' = c
      /\ UNCHANGED <<last, lastAppend, lastIndex, trees, stats, file, mode>>
  BY DEF WriteEntry, Unread
<1>2. /\ CellOK(Written(c)) /\ VectorOK(segments', Len(segments))
      /\ Written(c) # Hole /\ Written(c).state = "writing" /\ Written(c).start = lastIndex
  BY WriteFacts
<1>3. PICK n \in Sqns : n = lastAppend /\ Changed(n, Written(c))
  BY WriteFacts
<1>4. lastAppend \in Sqns /\ mode = "written" /\ lastAppend = last
  BY <1>1, AppendedTo
<1>5. VectorInv'
  BY <1>1, <1>2, VectorKept DEF StreamInv, VectorInv
<1>6. IndexTypes' /\ FileTypes'
  BY <1>1 DEF StreamInv, IndexTypes, FileTypes
<1>7. Allocated(n)' /\ Segment(n)' = Written(c)
  BY <1>2, <1>3 DEF Changed
<1>8. \A i \in 1..Len(Written(c).cycles) : Written(c).cycles[i] <= c
  <2>1. Written(c).cycles = Append(Segment(lastAppend).cycles, c) /\ c \in Int
    <3>1. Segment(lastAppend) \in Cell
      BY <1>1, AppendedTo
    <3> QED
      BY <3>1, Numbers DEF Written, Cell, Cycles
  <2>2. PICK q \in Seq(Cycles) : q = Segment(lastAppend).cycles
    BY <1>1, AppendedTo DEF Cell
  <2>3. \A i \in 1..Len(q) : q[i] <= clock /\ q[i] \in Int /\ clock \in Int
    <3>1. \A i \in 1..Len(q) : q[i] <= clock
      BY <1>1, <1>4, <2>2, AppendedTo DEF StreamInv, AppendInv
    <3>2. \A i \in 1..Len(q) : q[i] \in Cycles
      BY <2>2, ElementOfSeq
    <3> QED
      BY <3>1, <3>2, Numbers DEF StreamInv, AppendInv, Cycles
  <2>4. /\ Len(Append(q, c)) = Len(q) + 1 /\ Append(q, c)[Len(q) + 1] = c /\ Len(q) \in Nat
        /\ \A i \in 1..Len(q) : Append(q, c)[i] = q[i]
    BY <2>2, AppendProperties
  <2>5. ASSUME NEW i \in 1..Len(q) + 1 PROVE Append(q, c)[i] <= c
    <3>1. CASE i = Len(q) + 1
      BY <2>1, <2>4, <3>1
    <3>2. CASE i \in 1..Len(q)
      BY <1>1, <2>1, <2>3, <2>4, <3>2
    <3> QED
      BY <2>4, <3>1, <3>2
  <2> QED
    BY <2>1, <2>2, <2>4, <2>5
<1>9. AppendInv'
  <2>1. ASSUME NEW m \in Sqns, Allocated(m)'
        PROVE  /\ Segment(m)'.state = "writing" => m = n
               /\ m # n => Segment(m)'.start + Len(Segment(m)'.cycles) <= lastIndex
               /\ \A i \in 1..Len(Segment(m)'.cycles) : Segment(m)'.cycles[i] <= c
    <3>1. CASE m = n
      BY <1>7, <1>8, <3>1
    <3>2. CASE m # n
      <4>1. Allocated(m) /\ Segment(m)' = Segment(m)
        BY <1>3, <2>1, <3>2 DEF Changed
      <4>2. /\ Segment(m).state = "writing" => m = n
            /\ Segment(m).start + Len(Segment(m).cycles) <= lastIndex
        BY <1>4, <1>3, <3>2, <4>1 DEF StreamInv, AppendInv
      <4>3. ASSUME NEW i \in 1..Len(Segment(m).cycles) PROVE Segment(m).cycles[i] <= c
        <5>1. Segment(m).cycles[i] <= clock
          BY <1>4, <4>1 DEF StreamInv, AppendInv
        <5>2. Segment(m).cycles[i] \in Cycles
          BY <4>1, AllocatedCell, ElementOfSeq DEF StreamInv, Cell
        <5>3. Cycles \subseteq Int
          BY Numbers DEF Cycles
        <5>4. clock \in Int /\ c \in Int /\ Segment(m).cycles[i] \in Int
          BY <5>2, <5>3 DEF StreamInv, AppendInv
        <5> QED
          BY <1>1, <5>1, <5>4
      <4> QED
        BY <4>1, <4>2, <4>3
    <3> QED
      BY <3>1, <3>2
  <2>2. Len(segments') = Len(segments)
    BY <1>2 DEF VectorOK
  <2> QED
    BY <1>1, <1>2, <1>4, <1>7, <1>3, <2>1, <2>2 DEF StreamInv, AppendInv
<1> QED
  BY <1>5, <1>6, <1>9 DEF StreamInv

\* Closing a segment: the next one starts where it ends.
LEMMA SubmitKeeps ==
    ASSUME StreamInv, Submit
    PROVE  StreamInv'
<1>1. /\ lastAppend # Invalid /\ lastIndex' = lastIndex + Len(Segment(lastAppend).cycles)
      /\ lastAppend' = Invalid /\ UNCHANGED <<last, trees, stats, clock, file, mode>>
  BY DEF Submit, Unread
<1>2. /\ CellOK(Closed) /\ VectorOK(segments', Len(segments))
      /\ Closed # Hole => /\ Closed.state = "encoding" /\ Closed.start = lastIndex
                          /\ Closed.cycles = Segment(lastAppend).cycles
  BY SubmitFacts
<1>3. PICK n \in Sqns : n = lastAppend /\ Changed(n, Closed)
  BY SubmitFacts
<1>4. /\ lastAppend \in Sqns /\ mode = "written" /\ lastAppend = last
      /\ lastIndex \in Nat /\ lastIndex + Capacity <= Capacity * Len(segments)
      /\ lastIndex + Capacity <= Capacity * Invalid /\ Allocated(lastAppend)
      /\ Len(Segment(lastAppend).cycles) \in Nat /\ Len(Segment(lastAppend).cycles) <= Capacity
  BY <1>1, AppendedTo, LenProperties DEF CellOK, RunOK
<1>5. VectorInv'
  BY <1>1, <1>2, VectorKept DEF StreamInv, VectorInv
<1>6. IndexTypes' /\ FileTypes'
  BY <1>1 DEF StreamInv, IndexTypes, FileTypes
<1>7. Len(segments') = Len(segments) /\ Len(segments) \in Nat /\ Capacity * Len(segments) \in Nat
  BY <1>2, LenProperties, Scaled DEF VectorOK, StreamInv, VectorInv
<1>8. /\ lastIndex' \in 0..Capacity * Invalid /\ lastIndex' <= Capacity * Len(segments')
      /\ lastIndex <= lastIndex'
  BY <1>1, <1>4, <1>7, Numbers
<1>9. lastIndex' \in Nat /\ lastIndex <= lastIndex' /\ Len(segments') = Len(segments)
  BY <1>1, <1>4, <1>7
<1>10. AppendInv'
  <2>1. ASSUME NEW m \in Sqns, Allocated(m)'
        PROVE  /\ Segment(m)'.state # "writing"
               /\ Segment(m)'.start + Len(Segment(m)'.cycles) <= lastIndex'
               /\ \A i \in 1..Len(Segment(m)'.cycles) : Segment(m)'.cycles[i] <= clock
    <3>1. CASE m = n
      <4>1. Segment(m)' = Closed /\ Closed # Hole
        BY <1>3, <2>1, <3>1 DEF Changed
      <4> QED
        BY <1>1, <1>2, <1>4, <1>3, <3>1, <4>1 DEF StreamInv, AppendInv
    <3>2. CASE m # n
      <4>1. Allocated(m) /\ Segment(m)' = Segment(m)
        BY <1>3, <2>1, <3>2 DEF Changed
      <4>2. Segment(m).start + Len(Segment(m).cycles) <= lastIndex
        BY <1>4, <1>3, <3>2, <4>1 DEF StreamInv, AppendInv
      <4>3. Segment(m).start \in Nat /\ Len(Segment(m).cycles) \in Nat
        BY <4>1, AllocatedCell, LenProperties DEF StreamInv, Cell
      <4> QED
        <5>1. Segment(m).start + Len(Segment(m).cycles) <= lastIndex'
          BY <1>4, <1>9, <4>2, <4>3
        <5>2. Segment(m).state # "writing"
          BY <1>3, <3>2, <4>1 DEF StreamInv, AppendInv
        <5>3. \A i \in 1..Len(Segment(m).cycles) : Segment(m).cycles[i] <= clock
          BY <1>4, <4>1 DEF StreamInv, AppendInv
        <5> QED
          BY <4>1, <5>1, <5>2, <5>3
    <3> QED
      BY <3>1, <3>2
  <2>2. \A k \in Nat : k + 0 = k
    OBVIOUS
  <2>3. lastIndex' + 0 = lastIndex'
    BY <1>9, <2>2, Zenon
  <2>4. lastAppend' \in 0..Invalid
    BY <1>1, Numbers
  <2> QED
    BY <1>1, <1>4, <1>8, <2>1, <2>3, <2>4 DEF StreamInv, AppendInv
<1> QED
  BY <1>5, <1>6, <1>10 DEF StreamInv

\* A segment that is encoded is completed or dropped.
EncodedFate(n, c) ==
    /\ c = Hole \/ (c \in Cell /\ c.state = "stored" /\ c.start = Segment(n).start
                              /\ c.cycles = Segment(n).cycles)
    /\ Changed(n, c) /\ VectorInv' /\ IndexTypes' /\ Len(segments') = Len(segments)
    /\ UNCHANGED <<last, lastAppend, lastIndex, clock, mode>>

\* The end of an encoding, with or without an error, changes one location, and
\* that is not the one that is appended to.
LEMMA EncodedFacts ==
    ASSUME StreamInv, NEW n \in Sqns, Complete(n) \/ EncodeFails(n)
    PROVE  /\ Allocated(n) /\ Segment(n).state = "encoding" /\ LocOK(Segment(n))
           /\ mode = "written" /\ n # lastAppend
           /\ \E c : EncodedFate(n, c)
           /\ Complete(n) /\ Accepted(n, Segment(n)) =>
                 EncodedFate(n, Completed(Segment(n))) /\ addSegment(n, Segment(n))
           /\ EncodeFails(n) => EncodedFate(n, Hole)
           /\ Complete(n) =>
                 file' = Append(file, [sqn |-> n, start |-> Segment(n).start,
                                       cycles |-> Segment(n).cycles])
<1>1. Allocated(n) /\ Segment(n).state = "encoding"
  BY DEF Complete, EncodeFails
<1>2. /\ Segment(n) \in Cell /\ CellOK(Segment(n)) /\ LocOK(Segment(n)) /\ n < Len(segments)
  BY <1>1, AllocatedCell DEF StreamInv, CellOK, LocOK
<1>3. mode = "written" /\ n # lastAppend
  <2>1. ~Stored(n)
    BY <1>1 DEF Stored
  <2>2. lastAppend # Invalid => Segment(lastAppend).state = "writing"
    BY AppendedTo
  <2>3. n # Invalid
    BY Numbers
  <2> QED
    BY <1>1, <2>1, <2>2, <2>3 DEF StreamInv, AppendInv
<1>4. ASSUME SetSegment(n, Hole), UNCHANGED <<last, lastAppend, lastIndex, trees, stats, clock,
       mode>>
      PROVE  EncodedFate(n, Hole)
  <2>1. VectorOK(segments', Len(segments)) /\ Changed(n, Hole)
    BY <1>2, <1>4, HoleIsCell, SetChanges DEF StreamInv
  <2>2. VectorInv' /\ Len(segments') = Len(segments)
    BY <1>4, <2>1, VectorKept DEF StreamInv, VectorInv, VectorOK
  <2>3. IndexTypes'
    BY <1>4 DEF StreamInv, IndexTypes
  <2> QED
    BY <1>4, <2>1, <2>2, <2>3 DEF EncodedFate
<1>5. ASSUME addSegment(n, Segment(n)), UNCHANGED <<clock, mode>>
      PROVE  EncodedFate(n, Completed(Segment(n)))
  <2>1. lastIndex \in 0..Capacity * Invalid /\ VectorInv /\ IndexTypes
    BY DEF StreamInv, AppendInv
  <2>2. /\ Changed(n, Completed(Segment(n))) /\ VectorInv' /\ IndexTypes'
        /\ lastAppend' = lastAppend /\ last' = last /\ lastIndex' = lastIndex
        /\ Len(segments') = Len(segments)
    BY <1>1, <1>2, <1>5, <2>1, AddFacts
  <2> QED
    BY <1>2, <1>5, <2>2, CompletedCell DEF EncodedFate
<1>6. EncodeFails(n) => EncodedFate(n, Hole)
  BY <1>4 DEF EncodeFails, Unread
<1>7. Complete(n) /\ Accepted(n, Segment(n)) =>
          EncodedFate(n, Completed(Segment(n))) /\ addSegment(n, Segment(n))
  BY <1>5 DEF Complete
<1>8. Complete(n) /\ ~Accepted(n, Segment(n)) => EncodedFate(n, Hole)
  BY <1>4 DEF Complete
<1>9. Complete(n) =>
        file' = Append(file, [sqn |-> n, start |-> Segment(n).start, cycles |-> Segment(n).cycles])
  BY DEF Complete
<1> QED
  BY <1>1, <1>2, <1>3, <1>6, <1>7, <1>8, <1>9

\* completeSegment and its error path
LEMMA EncodedKeeps ==
    ASSUME StreamInv, NEW n \in Sqns, Complete(n) \/ EncodeFails(n)
    PROVE  StreamInv'
<1>1. PICK c : EncodedFate(n, c)
  BY EncodedFacts
<1>2. /\ Allocated(n) /\ Segment(n).state = "encoding" /\ LocOK(Segment(n))
      /\ mode = "written" /\ n # lastAppend
  BY EncodedFacts
<1>3. FileTypes'
  <2>1. CASE file' = file
    BY <1>1, <2>1 DEF EncodedFate, StreamInv, FileTypes
  <2>2. CASE Complete(n)
    <3>1. PICK f : f = [sqn |-> n, start |-> Segment(n).start, cycles |-> Segment(n).cycles]
      OBVIOUS
    <3>2. FrameOK(f) /\ f \in Frame
      BY <1>2, <3>1 DEF FrameOK, Frame, RunOK, LocOK
    <3>3. file' = Append(file, f)
      BY <2>2, <3>1, EncodedFacts
    <3>4. /\ file' \in Seq(Frame) /\ Len(file') = Len(file) + 1 /\ Len(file) \in Nat
          /\ \A k \in 1..Len(file) : file'[k] = file[k]
          /\ file'[Len(file) + 1] = f
      BY <3>2, <3>3, AppendProperties, LenProperties DEF StreamInv, FileTypes
    <3>5. ASSUME NEW k \in 1..Len(file') PROVE FrameOK(file'[k])
      <4>1. k \in 1..Len(file) \/ k = Len(file) + 1
        BY <3>4
      <4> QED
        BY <3>2, <3>4, <4>1 DEF StreamInv, FileTypes
    <3> QED
      BY <1>1, <3>4, <3>5 DEF EncodedFate, StreamInv, FileTypes
  <2> QED
    BY <2>1, <2>2 DEF EncodeFails, Unread
<1>4. AppendInv'
  <2>1. ASSUME NEW m \in Sqns, Allocated(m)'
        PROVE  /\ Segment(m)'.state = "writing" => m = lastAppend
               /\ m # lastAppend => Segment(m)'.start + Len(Segment(m)'.cycles) <= lastIndex
               /\ \A i \in 1..Len(Segment(m)'.cycles) : Segment(m)'.cycles[i] <= clock
    <3>1. CASE m = n
      <4>1. c # Hole /\ Segment(m)' = c
        BY <1>1, <2>1, <3>1 DEF EncodedFate, Changed
      <4>2. c.state = "stored" /\ c.start = Segment(n).start /\ c.cycles = Segment(n).cycles
        BY <1>1, <4>1 DEF EncodedFate
      <4> QED
        BY <1>2, <3>1, <4>1, <4>2 DEF StreamInv, AppendInv
    <3>2. CASE m # n
      <4>1. Allocated(m) /\ Segment(m)' = Segment(m)
        BY <1>1, <2>1, <3>2 DEF EncodedFate, Changed
      <4> QED
        BY <1>2, <4>1 DEF StreamInv, AppendInv
    <3> QED
      BY <3>1, <3>2
  <2>2. UNCHANGED <<last, lastAppend, lastIndex, clock, mode>> /\ Len(segments') = Len(segments)
    BY <1>1 DEF EncodedFate
  <2>3. ASSUME NEW m \in Sqns, m = lastAppend
        PROVE  /\ lastAppend = last /\ Allocated(m)' /\ Segment(m)' = Segment(m)
               /\ Segment(m).state = "writing" /\ Segment(m).start = lastIndex
    BY <1>1, <1>2, <2>3, AppendedTo, Numbers DEF EncodedFate, Changed
  <2>4. lastAppend # Invalid => lastAppend \in Sqns
    BY AppendedTo
  <2>5. lastAppend # Invalid => \E m \in Sqns :
           /\ m = lastAppend /\ m = last /\ Allocated(m)' /\ Segment(m)'.state = "writing"
           /\ Segment(m)'.start = lastIndex
    BY <2>3, <2>4
  <2> QED
    BY <1>2, <2>1, <2>2, <2>5 DEF StreamInv, AppendInv
<1> QED
  BY <1>1, <1>3, <1>4 DEF StreamInv, EncodedFate

\* A frame as a segment
Reloaded(k) == [state |-> "stored", start |-> file[k].start, cycles |-> file[k].cycles]

StoredSqns == {n \in Sqns : Stored(n)}

\* The number of segments that can be read
LEMMA StoredFinite == IsFiniteSet(StoredSqns) /\ Cardinality(StoredSqns) \in Nat
<1>1. 0 \in Int /\ Invalid - 1 \in Int
  BY Numbers
<1>2. IsFiniteSet(Sqns)
  BY <1>1, FS_Interval DEF Sqns
<1>3. StoredSqns \subseteq Sqns
  BY DEF StoredSqns
<1> QED
  BY <1>2, <1>3, FS_Subset, FS_CardinalityType

\* Either the next frame is added or the store is refused.
LoadStep(k, n) ==
    /\ k \in 1..Len(file) /\ k = Cardinality(StoredSqns) + 1
    /\ n \in Sqns /\ n = file[k].sqn /\ LocOK(Reloaded(k)) /\ mode = "loading"
    /\ UNCHANGED <<clock, file, handle, seen>>
    /\ IF Accepted(n, Reloaded(k)) THEN addSegment(n, Reloaded(k)) /\ UNCHANGED mode
                                   ELSE mode' = "refused" /\ UNCHANGED stream

\* Loading a frame fills the location of its number.
LEMMA LoadFacts ==
    ASSUME StreamInv, LoadFrame
    PROVE  \E k, n : LoadStep(k, n)
<1>1. PICK k : k = Cardinality(StoredSqns) + 1
  OBVIOUS
<1>2. /\ mode = "loading" /\ k <= Len(file) /\ UNCHANGED <<clock, file, handle, seen>>
      /\ IF Accepted(file[k].sqn, Reloaded(k))
         THEN addSegment(file[k].sqn, Reloaded(k)) /\ UNCHANGED mode
         ELSE mode' = "refused" /\ UNCHANGED stream
  BY <1>1 DEF LoadFrame, StoredSqns, Reloaded
<1>3. k \in 1..Len(file)
  BY <1>1, <1>2, StoredFinite, LenProperties DEF StreamInv, FileTypes
<1>4. FrameOK(file[k])
  BY <1>3 DEF StreamInv, FileTypes
<1>5. PICK n : n = file[k].sqn
  OBVIOUS
<1>6. n \in Sqns /\ LocOK(Reloaded(k))
  BY <1>4, <1>5 DEF FrameOK, Frame, Reloaded, LocOK, Cell, RunOK
<1> QED
  BY <1>1, <1>2, <1>3, <1>5, <1>6 DEF LoadStep

\* What the loader adds is a frame that was written.
LEMMA LoadKeeps ==
    ASSUME StreamInv, NEW k, NEW n, LoadStep(k, n)
    PROVE  StreamInv'
<1>1. lastAppend = Invalid /\ mode = "loading" /\ n \in Sqns /\ LocOK(Reloaded(k))
  BY DEF LoadStep, StreamInv, AppendInv
<1>2. \A m \in Sqns : Allocated(m) => Stored(m)
  BY <1>1 DEF StreamInv, AppendInv
<1>3. CASE Accepted(n, Reloaded(k))
  <2>1. addSegment(n, Reloaded(k)) /\ UNCHANGED <<mode, clock, file>>
    BY <1>3 DEF LoadStep
  <2>2. VectorInv /\ IndexTypes /\ lastIndex \in 0..Capacity * Invalid
    BY DEF StreamInv, AppendInv
  <2>3. /\ Changed(n, Completed(Reloaded(k))) /\ VectorInv' /\ IndexTypes'
        /\ lastAppend' = lastAppend /\ lastIndex' \in 0..Capacity * Invalid
    BY <1>1, <2>1, <2>2, AddFacts
  <2>4. ASSUME NEW m \in Sqns, Allocated(m)'
        PROVE  Stored(m)' /\ Segment(m)'.state # "writing"
    <3>1. CASE m = n
      BY <1>1, <2>3, <3>1, CompletedCell DEF Changed, Stored
    <3>2. CASE m # n
      BY <1>2, <2>3, <2>4, <3>2 DEF Changed, Stored
    <3> QED
      BY <3>1, <3>2
  <2>5. AppendInv'
    BY <1>1, <2>1, <2>3, <2>4 DEF StreamInv, AppendInv
  <2> QED
    BY <2>1, <2>3, <2>5 DEF StreamInv, FileTypes
<1>4. CASE ~Accepted(n, Reloaded(k))
  <2>1. mode' = "refused" /\ UNCHANGED <<stream, clock, file>>
    BY <1>4 DEF LoadStep
  <2>2. VectorInv' /\ IndexTypes' /\ FileTypes'
    BY <2>1 DEF StreamInv, VectorInv, IndexTypes, FileTypes, stream, Segment
  <2>3. AppendInv'
    BY <1>1, <1>2, <2>1 DEF StreamInv, AppendInv, stream, Allocated, Stored, Segment
  <2> QED
    BY <2>2, <2>3 DEF StreamInv
<1> QED
  BY <1>3, <1>4

\* A stream without segments
EmptyFacts ==
    /\ VectorInv /\ IndexTypes /\ \A n \in Sqns : ~Allocated(n)
    /\ lastAppend = Invalid /\ lastIndex = 0 /\ Len(segments) = 0
    /\ clock \in Cycles => AppendInv

\* A stream without segments
LEMMA EmptyStream == Empty => EmptyFacts
<1> SUFFICES ASSUME Empty PROVE EmptyFacts
  OBVIOUS
<1>1. segments \in Seq(Cell) /\ Len(segments) = 0 /\ last = Invalid
  BY EmptySeq DEF Empty
<1>2. \A n \in Sqns : ~(n < Len(segments))
  BY <1>1, Numbers DEF Sqns
<1>3. VectorInv
  BY <1>1, <1>2, Numbers DEF VectorInv
<1>4. IndexTypes
  BY Numbers DEF Empty, IndexTypes
<1>5. lastAppend = Invalid /\ lastIndex = 0 /\ \A n \in Sqns : ~Allocated(n)
  BY <1>2 DEF Empty, Allocated
<1>6. 0 \in 0..Capacity * Invalid /\ Invalid \in 0..Invalid /\ 0 + 0 <= Capacity * 0
  BY Numbers
<1>7. clock \in Cycles => AppendInv
  BY <1>1, <1>5, <1>6 DEF AppendInv
<1> QED
  BY <1>1, <1>3, <1>4, <1>5, <1>7 DEF EmptyFacts

\* The same in the next state
LEMMA EmptyStreamNext == Empty' => EmptyFacts'
BY EmptyStream, PTL

\* A store that is opened again starts with an empty stream.
LEMMA ReopenKeeps ==
    ASSUME StreamInv, Reopen
    PROVE  StreamInv' /\ Empty'
<1>1. Empty' /\ clock' = 0 /\ mode' = "loading" /\ file' = file
  BY DEF Reopen, Empty
<1>2. clock' \in Cycles
  BY <1>1, Numbers DEF Cycles
<1> QED
  BY <1>1, <1>2, EmptyStreamNext DEF EmptyFacts, StreamInv, FileTypes

\* The stream stays as it is, and the store is read.
LEMMA ReadKeeps ==
    ASSUME StreamInv, UNCHANGED <<stream, clock, file>>,
           mode' = mode \/ (mode = "loading" /\ mode' = "open")
    PROVE  StreamInv'
<1>1. VectorInv' /\ IndexTypes' /\ FileTypes'
  BY DEF StreamInv, VectorInv, IndexTypes, FileTypes, stream, Segment
<1>2. AppendInv'
  BY DEF StreamInv, AppendInv, stream, Allocated, Stored, Segment
<1> QED
  BY <1>1, <1>2 DEF StreamInv

\* Every step of the stream keeps its invariant.
LEMMA StreamKept == StreamInv /\ [Next]_vars => StreamInv'
<1> SUFFICES ASSUME StreamInv, [Next]_vars PROVE StreamInv'
  OBVIOUS
<1>1. CASE UNCHANGED vars
  BY <1>1, ReadKeeps DEF vars
<1>2. CASE Allocate \/ Submit \/ Reopen
  BY <1>2, AllocateKeeps, SubmitKeeps, ReopenKeeps
<1>3. ASSUME NEW c \in 0..MaxCycle, WriteEntry(c) PROVE StreamInv'
  BY <1>3, WriteKeeps DEF Cycles
<1>4. ASSUME NEW n \in Sqns, Complete(n) \/ EncodeFails(n) PROVE StreamInv'
  BY <1>4, EncodedKeeps
<1>5. CASE LoadFrame
  BY <1>5, LoadFacts, LoadKeeps
<1>6. CASE Loaded
  BY <1>6, ReadKeeps DEF Loaded
<1>7. ASSUME NEW dir \in Directions, NEW value \in 0..Capacity * Invalid, OpenHandle(dir, value)
      PROVE  StreamInv'
  BY <1>7, ReadKeeps DEF OpenHandle
<1>8. CASE GetNextEntry \/ GetPreviousEntry \/ CloseHandle
  BY <1>8, ReadKeeps DEF GetNextEntry, GetPreviousEntry, CloseHandle
<1> QED
  BY <1>1, <1>2, <1>3, <1>4, <1>5, <1>6, <1>7, <1>8 DEF Next

-----------------------------------------------------------------------------
(* The reader                                                              *)

\* NothingSkipped, in the terms of the invariant
LEMMA GivenIsNotSkipped == HandleInv => NothingSkipped
<1> SUFFICES ASSUME HandleInv, handle.state \in {"valid", "invalid"},
                    NEW n \in Sqns, Stored(n), NEW p \in 0..Len(Segment(n).cycles) - 1
             PROVE  LET Before(a, b) == a[1] < b[1] \/ (a[1] = b[1] /\ a[2] < b[2])
                        at == <<handle.sqn, handle.pos>>
                    IN  CASE handle.dir = "next" ->
                               ~Before(<<n, p>>, handle.from) /\ Before(<<n, p>>, at) =>
                                   <<n, p>> \in seen
                          [] handle.dir = "previous" ->
                               ~Before(handle.from, <<n, p>>) /\ Before(at, <<n, p>>) =>
                                   <<n, p>> \in seen
  BY DEF NothingSkipped
<1>1. handle.dir \in {"next", "previous"}
  BY DEF HandleInv, HandleTypes
<1>2. PassedEntry(n, p) => <<n, p>> \in seen
  BY DEF HandleInv, AllGiven
<1> QED
  BY <1>1, <1>2 DEF PassedEntry, Earlier

\* The segments that were read stay, and a segment that appears is behind all
\* of them.
Undisturbed ==
    /\ \A m \in Sqns : Stored(m) => Stored(m)' /\ Segment(m)' = Segment(m)
    /\ \A m \in Sqns : Allocated(m)' /\ ~Allocated(m) => \A q \in Sqns : Stored(q) => q < m

\* The reader does not notice what happens behind its back.
LEMMA HandleKept ==
    ASSUME HandleInv, UNCHANGED <<handle, seen>>,
           handle.state = "none" \/ (mode' = mode /\ Undisturbed)
    PROVE  HandleInv'
<1>1. HandleTypes' /\ (handle'.state # "none" => Readable')
  BY DEF HandleInv, HandleTypes, Readable
<1>2. ASSUME handle.state \in {"valid", "invalid"}
      PROVE  HandleAt' /\ AllGiven'
  <2>1. HandleAt /\ AllGiven /\ Undisturbed
    BY <1>2 DEF HandleInv
  <2>2. PICK s \in Sqns, f \in Sqns :
           s = handle.sqn /\ f = handle.from[1] /\ Stored(s) /\ Stored(f)
    BY <2>1 DEF HandleAt
  <2>3. \A m \in Sqns : Passed(m)' <=> Passed(m)
    BY DEF Passed
  <2>4. ASSUME NEW m \in Sqns, Allocated(m)', ~Stored(m)
        PROVE  ~Passed(m)
    <3>1. CASE Allocated(m)
      BY <2>1, <2>4, <3>1 DEF HandleAt
    <3>2. CASE ~Allocated(m)
      <4>1. s < m /\ f < m
        BY <2>1, <2>2, <2>4, <3>2 DEF Undisturbed
      <4>2. s \in Nat /\ f \in Nat /\ m \in Nat
        BY Numbers DEF Sqns
      <4> QED
        BY <2>2, <4>1, <4>2 DEF Passed
    <3> QED
      BY <3>1, <3>2
  <2>5. HandleAt'
    <3>1. Stored(s)' /\ Stored(f)' /\ Segment(s)' = Segment(s)
      BY <2>1, <2>2 DEF Undisturbed
    <3>2. \A m \in Sqns : Passed(m)' /\ Allocated(m)' => Stored(m)'
      BY <2>1, <2>3, <2>4 DEF Undisturbed
    <3>3. Passed(s)' /\ Passed(f)'
      BY <2>1, <2>2, <2>3 DEF HandleAt
    <3>4. handle.state = "invalid" /\ handle.dir = "next" => handle.pos >= Len(Segment(s).cycles)
      BY <2>1, <2>2 DEF HandleAt
    <3> QED
      BY <2>2, <3>1, <3>2, <3>3, <3>4 DEF HandleAt
  <2>6. ASSUME NEW m \in Sqns, Stored(m)', NEW p \in 0..Len(Segment(m)'.cycles) - 1,
               PassedEntry(m, p)'
        PROVE  <<m, p>> \in seen
    <3>1. PassedEntry(m, p)
      BY <2>6 DEF PassedEntry
    <3>2. CASE Stored(m)
      BY <2>1, <2>6, <3>1, <3>2 DEF AllGiven, Undisturbed
    <3>3. CASE ~Stored(m)
      <4>1. ~Passed(m)
        BY <2>4, <2>6, <3>3 DEF Stored
      <4>2. s \in Nat /\ f \in Nat /\ m \in Nat
        BY Numbers DEF Sqns
      <4> QED
        BY <2>2, <3>1, <4>1, <4>2 DEF Passed, PassedEntry, Earlier
    <3> QED
      BY <3>2, <3>3
  <2> QED
    BY <2>5, <2>6 DEF AllGiven
<1> QED
  BY <1>1, <1>2 DEF HandleInv

\* A location that no reader has been at changes.
LEMMA ChangedUndisturbed ==
    ASSUME VectorInv, NEW n \in Sqns, NEW c, Changed(n, c), ~Stored(n),
           Allocated(n) \/ Len(segments) <= n
    PROVE  Undisturbed
<1>1. ASSUME NEW m \in Sqns, Stored(m) PROVE Stored(m)' /\ Segment(m)' = Segment(m)
  BY <1>1 DEF Changed, Stored
<1>2. ASSUME NEW m \in Sqns, Allocated(m)', ~Allocated(m), NEW q \in Sqns, Stored(q) PROVE q < m
  <2>1. m = n /\ Len(segments) <= n
    BY <1>2 DEF Changed
  <2>2. q < Len(segments) /\ q \in Nat /\ Len(segments) \in Nat /\ n \in Nat
    BY <1>2, AllocatedCell, LenProperties, Numbers DEF Stored, VectorInv, Sqns
  <2> QED
    BY <2>1, <2>2
<1> QED
  BY <1>1, <1>2 DEF Undisturbed

\* Whatever the writer and the encoders do, no segment a reader has passed
\* disappears or changes.
LEMMA WriterUndisturbed ==
    ASSUME StreamInv, HandleInv,
           \/ Allocate \/ Submit \/ \E c \in Cycles : WriteEntry(c)
           \/ \E n \in Sqns : Complete(n) \/ EncodeFails(n)
    PROVE  HandleInv'
<1>1. UNCHANGED <<mode, handle, seen>>
  BY DEF Allocate, Submit, WriteEntry, Complete, EncodeFails, Unread
<1>2. Undisturbed
  <2>1. CASE Allocate
    <3>1. PICK n \in Sqns : n = Len(segments) /\ Changed(n, Opened)
      BY <2>1, AllocateFacts
    <3>2. n \in Nat /\ Len(segments) <= n
      BY <3>1, Numbers DEF Sqns
    <3>3. ~Stored(n)
      BY <3>1, <3>2 DEF Stored, Allocated
    <3> QED
      BY <3>1, <3>2, <3>3, ChangedUndisturbed DEF StreamInv
  <2>2. ASSUME lastAppend # Invalid, NEW n \in Sqns, n = lastAppend, NEW c, Changed(n, c)
        PROVE  Undisturbed
    <3>1. Allocated(n) /\ ~Stored(n)
      BY <2>2, AppendedTo DEF Stored
    <3> QED
      BY <2>2, <3>1, ChangedUndisturbed DEF StreamInv
  <2>3. CASE Submit
    BY <2>2, <2>3, SubmitFacts DEF Submit
  <2>4. ASSUME NEW c \in Cycles, WriteEntry(c) PROVE Undisturbed
    BY <2>2, <2>4, WriteFacts DEF WriteEntry
  <2>5. ASSUME NEW n \in Sqns, Complete(n) \/ EncodeFails(n) PROVE Undisturbed
    <3>1. PICK c : EncodedFate(n, c)
      BY <2>5, EncodedFacts
    <3>2. Allocated(n) /\ ~Stored(n)
      BY <2>5, EncodedFacts DEF Stored
    <3> QED
      BY <3>1, <3>2, ChangedUndisturbed DEF EncodedFate, StreamInv
  <2> QED
    BY <2>1, <2>3, <2>4, <2>5
<1> QED
  BY <1>1, <1>2, HandleKept

\* While the reader acts the stream stays as it is.
Still ==
    \A m \in Sqns :
        (Allocated(m)' <=> Allocated(m)) /\ (Stored(m)' <=> Stored(m)) /\ Segment(m)' = Segment(m)

\* With the same stream a reader finds the same segments.
LEMMA StreamStill ==
    ASSUME UNCHANGED stream
    PROVE  Still
BY DEF Still, stream, Allocated, Stored, Segment

\* Opening a handle, at one entry
LEMMA OpenKeeps ==
    ASSUME StreamInv, HandleInv, NEW dir \in Directions, NEW value \in 0..Capacity * Invalid,
           OpenHandle(dir, value)
    PROVE  HandleInv'
<1>1. UNCHANGED <<stream, mode>> /\ Readable /\ dir \in {"next", "previous"}
  BY StreamIndexAssumption DEF OpenHandle
<1>2. PICK v : \E n \in FindInTree("index", v) :
          /\ v \in IF dir = "next" THEN {value} ELSE Adjusted("index", value)
          /\ Stored(n)
          /\ handle' = [state |-> "valid", dir |-> dir, sqn |-> n,
                        pos |-> v - Segment(n).start, from |-> <<n, v - Segment(n).start>>]
  BY DEF OpenHandle
<1>3. PICK n \in FindInTree("index", v) :
          /\ v \in IF dir = "next" THEN {value} ELSE Adjusted("index", value)
          /\ Stored(n)
          /\ handle' = [state |-> "valid", dir |-> dir, sqn |-> n,
                        pos |-> v - Segment(n).start, from |-> <<n, v - Segment(n).start>>]
  BY <1>2
<1>4. n \in Sqns
  <2>1. PICK r \in trees["index"] : n = r.sqn
    BY DEF FindInTree
  <2>2. r \in [start : 0..InvalidObject, end : 0..InvalidObject, sqn : Sqns]
    BY <2>1 DEF StreamInv, IndexTypes, Types
  <2> QED
    BY <2>1, <2>2
<1>5. v \in Int
  <2>1. value \in Int
    BY Numbers
  <2>2. stats["index"].end \in Int
    BY Numbers DEF StreamInv, IndexTypes, Types
  <2> QED
    BY <1>3, <2>1, <2>2 DEF Adjusted
<1>6. Segment(n).start \in Int
  BY <1>3, <1>4, AllocatedCell DEF Stored, StreamInv, Cell
<1>7. PICK p \in Int : p = v - Segment(n).start
  BY <1>5, <1>6
<1>8. PICK h : h = [state |-> "valid", dir |-> dir, sqn |-> n, pos |-> p, from |-> <<n, p>>]
  OBVIOUS
<1>9. handle' = h /\ h.state = "valid" /\ h.dir = dir /\ h.sqn = n /\ h.pos = p
      /\ h.from = <<n, p>> /\ h.from[1] = n /\ h.from[2] = p /\ n \in 0..Invalid /\ n \in Nat
  BY <1>3, <1>4, <1>7, <1>8, Numbers DEF Sqns
<1>10. HandleTypes'
  <2>1. <<n, p>> \in (0..Invalid) \X Int
    BY <1>9
  <2> QED
    BY <1>1, <1>8, <1>9, <2>1 DEF HandleTypes
<1>11. HandleAt'
  <2>1. ASSUME NEW m \in Sqns PROVE Passed(m)' <=> m = n
    <3>1. m \in Nat /\ n \in Nat
      BY <1>9, Numbers DEF Sqns
    <3>2. handle'.sqn = n /\ handle'.from[1] = n
      BY <1>9
    <3> QED
      BY <3>1, <3>2 DEF Passed
  <2>2. Stored(n)'
    BY <1>1, <1>3, <1>4, StreamStill DEF Still
  <2> QED
    BY <1>4, <1>9, <2>1, <2>2 DEF HandleAt
<1>12. AllGiven'
  <2>1. ASSUME NEW m \in Sqns, NEW q \in Int PROVE ~(PassedEntry(m, q)')
    <3>1. m \in Nat
      BY Numbers DEF Sqns
    <3> QED
      BY <1>7, <1>9, <3>1 DEF PassedEntry, Earlier
  <2>2. ASSUME NEW m \in Sqns, Stored(m)', NEW q \in 0..Len(Segment(m)'.cycles) - 1 PROVE q \in Int
    <3>1. Segment(m)' = Segment(m) /\ Stored(m)
      BY <1>1, <2>2, StreamStill DEF Still
    <3>2. Len(Segment(m).cycles) \in Nat
      BY <3>1, AllocatedCell, LenProperties DEF Stored, StreamInv, Cell
    <3> QED
      BY <2>2, <3>1, <3>2
  <2> QED
    BY <2>1, <2>2 DEF AllGiven
<1> QED
  BY <1>1, <1>10, <1>11, <1>12 DEF HandleInv, Readable

\* The reader is given entry p of segment n.
LEMMA GiveFacts ==
    ASSUME HandleTypes, NEW n \in Sqns, NEW p \in Int, NEW d \in Int, Give(n, p, d)
    PROVE  /\ HandleTypes' /\ handle'.state = "valid" /\ handle'.dir = handle.dir
           /\ handle'.sqn = n /\ handle'.pos = p + d /\ handle'.from = handle.from
           /\ seen' = seen \cup {<<n, p>>}
<1>1. PICK r \in Int : r = p + d
  OBVIOUS
<1>2. /\ handle' = [handle EXCEPT !.state = "valid", !.sqn = n, !.pos = r]
      /\ seen' = seen \cup {<<n, p>>}
  BY <1>1 DEF Give
<1>3. n \in 0..Invalid
  BY Numbers DEF Sqns
<1> QED
  BY <1>1, <1>2, <1>3 DEF HandleTypes

\* The end of the stream, or a segment that cannot be read
LEMMA InvalidateKeeps ==
    ASSUME HandleInv, handle.state \in {"valid", "invalid"}, Invalidate, UNCHANGED <<stream, mode>>,
           handle.dir = "next" => handle.pos >= Len(Segment(handle.sqn).cycles)
    PROVE  HandleInv'
<1>1. handle' = [handle EXCEPT !.state = "invalid"] /\ seen' = seen
  BY DEF Invalidate
<1>2. /\ HandleTypes' /\ handle'.state = "invalid" /\ handle'.dir = handle.dir
      /\ handle'.sqn = handle.sqn /\ handle'.pos = handle.pos /\ handle'.from = handle.from
  BY <1>1 DEF HandleInv, HandleTypes
<1>3. Readable' /\ Still
  BY StreamStill DEF HandleInv, Readable
<1>4. PICK s \in Sqns, f \in Sqns : s = handle.sqn /\ f = handle.from[1]
  BY DEF HandleInv, HandleAt
<1>5. \A m \in Sqns : Passed(m)' <=> Passed(m)
  BY <1>2 DEF Passed
<1>6. HandleAt'
  BY <1>2, <1>3, <1>4, <1>5 DEF HandleInv, HandleAt, Still
<1>7. \A m, p : PassedEntry(m, p)' <=> PassedEntry(m, p)
  BY <1>2 DEF PassedEntry
<1>8. AllGiven'
  BY <1>1, <1>3, <1>7 DEF HandleInv, AllGiven, Still
<1> QED
  BY <1>2, <1>3, <1>6, <1>8 DEF HandleInv

\* Where a reader is
LEMMA ReaderAt ==
    ASSUME StreamInv, HandleInv, handle.state \in {"valid", "invalid"}
    PROVE  \E n \in Sqns, f \in Sqns, p \in Int, q \in Int :
              /\ n = handle.sqn /\ f = handle.from[1] /\ p = handle.pos /\ q = handle.from[2]
              /\ n \in Nat /\ f \in Nat /\ Stored(n) /\ Stored(f) /\ Allocated(n)
              /\ Passed(n) /\ Passed(f) /\ Len(Segment(n).cycles) \in Nat /\ n <= last
<1>1. HandleAt /\ HandleTypes
  BY DEF HandleInv
<1>2. PICK n \in Sqns : n = handle.sqn
  BY <1>1 DEF HandleAt
<1>3. PICK f \in Sqns : f = handle.from[1]
  BY <1>1 DEF HandleAt
<1>4. Stored(n) /\ Stored(f) /\ Allocated(n) /\ n \in Nat /\ f \in Nat /\ Passed(n) /\ Passed(f)
  BY <1>1, <1>2, <1>3, Numbers DEF HandleAt, Stored, Sqns
<1>5. Len(Segment(n).cycles) \in Nat /\ n <= last
  BY <1>4, AllocatedCell, LenProperties DEF StreamInv, Cell
<1>6. PICK p \in Int : p = handle.pos
  BY <1>1 DEF HandleTypes
<1>7. PICK q \in Int : q = handle.from[2]
  BY <1>1 DEF HandleTypes
<1> QED
  BY <1>2, <1>3, <1>4, <1>5, <1>6, <1>7

\* The handle moves by an entry, in the segment it is at.
LEMMA GiveHere ==
    ASSUME StreamInv, HandleInv, handle.state = "valid", UNCHANGED <<stream, mode>>,
           Give(handle.sqn, handle.pos, IF handle.dir = "next" THEN 1 ELSE -1)
    PROVE  HandleInv'
<1>1. PICK n \in Sqns, f \in Sqns, p \in Int, q \in Int :
              /\ n = handle.sqn /\ f = handle.from[1] /\ p = handle.pos /\ q = handle.from[2]
              /\ n \in Nat /\ f \in Nat /\ Stored(n) /\ Stored(f)
              /\ Passed(n) /\ Passed(f)
  BY ReaderAt
<1>2. PICK d \in {1, -1} : d = IF handle.dir = "next" THEN 1 ELSE -1
  OBVIOUS
<1>3. Give(n, p, d) /\ HandleTypes
  BY <1>1, <1>2 DEF HandleInv
<1>4. /\ HandleTypes' /\ handle'.state = "valid" /\ handle'.dir = handle.dir
      /\ handle'.sqn = n /\ handle'.pos = p + d /\ handle'.from = handle.from
      /\ seen' = seen \cup {<<n, p>>}
  BY <1>3, GiveFacts
<1>5. Readable' /\ Still
  BY StreamStill DEF HandleInv, Readable
<1>6. \A m \in Sqns : Passed(m)' <=> Passed(m)
  BY <1>1, <1>4 DEF Passed
<1>7. HandleAt'
  BY <1>1, <1>4, <1>5, <1>6 DEF HandleInv, HandleAt, Still
<1>8. AllGiven'
  <2> SUFFICES ASSUME NEW m \in Sqns, Stored(m)', NEW k \in 0..Len(Segment(m)'.cycles) - 1,
                      PassedEntry(m, k)'
               PROVE  <<m, k>> \in seen'
    BY DEF AllGiven
  <2>1. Stored(m) /\ Segment(m)' = Segment(m) /\ k \in Int /\ m \in Nat
    <3>1. Stored(m) /\ Segment(m)' = Segment(m)
      BY <1>5 DEF Still
    <3>2. Len(Segment(m).cycles) \in Nat
      BY <3>1, AllocatedCell, LenProperties DEF Stored, StreamInv, Cell
    <3> QED
      BY <3>1, <3>2, Numbers DEF Sqns
  <2>2. PassedEntry(m, k) \/ (m = n /\ k = p)
    BY <1>1, <1>2, <1>4, <2>1 DEF PassedEntry, Earlier
  <2>3. PassedEntry(m, k) => <<m, k>> \in seen
    BY <2>1 DEF HandleInv, AllGiven
  <2> QED
    BY <1>4, <2>2, <2>3
<1> QED
  BY <1>4, <1>5, <1>7, <1>8 DEF HandleInv

\* The handle moves to the first entry of the next segment, or to the last
\* one of the segment before.
LEMMA GiveThere ==
    ASSUME StreamInv, HandleInv, handle.state \in {"valid", "invalid"}, UNCHANGED <<stream, mode>>,
           NEW n, n = handle.sqn, NEW m \in Sqns, Stored(m),
           \/ /\ handle.dir = "next" /\ m \in getNextSegment(n)
              /\ handle.pos >= Len(Segment(n).cycles) /\ Give(m, 0, 1)
           \/ /\ handle.dir = "previous" /\ m \in getPreviousSegment(n)
              /\ handle.pos < 0 /\ Give(m, Len(Segment(m).cycles) - 1, -1)
    PROVE  HandleInv'
<1>1. PICK f \in Sqns, p \in Int, q \in Int :
              /\ n = handle.sqn /\ f = handle.from[1] /\ p = handle.pos /\ q = handle.from[2]
              /\ n \in Nat /\ f \in Nat /\ Stored(n) /\ Stored(f) /\ n \in Sqns
              /\ Passed(n) /\ Passed(f) /\ Len(Segment(n).cycles) \in Nat /\ n <= last
  BY ReaderAt
<1>2. handle.dir \in {"next", "previous"} /\ HandleTypes /\ m \in Nat
  BY Numbers DEF HandleInv, HandleTypes, Sqns
<1>3. /\ handle.dir = "next" => n < m /\ \A r \in Sqns : n < r /\ r < m => ~Allocated(r)
      /\ handle.dir = "previous" => m < n /\ \A r \in Sqns : m < r /\ r < n => ~Allocated(r)
  <2>1. CASE handle.dir = "next"
    BY <1>1, <2>1, NextSegment
  <2>2. CASE handle.dir = "previous"
    BY <1>1, <2>2, PreviousSegment DEF StreamInv
  <2> QED
    BY <1>2, <2>1, <2>2
<1>4. Len(Segment(m).cycles) \in Nat
  BY AllocatedCell, LenProperties DEF Stored, StreamInv, Cell
<1>5. PICK k \in Int, d \in {1, -1} :
         /\ Give(m, k, d)
         /\ handle.dir = "next" => k = 0 /\ d = 1
         /\ handle.dir = "previous" => k = Len(Segment(m).cycles) - 1 /\ d = -1
  <2>1. CASE handle.dir = "next"
    BY <2>1
  <2>2. CASE handle.dir = "previous"
    <3>2. \A a \in Nat : a - 1 \in Int
      OBVIOUS
    <3>1. PICK k \in Int : k = Len(Segment(m).cycles) - 1
      BY <1>4, <3>2
    <3> QED
      BY <2>2, <3>1
  <2> QED
    BY <1>2, <2>1, <2>2
<1>6. /\ HandleTypes' /\ handle'.state = "valid" /\ handle'.dir = handle.dir
      /\ handle'.sqn = m /\ handle'.pos = k + d /\ handle'.from = handle.from
      /\ seen' = seen \cup {<<m, k>>}
  <2>1. Give(m, k, d) /\ d \in Int
    BY <1>5
  <2> QED
    BY <1>2, <2>1, GiveFacts
<1>7. Readable' /\ Still
  BY StreamStill DEF HandleInv, Readable
<1>8. ASSUME NEW r \in Sqns, Allocated(r), Passed(r)'
      PROVE  Stored(r) /\ (r = m \/ Passed(r))
  <2>1. r \in Nat
    BY Numbers DEF Sqns
  <2>2. r = m \/ Passed(r)
    BY <1>1, <1>2, <1>3, <1>6, <1>8, <2>1 DEF Passed
  <2> QED
    BY <1>8, <2>2 DEF HandleInv, HandleAt
<1>9. HandleAt'
  <2>1. Passed(m)' /\ Passed(f)'
    BY <1>1, <1>2, <1>3, <1>6 DEF Passed
  <2>2. Stored(m)' /\ Stored(f)'
    BY <1>1, <1>7 DEF Still
  <2>3. \A r \in Sqns : Passed(r)' /\ Allocated(r)' => Stored(r)'
    BY <1>7, <1>8 DEF Still
  <2> QED
    BY <1>1, <1>6, <2>1, <2>2, <2>3 DEF HandleAt
<1>10. AllGiven'
  <2> SUFFICES ASSUME NEW r \in Sqns, Stored(r)', NEW i \in 0..Len(Segment(r)'.cycles) - 1,
                      PassedEntry(r, i)'
               PROVE  <<r, i>> \in seen'
    BY DEF AllGiven
  <2>1. Stored(r) /\ Segment(r)' = Segment(r)
    BY <1>7 DEF Still
  <2>2. r \in Nat /\ Allocated(r) /\ Len(Segment(r).cycles) \in Nat
    BY <2>1, AllocatedCell, LenProperties, Numbers DEF Stored, StreamInv, Cell, Sqns
  <2>3. i \in Int /\ 0 <= i /\ i <= Len(Segment(r).cycles) - 1
    BY <2>1, <2>2
  <2>4. CASE r = m
    <3>1. i = k
      BY <1>1, <1>2, <1>3, <1>4, <1>5, <1>6, <2>3, <2>4 DEF PassedEntry, Earlier
    <3> QED
      BY <1>6, <2>4, <3>1
  <2>5. CASE r # m
    <3>1. ~(n < r /\ r < m) /\ ~(m < r /\ r < n)
      BY <1>2, <1>3, <2>2, <1>1
    <3>2. PassedEntry(r, i)
      BY <1>1, <1>2, <1>3, <1>5, <1>6, <2>2, <2>3, <2>5, <3>1 DEF PassedEntry, Earlier
    <3>3. <<r, i>> \in seen
      BY <2>1, <2>3, <3>2 DEF HandleInv, AllGiven
    <3> QED
      BY <1>6, <3>3
  <2> QED
    BY <2>4, <2>5
<1> QED
  BY <1>6, <1>7, <1>9, <1>10 DEF HandleInv

\* StGetNextEntry
LEMMA NextKeeps ==
    ASSUME StreamInv, HandleInv, GetNextEntry
    PROVE  HandleInv'
<1>1. PICK n : n = handle.sqn
  OBVIOUS
<1>2. /\ UNCHANGED <<stream, mode>> /\ handle.dir = "next" /\ handle.state \in {"valid", "invalid"}
      /\ \/ /\ handle.state = "valid" /\ handle.pos < Len(Segment(n).cycles)
            /\ Give(n, handle.pos, 1)
         \/ /\ handle.state = "invalid" \/ handle.pos >= Len(Segment(n).cycles)
            /\ (\E m \in getNextSegment(n) : Stored(m) /\ Give(m, 0, 1)) \/ Invalidate
  BY <1>1 DEF GetNextEntry
<1>3. CASE handle.state = "valid" /\ Give(n, handle.pos, 1)
  BY <1>1, <1>2, <1>3, GiveHere
<1>4. CASE /\ handle.state = "invalid" \/ handle.pos >= Len(Segment(n).cycles)
           /\ (\E m \in getNextSegment(n) : Stored(m) /\ Give(m, 0, 1)) \/ Invalidate
  <2>1. handle.pos >= Len(Segment(n).cycles)
    BY <1>1, <1>2, <1>4 DEF HandleInv, HandleAt
  <2>2. ASSUME NEW m \in getNextSegment(n), Stored(m), Give(m, 0, 1) PROVE HandleInv'
    <3>1. m \in Sqns
      BY <2>2 DEF getNextSegment, SmallestOf
    <3> QED
      BY <1>1, <1>2, <2>1, <2>2, <3>1, GiveThere
  <2>3. CASE Invalidate
    BY <1>1, <1>2, <2>1, <2>3, InvalidateKeeps
  <2> QED
    BY <1>4, <2>2, <2>3
<1> QED
  BY <1>2, <1>3, <1>4

\* StGetPreviousEntry
LEMMA PreviousKeeps ==
    ASSUME StreamInv, HandleInv, GetPreviousEntry
    PROVE  HandleInv'
<1>1. PICK n : n = handle.sqn
  OBVIOUS
<1>2. /\ UNCHANGED <<stream, mode>> /\ handle.dir = "previous"
      /\ \/ handle.state = "valid" /\ Give(n, handle.pos, -1)
         \/ /\ handle.state = "valid" /\ handle.pos < 0
            /\ \/ \E m \in getPreviousSegment(n) :
                     Stored(m) /\ Give(m, Len(Segment(m).cycles) - 1, -1)
               \/ Invalidate
         \/ /\ handle.state \in {"invalid", "null"}
            /\ handle' = [handle EXCEPT !.state = IF handle.state = "null" THEN "wild" ELSE "null"]
            /\ UNCHANGED seen
  BY <1>1 DEF GetPreviousEntry
<1>3. CASE handle.state = "valid" /\ Give(n, handle.pos, -1)
  BY <1>1, <1>2, <1>3, GiveHere
<1>4. ASSUME handle.state = "valid", handle.pos < 0, NEW m \in getPreviousSegment(n),
             Stored(m), Give(m, Len(Segment(m).cycles) - 1, -1)
      PROVE  HandleInv'
  <2>1. m \in Sqns
    BY <1>4 DEF getPreviousSegment, LargestOf
  <2> QED
    BY <1>1, <1>2, <1>4, <2>1, GiveThere
<1>5. CASE handle.state = "valid" /\ Invalidate
  BY <1>2, <1>5, InvalidateKeeps
<1>6. CASE /\ handle.state \in {"invalid", "null"}
           /\ handle' = [handle EXCEPT !.state = IF handle.state = "null" THEN "wild" ELSE "null"]
  <2>1. HandleTypes' /\ handle'.state \in {"null", "wild"}
    BY <1>6 DEF HandleInv, HandleTypes
  <2>2. Readable'
    BY <1>2, <1>6 DEF HandleInv, Readable
  <2> QED
    BY <2>1, <2>2 DEF HandleInv
<1> QED
  BY <1>2, <1>3, <1>4, <1>5, <1>6

\* No step makes the reader skip an entry.
LEMMA HandleStep ==
    ASSUME StreamInv, HandleInv, [Next]_vars
    PROVE  HandleInv'
<1>1. CASE UNCHANGED vars
  <2>1. UNCHANGED <<stream, mode, handle, seen>>
    BY <1>1 DEF vars
  <2>2. Undisturbed
    BY <2>1, StreamStill DEF Still, Undisturbed
  <2> QED
    BY <2>1, <2>2, HandleKept
<1>2. CASE Allocate \/ Submit
  BY <1>2, WriterUndisturbed
<1>3. ASSUME NEW c \in 0..MaxCycle, WriteEntry(c) PROVE HandleInv'
  BY <1>3, WriterUndisturbed DEF Cycles
<1>4. ASSUME NEW n \in Sqns, Complete(n) \/ EncodeFails(n) PROVE HandleInv'
  BY <1>4, WriterUndisturbed
<1>5. CASE Reopen \/ LoadFrame \/ Loaded
  <2>1. UNCHANGED <<handle, seen>>
    BY <1>5 DEF Reopen, LoadFrame, Loaded
  <2>2. handle.state = "none"
    BY <1>5 DEF Reopen, LoadFrame, Loaded, NoHandle, HandleInv, Readable
  <2> QED
    BY <2>1, <2>2, HandleKept
<1>6. ASSUME NEW dir \in Directions, NEW value \in 0..Capacity * Invalid, OpenHandle(dir, value)
      PROVE  HandleInv'
  BY <1>6, OpenKeeps
<1>7. CASE GetNextEntry \/ GetPreviousEntry
  BY <1>7, NextKeeps, PreviousKeeps
<1>8. CASE CloseHandle
  <2>1. handle' = NoHandle
    BY <1>8 DEF CloseHandle
  <2>2. Invalid \in 0..Invalid /\ <<0, 0>> \in (0..Invalid) \X Int
    BY Numbers
  <2>3. HandleTypes' /\ handle'.state = "none"
    BY <2>1, <2>2 DEF HandleTypes, NoHandle
  <2> QED
    BY <2>3 DEF HandleInv
<1> QED
  BY <1>1, <1>2, <1>3, <1>4, <1>5, <1>6, <1>7, <1>8 DEF Next

-----------------------------------------------------------------------------
(* The theorems that hold with any cycle counts                            *)

\* The initial state
LEMMA InitReader == Init => StreamInv /\ HandleInv
<1> SUFFICES ASSUME Init PROVE StreamInv /\ HandleInv
  OBVIOUS
<1>1. EmptyFacts /\ clock \in Cycles
  BY EmptyStream, Numbers DEF Init, Cycles
<1>2. FileTypes
  <2>1. <<>> \in Seq(Frame) /\ Len(<<>>) = 0
    BY EmptySeq
  <2> QED
    BY <2>1 DEF Init, FileTypes
<1>3. HandleInv
  <2>1. Invalid \in 0..Invalid /\ <<0, 0>> \in (0..Invalid) \X Int
    BY Numbers
  <2> QED
    BY <2>1 DEF Init, HandleInv, HandleTypes, NoHandle
<1> QED
  BY <1>1, <1>2, <1>3 DEF StreamInv, EmptyFacts

\* The stream and the reader
LEMMA ReaderInvariant == Spec => [](StreamInv /\ HandleInv)
<1>1. Init => StreamInv /\ HandleInv
  BY InitReader
<1>2. (StreamInv /\ HandleInv) /\ [Next]_vars => (StreamInv /\ HandleInv)'
  BY StreamKept, HandleStep
<1> QED
  BY <1>1, <1>2, PTL DEF Spec

\* The vector, the trees and the statistics of a stream, its handles
THEOREM TypeCorrect == Spec => []TypeOK
<1>1. StreamInv /\ HandleInv => TypeOK
  <2> SUFFICES ASSUME StreamInv, HandleInv PROVE TypeOK
    OBVIOUS
  <2>1. \A i \in DOMAIN segments : segments[i].state \in {"hole", "writing", "encoding", "stored"}
    <3>1. \A i \in 1..Len(segments) : segments[i] \in Cell
      BY ElementOfSeq DEF StreamInv, VectorInv
    <3>2. DOMAIN segments = 1..Len(segments)
      BY LenProperties DEF StreamInv, VectorInv
    <3> QED
      BY <3>1, <3>2 DEF Cell
  <2>2. lastIndex \in 0..InvalidObject
    BY Numbers DEF StreamInv, AppendInv
  <2> QED
    BY <2>1, <2>2 DEF TypeOK, StreamInv, VectorInv, AppendInv, IndexTypes, FileTypes,
                      HandleInv, HandleTypes
<1> QED
  BY <1>1, ReaderInvariant, PTL

\* StGetNextEntry and StGetPreviousEntry skip no entry that can be read,
\* whatever is completed and whatever fails behind the back of the reader.
THEOREM ReaderSkipsNothing == Spec => []NothingSkipped
<1>1. HandleInv => NothingSkipped
  BY GivenIsNotSkipped
<1> QED
  BY <1>1, ReaderInvariant, PTL

-----------------------------------------------------------------------------
(* The queries                                                             *)

\* A segment that can be read has a run of entries.
LEMMA StoredLoc ==
    ASSUME VectorInv, NEW n \in Sqns, Stored(n)
    PROVE  /\ LocOK(Segment(n)) /\ Allocated(n) /\ n \in Nat
           /\ Segment(n).start \in Nat /\ Segment(n).cycles \in Seq(Cycles)
<1>1. Allocated(n) /\ Segment(n).state = "stored"
  BY DEF Stored
<1>2. CellOK(Segment(n)) /\ Segment(n) \in Cell /\ n \in Nat
  BY <1>1, AllocatedCell
<1> QED
  BY <1>1, <1>2 DEF CellOK, LocOK, Cell

\* Where a location can be filled: the segments that are allocated before it
\* end before it, those behind it start behind it.
Fits(n, c) ==
    \A m \in Sqns : Allocated(m) /\ m # n =>
        (m < n => Follows(Segment(m), c)) /\ (n < m => Follows(c, Segment(m)))

\* A change of one location keeps the segments in order.
LEMMA OrderKept ==
    ASSUME OrderInv, NEW n \in Sqns, NEW c, Changed(n, c), c = Hole \/ Fits(n, c)
    PROVE  OrderInv'
<1> SUFFICES ASSUME NEW a \in Sqns, NEW b \in Sqns, a < b, Allocated(a)', Allocated(b)'
             PROVE  Follows(Segment(a)', Segment(b)')
  BY DEF OrderInv
<1>1. a \in Nat /\ b \in Nat /\ n \in Nat /\ a # b
  BY Numbers DEF Sqns
<1>2. CASE a = n
  <2>1. Segment(a)' = c /\ c # Hole /\ Allocated(b) /\ Segment(b)' = Segment(b)
    BY <1>1, <1>2 DEF Changed
  <2> QED
    BY <1>1, <1>2, <2>1 DEF Fits
<1>3. CASE b = n
  <2>1. Segment(b)' = c /\ c # Hole /\ Allocated(a) /\ Segment(a)' = Segment(a)
    BY <1>1, <1>3 DEF Changed
  <2> QED
    BY <1>1, <1>3, <2>1 DEF Fits
<1>4. CASE a # n /\ b # n
  BY <1>4 DEF Changed, OrderInv
<1> QED
  BY <1>2, <1>3, <1>4

\* What fits is accepted by _addSegment.
LEMMA FitIsAccepted ==
    ASSUME VectorInv, NEW n \in Sqns, NEW loc, LocOK(loc), Fits(n, loc)
    PROVE  Accepted(n, loc)
<1>1. ASSUME NEW m \in getPreviousSegment(n), Violates(loc, m, TRUE) PROVE FALSE
  <2>1. m \in Sqns /\ m < n /\ Allocated(m) /\ Stored(m)
    BY <1>1, PreviousSegment DEF Violates
  <2>2. m # n /\ Follows(Segment(m), loc) /\ LocOK(Segment(m))
    BY <2>1, StoredLoc, Numbers DEF Fits, Sqns
  <2>3. PICK t \in Types : RangesOf(loc)[t].start <= RangesOf(Segment(m))[t].end
    BY <1>1 DEF Violates
  <2>4. RangesOf(Segment(m))[t].end < RangesOf(loc)[t].start
    BY <2>2, FollowsRange DEF LocOK
  <2>5. RangesOf(Segment(m))[t].end \in Int /\ RangesOf(loc)[t].start \in Int
    BY <2>2, RangeTypes, Numbers DEF LocOK
  <2> QED
    BY <2>3, <2>4, <2>5
<1>2. ASSUME NEW m \in getNextSegment(n), Violates(loc, m, FALSE) PROVE FALSE
  <2>1. m \in Sqns /\ n < m /\ Allocated(m) /\ Stored(m)
    BY <1>2, NextSegment DEF Violates
  <2>2. m # n /\ Follows(loc, Segment(m)) /\ LocOK(Segment(m))
    BY <2>1, StoredLoc, Numbers DEF Fits, Sqns
  <2>3. PICK t \in Types : RangesOf(loc)[t].end >= RangesOf(Segment(m))[t].start
    BY <1>2 DEF Violates
  <2>4. RangesOf(loc)[t].end < RangesOf(Segment(m))[t].start
    BY <2>2, FollowsRange DEF LocOK
  <2>5. RangesOf(loc)[t].end \in Int /\ RangesOf(Segment(m))[t].start \in Int
    BY <2>2, RangeTypes, Numbers DEF LocOK
  <2> QED
    BY <2>3, <2>4, <2>5
<1> QED
  BY <1>1, <1>2 DEF Accepted

\* The segments that can be read stay the same.
SameStored ==
    \A m \in Sqns : (Stored(m)' <=> Stored(m)) /\ (Stored(m) => Segment(m)' = Segment(m))

\* A change of a segment that cannot be read before or after
LEMMA ChangedSame ==
    ASSUME NEW n \in Sqns, NEW c, Changed(n, c), ~Stored(n), c.state # "stored"
    PROVE  SameStored
BY DEF SameStored, Changed, Stored

\* With the same segments the queries work as before.
LEMMA IndexSame ==
    ASSUME TreeInv, StatInv, SameStored, UNCHANGED <<trees, stats>>
    PROVE  TreeInv' /\ StatInv'
<1>1. \A m \in Sqns : (Stored(m)' <=> Stored(m)) /\ (Stored(m) => Segment(m)' = Segment(m))
  BY DEF SameStored
<1>2. \A t \in Types, m \in Sqns : Stored(m) =>
         RangeOf(m, t)' = RangeOf(m, t) /\ RangesOf(Segment(m)') = RangesOf(Segment(m))
  BY <1>1 DEF RangeOf
<1>3. TreeInv'
  <2> SUFFICES ASSUME NEW t \in Types
               PROVE  trees'[t] = {RangeOf(n, t)' : n \in {m \in Sqns : Stored(m)'}}
    BY DEF TreeInv
  <2>1. trees[t] = {RangeOf(n, t) : n \in {m \in Sqns : Stored(m)}}
    BY DEF TreeInv
  <2> QED
    BY <1>1, <1>2, <2>1
<1>4. StatInv'
  BY <1>1, <1>2 DEF StatInv
<1> QED
  BY <1>3, <1>4

\* Ranges of segments in order differ.
LEMMA OrderedRanges ==
    ASSUME VectorInv, OrderInv, NEW n \in Sqns, NEW m \in Sqns, Stored(n), Stored(m), n < m,
           NEW t \in Types
    PROVE  /\ RangesOf(Segment(n))[t].start \in Int /\ RangesOf(Segment(n))[t].end \in Int
           /\ RangesOf(Segment(m))[t].start \in Int /\ RangesOf(Segment(m))[t].end \in Int
           /\ RangesOf(Segment(n))[t].start <= RangesOf(Segment(n))[t].end
           /\ RangesOf(Segment(n))[t].end < RangesOf(Segment(m))[t].start
           /\ RangesOf(Segment(m))[t].start <= RangesOf(Segment(m))[t].end
<1>1. LocOK(Segment(n)) /\ LocOK(Segment(m)) /\ Allocated(n) /\ Allocated(m)
  BY StoredLoc
<1>2. Follows(Segment(n), Segment(m))
  BY <1>1 DEF OrderInv
<1>3. RangesOf(Segment(n))[t].end < RangesOf(Segment(m))[t].start
  BY <1>1, <1>2, FollowsRange DEF LocOK
<1>4. \A i \in 0..InvalidObject - 1 : i \in Int
  OBVIOUS
<1>5. /\ RangesOf(Segment(n))[t].start \in Int /\ RangesOf(Segment(n))[t].end \in Int
      /\ RangesOf(Segment(n))[t].start <= RangesOf(Segment(n))[t].end
  BY <1>1, <1>4, RangeTypes DEF LocOK
<1>6. /\ RangesOf(Segment(m))[t].start \in Int /\ RangesOf(Segment(m))[t].end \in Int
      /\ RangesOf(Segment(m))[t].start <= RangesOf(Segment(m))[t].end
  BY <1>1, <1>4, RangeTypes DEF LocOK
<1> QED
  BY <1>3, <1>5, <1>6

\* Location n was added: its ranges differ from those of the others.
Added(n, loc) ==
    /\ ~Stored(n) /\ Stored(n)'
    /\ \A m \in Sqns : m # n => (Stored(m)' <=> Stored(m)) /\ (Stored(m) => Segment(m)' = Segment(m))
    /\ \A t \in Types : RangesOf(Segment(n)')[t] = RangesOf(loc)[t]

\* A location that becomes stored adds its segment, and no other.
LEMMA AddedFacts ==
    ASSUME NEW n \in Sqns, NEW loc, LocOK(loc), Changed(n, Completed(loc)), ~Stored(n)
    PROVE  Added(n, loc)
<1>1. PICK c : c = Completed(loc)
  OBVIOUS
<1>2. c # Hole /\ c.state = "stored" /\ c.start = loc.start /\ c.cycles = loc.cycles
  BY <1>1, CompletedCell
<1>3. Segment(n)' = c /\ Stored(n)'
  BY <1>1, <1>2 DEF Changed, Stored
<1>4. RangesOf(c) = RangesOf(loc)
  BY <1>2, RangesOfRun
<1>5. ASSUME NEW m \in Sqns, m # n
      PROVE  (Stored(m)' <=> Stored(m)) /\ (Stored(m) => Segment(m)' = Segment(m))
  BY <1>5 DEF Changed, Stored
<1> QED
  BY <1>3, <1>4, <1>5 DEF Added

\* A segment that is added is found by the queries.
LEMMA IndexGains ==
    ASSUME VectorInv, IndexTypes, TreeInv, StatInv, NEW n \in Sqns, NEW loc, LocOK(loc),
           addSegment(n, loc), Added(n, loc), Fits(n, loc)
    PROVE  TreeInv' /\ StatInv'
<1>1. ASSUME NEW t \in Types
      PROVE  /\ trees'[t] = {RangeOf(m, t)' : m \in {i \in Sqns : Stored(i)'}}
             /\ \A m \in Sqns : Stored(m)' =>
                   /\ stats'[t].end < InvalidObject
                   /\ RangesOf(Segment(m)')[t].end <= stats'[t].end
             /\ stats'[t].end # InvalidObject =>
                   \E m \in Sqns : Stored(m)' /\ RangesOf(Segment(m)')[t].end = stats'[t].end
  <2> DEFINE r == RangesOf(loc)[t]
  <2>1. /\ r.start \in 0..InvalidObject - 1 /\ r.end \in 0..InvalidObject - 1 /\ r.start <= r.end
        /\ InvalidObject \in Nat
    BY RangeTypes, Numbers DEF LocOK
  <2>2. /\ trees'[t] = Insert(trees[t], r, n) /\ stats'[t].end = StatEnd(stats[t], r)
    BY DEF addSegment
  <2>3. RangesOf(Segment(n)')[t] = r
    BY DEF Added
  <2> HIDE DEF r
  <2>4. ASSUME NEW m \in Sqns, Stored(m)
        PROVE  /\ m # n /\ RangesOf(Segment(m))[t].start # r.start
               /\ RangesOf(Segment(m))[t].end \in 0..InvalidObject - 1
    <3>1. m # n /\ LocOK(Segment(m)) /\ Allocated(m) /\ m \in Nat /\ n \in Nat
      BY <2>4, StoredLoc, Numbers DEF Added, Sqns
    <3>2. /\ RangesOf(Segment(m))[t].start \in 0..InvalidObject - 1
          /\ RangesOf(Segment(m))[t].end \in 0..InvalidObject - 1
          /\ RangesOf(Segment(m))[t].start <= RangesOf(Segment(m))[t].end
      BY <3>1, RangeTypes DEF LocOK
    <3>3. m < n => RangesOf(Segment(m))[t].end < r.start
      BY <3>1, FollowsRange DEF Fits, LocOK, r
    <3>4. n < m => r.end < RangesOf(Segment(m))[t].start
      BY <3>1, FollowsRange DEF Fits, LocOK, r
    <3> QED
      BY <2>1, <3>1, <3>2, <3>3, <3>4
  <2>5. trees[t] = {RangeOf(m, t) : m \in {i \in Sqns : Stored(i)}}
    BY DEF TreeInv
  <2>6. ~ \E q \in trees[t] : q.start = r.start
    BY <2>4, <2>5 DEF RangeOf
  <2>7. trees'[t] = trees[t] \cup {[start |-> r.start, end |-> r.end, sqn |-> n]}
    BY <2>2, <2>6 DEF Insert
  <2>8. RangeOf(n, t)' = [start |-> r.start, end |-> r.end, sqn |-> n]
    BY <2>3 DEF RangeOf
  <2>9. \A m \in Sqns : Stored(m) => RangeOf(m, t)' = RangeOf(m, t)
    BY <2>4 DEF RangeOf, Added
  <2>10. \A m \in Sqns : Stored(m)' <=> Stored(m) \/ m = n
    BY DEF Added
  <2>11. trees'[t] = {RangeOf(m, t)' : m \in {i \in Sqns : Stored(i)'}}
    BY <2>5, <2>7, <2>8, <2>9, <2>10
  <2>12. stats[t].end \in 0..InvalidObject
    BY DEF IndexTypes
  <2>13. \A m \in Sqns : Stored(m) =>
            stats[t].end < InvalidObject /\ RangesOf(Segment(m))[t].end <= stats[t].end
    BY DEF StatInv
  <2>14. stats'[t].end = IF r.end > stats[t].end \/ stats[t].end = InvalidObject THEN r.end
                         ELSE stats[t].end
    BY <2>2 DEF StatEnd
  <2>15. \A m \in Sqns : Stored(m) => RangesOf(Segment(m)')[t] = RangesOf(Segment(m))[t]
    BY <2>4 DEF Added
  <2>16. ASSUME NEW m \in Sqns, Stored(m)'
         PROVE  stats'[t].end < InvalidObject /\ RangesOf(Segment(m)')[t].end <= stats'[t].end
    <3>1. CASE m = n
      BY <2>1, <2>3, <2>12, <2>14, <3>1
    <3>2. CASE m # n
      <4>1. Stored(m) /\ RangesOf(Segment(m)')[t] = RangesOf(Segment(m))[t]
        BY <2>10, <2>15, <2>16, <3>2
      <4> QED
        BY <2>1, <2>4, <2>12, <2>13, <2>14, <4>1
    <3> QED
      BY <3>1, <3>2
  <2>17. ASSUME stats'[t].end # InvalidObject
         PROVE  \E m \in Sqns : Stored(m)' /\ RangesOf(Segment(m)')[t].end = stats'[t].end
    <3>1. CASE stats'[t].end = r.end
      BY <2>3, <2>10, <3>1
    <3>2. CASE stats'[t].end = stats[t].end
      <4>1. PICK m \in Sqns : Stored(m) /\ RangesOf(Segment(m))[t].end = stats[t].end
        BY <2>17, <3>2 DEF StatInv
      <4> QED
        BY <2>10, <2>15, <3>2, <4>1
    <3> QED
      BY <2>14, <3>1, <3>2
  <2> QED
    BY <2>11, <2>16, <2>17
<1> QED
  BY <1>1 DEF TreeInv, StatInv

-----------------------------------------------------------------------------
(* What fits                                                               *)

\* What fits depends on the entries only.
LEMMA FitsRun ==
    ASSUME NEW n, NEW c, NEW d, Fits(n, c), c.start = d.start, c.cycles = d.cycles
    PROVE  Fits(n, d)
BY DEF Fits, Follows

\* A location that keeps its entries
LEMMA FitsAsBefore ==
    ASSUME OrderInv, NEW n \in Sqns, Allocated(n), NEW c,
           c.start = Segment(n).start, c.cycles = Segment(n).cycles
    PROVE  Fits(n, c)
<1>1. Fits(n, Segment(n))
  BY DEF Fits, OrderInv
<1>2. PICK d : d = Segment(n)
  OBVIOUS
<1> QED
  BY <1>1, <1>2, FitsRun

\* A new segment starts where the last one ended.
LEMMA OpenedFits ==
    ASSUME StreamInv, mode = "written", lastAppend = Invalid, NEW n \in Sqns, n = Len(segments)
    PROVE  Fits(n, Opened)
<1> SUFFICES ASSUME NEW m \in Sqns, Allocated(m), m # n
             PROVE  m < n /\ Follows(Segment(m), Opened) /\ ~(n < m)
  BY DEF Fits
<1>1. m < n /\ m \in Nat /\ n \in Nat /\ m # lastAppend
  BY AllocatedCell, Numbers DEF StreamInv, Sqns
<1>2. Segment(m).start + Len(Segment(m).cycles) <= lastIndex
  BY <1>1 DEF StreamInv, AppendInv
<1> QED
  BY <1>1, <1>2 DEF Follows, Opened

\* The first entry of a segment is written later than the last one of the
\* segments before: without ties at a larger cycle count.
LEMMA WrittenFits ==
    ASSUME StreamInv, OrderInv, ~Ties, NEW c \in Cycles, WriteEntry(c),
           NEW n \in Sqns, n = lastAppend
    PROVE  Fits(n, Written(c))
<1> SUFFICES ASSUME NEW m \in Sqns, Allocated(m), m # n
             PROVE  m < n /\ Follows(Segment(m), Written(c)) /\ ~(n < m)
  BY DEF Fits
<1>1. lastAppend # Invalid /\ Allocated(n) /\ n = last /\ mode = "written" /\ Segment(n) \in Cell
  BY Numbers, AppendedTo
<1>2. m < n /\ m \in Nat /\ n \in Nat
  <2>1. m <= last /\ m \in Nat /\ n \in Nat
    BY AllocatedCell, Numbers DEF StreamInv, Sqns
  <2> QED
    BY <1>1, <2>1
<1>3. Follows(Segment(m), Segment(n))
  BY <1>1, <1>2 DEF OrderInv
<1>4. PICK q \in Seq(Cycles) : q = Segment(n).cycles
  BY <1>1 DEF Cell
<1>5. Written(c).start = Segment(n).start /\ Written(c).cycles = Append(q, c)
  BY <1>1, <1>4 DEF Written, Cell
<1>6. /\ Segment(m).start \in Nat /\ Segment(m).cycles \in Seq(Cycles)
      /\ Len(Segment(m).cycles) \in Nat
  BY AllocatedCell, LenProperties DEF StreamInv, Cell
<1>7. ASSUME Segment(m).cycles # <<>>
      PROVE  Segment(m).cycles[Len(Segment(m).cycles)] < Append(q, c)[1]
  <2>1. CASE q # <<>>
    <3>1. Append(q, c)[1] = q[1]
      <4>1. Len(q) \in Nat \ {0}
        BY <2>1, EmptySeq, LenProperties
      <4> QED
        BY <4>1, AppendProperties
    <3> QED
      BY <1>3, <1>4, <1>7, <2>1, <3>1 DEF Follows
  <2>2. CASE q = <<>>
    <3>1. Append(q, c)[1] = c
      BY <2>2
    <3>2. Len(Segment(m).cycles) \in Nat \ {0}
      BY <1>6, <1>7, EmptySeq
    <3>3. lastIndex > 0
      <4>1. Segment(m).start + Len(Segment(m).cycles) <= lastIndex /\ lastIndex \in Int
        BY <1>1, Numbers DEF StreamInv, AppendInv
      <4> QED
        BY <1>6, <3>2, <4>1
    <3>4. c > clock
      BY <1>4, <2>2, <3>3 DEF WriteEntry
    <3>5. Len(Segment(m).cycles) \in 1..Len(Segment(m).cycles)
      BY <3>2
    <3>6. Segment(m).cycles[Len(Segment(m).cycles)] <= clock
      BY <1>1, <3>5 DEF StreamInv, AppendInv
    <3>7. Segment(m).cycles[Len(Segment(m).cycles)] \in Cycles
      BY <1>6, <3>5, ElementOfSeq
    <3>8. Cycles \subseteq Int
      BY Numbers DEF Cycles
    <3>9. clock \in Int /\ c \in Int /\ Segment(m).cycles[Len(Segment(m).cycles)] \in Int
      BY <3>7, <3>8 DEF StreamInv, AppendInv
    <3> QED
      BY <3>1, <3>4, <3>6, <3>9
  <2> QED
    BY <2>1, <2>2
<1>8. Follows(Segment(m), Written(c))
  BY <1>3, <1>5, <1>7 DEF Follows
<1> QED
  BY <1>2, <1>8

-----------------------------------------------------------------------------
(* The file                                                                *)

\* Where the frames of the segments that can be read are in the file
FileOrder ==
    /\ \A j, k \in 1..Len(file) : j # k => file[j].sqn # file[k].sqn
    /\ \A j, k \in 1..Len(file) : file[j].sqn < file[k].sqn => Follows(file[j], file[k])

\* As many segments can be read as there are frames for them.
LEMMA FrameCount ==
    ASSUME FileTypes, FileOrder, NEW k \in 0..Len(file), Frames(k)
    PROVE  Cardinality(StoredSqns) = k
<1>1. Len(file) \in Nat /\ k \in Nat
  BY LenProperties DEF FileTypes
<1> DEFINE f == [j \in 1..k |-> file[j].sqn]
<1>2. \A j \in 1..k : j \in 1..Len(file)
  BY <1>1
<1>3. \A j \in 1..k : file[j].sqn \in StoredSqns
  BY <1>2 DEF Frames, Present, StoredSqns, FileTypes, FrameOK, Frame
<1>4. f \in [1..k -> StoredSqns]
  BY <1>3
<1>5. \A a, b \in 1..k : f[a] = f[b] => a = b
  BY <1>2 DEF FileOrder
<1>6. \A n \in StoredSqns : \E j \in 1..k : f[j] = n
  BY DEF Frames, StoredSqns
<1> HIDE DEF f
<1>7. f \in Bijection(1..k, StoredSqns)
  BY <1>4, <1>5, <1>6, Fun_IsBij
<1>8. ExistsBijection(1..k, StoredSqns)
  BY <1>7, Fun_ExistsBij
<1>9. 1 \in Int /\ k \in Int
  BY <1>1
<1>10. IsFiniteSet(1..k) /\ Cardinality(1..k) = k
  BY <1>1, <1>9, FS_Interval
<1> QED
  BY <1>8, <1>10, FS_Bijection

\* The file and the segments that can be read stay the same.
LEMMA FileSame ==
    ASSUME FileTypes, FileInv, SameStored, UNCHANGED file, mode' = mode
    PROVE  FileInv'
<1>1. PICK k \in 0..Len(file) : Frames(k) /\ (mode # "loading" => k = Len(file))
  BY DEF FileInv
<1>2. \A j \in 1..k : j \in 1..Len(file)
  BY LenProperties DEF FileTypes
<1>3. \A j \in 1..k : file[j].sqn \in Sqns
  BY <1>2 DEF FileTypes, FrameOK, Frame
<1>4. \A j \in 1..k : Present(j)'
  BY <1>1, <1>3 DEF Frames, Present, SameStored
<1>5. Frames(k)'
  BY <1>1, <1>4 DEF Frames, SameStored
<1> QED
  BY <1>1, <1>5 DEF FileInv

-----------------------------------------------------------------------------
(* What the steps do to the queries                                        *)

\* An encoder completes a segment: its frame is the last one of the file.
LEMMA CompleteQuery ==
    ASSUME StreamInv, QueryInv, NEW n \in Sqns, Complete(n)
    PROVE  QueryInv'
<1>1. /\ Allocated(n) /\ Segment(n).state = "encoding" /\ LocOK(Segment(n)) /\ mode = "written"
      /\ Fits(n, Segment(n)) /\ ~Stored(n) /\ VectorInv /\ IndexTypes /\ FileTypes
  BY EncodedFacts, FitsAsBefore DEF QueryInv, Stored, StreamInv
<1>2. PICK loc : loc = Segment(n)
  OBVIOUS
<1>3. Accepted(n, loc)
  BY <1>1, <1>2, FitIsAccepted
<1>4. EncodedFate(n, Completed(loc)) /\ addSegment(n, loc)
  BY <1>2, <1>3, EncodedFacts
<1>5. Changed(n, Completed(loc)) /\ mode' = mode /\ LocOK(loc) /\ Fits(n, loc)
  BY <1>1, <1>2, <1>4 DEF EncodedFate
<1>6. /\ Completed(loc) # Hole /\ Completed(loc).start = loc.start
      /\ Completed(loc).cycles = loc.cycles
  BY <1>5, CompletedCell
<1>7. OrderInv'
  <2>1. Fits(n, Completed(loc))
    BY <1>5, <1>6, FitsRun
  <2> QED
    BY <1>5, <2>1, OrderKept DEF QueryInv
<1>8. Added(n, loc)
  BY <1>1, <1>5, AddedFacts
<1>9. TreeInv' /\ StatInv'
  BY <1>1, <1>4, <1>5, <1>8, IndexGains DEF QueryInv
<1>10. PICK f : f = [sqn |-> n, start |-> loc.start, cycles |-> loc.cycles]
  OBVIOUS
<1>11. /\ file' = Append(file, f) /\ f.sqn = n /\ f.start = loc.start /\ f.cycles = loc.cycles
  BY <1>2, <1>10, EncodedFacts
<1>12. /\ file \in Seq(Frame) /\ Len(file) \in Nat
       /\ \A j \in 1..Len(file) : file[j].sqn \in Sqns /\ file[j] \in Frame
  BY <1>1, LenProperties DEF FileTypes, FrameOK, Frame
<1>13. f \in Frame
  BY <1>5, <1>10 DEF LocOK, Cell, Frame
<1>14. PICK k \in Nat : k = Len(file)
  BY <1>12
<1>15. /\ Len(file') = k + 1 /\ file'[k + 1] = f /\ \A j \in 1..k : file'[j] = file[j]
  BY <1>11, <1>12, <1>13, <1>14, AppendProperties
<1>16. Frames(k)
  BY <1>1, <1>14 DEF QueryInv, FileInv
<1>17. \A j \in 1..k : /\ Present(j) /\ file[j].sqn # n /\ Allocated(file[j].sqn)
                       /\ file[j].sqn \in Sqns
  BY <1>1, <1>12, <1>14, <1>16 DEF Frames, Present, Stored
<1>18. ASSUME NEW i \in 1..k + 1, NEW j \in 1..k + 1
       PROVE  /\ i # j => file'[i].sqn # file'[j].sqn
              /\ file'[i].sqn < file'[j].sqn => Follows(file'[i], file'[j])
  <2>1. CASE i \in 1..k /\ j \in 1..k
    BY <1>14, <1>15, <2>1 DEF QueryInv, FileInv
  <2>2. CASE i \in 1..k /\ j = k + 1
    <3>1. PICK m \in Sqns : m = file[i].sqn /\ m # n /\ Allocated(m)
             /\ Segment(m).start = file[i].start /\ Segment(m).cycles = file[i].cycles
      BY <1>17, <2>2 DEF Present
    <3>2. m < n => Follows(Segment(m), loc)
      BY <1>5, <3>1 DEF Fits
    <3> QED
      BY <1>11, <1>15, <2>2, <3>1, <3>2 DEF Follows
  <2>3. CASE i = k + 1 /\ j \in 1..k
    <3>1. PICK m \in Sqns : m = file[j].sqn /\ m # n /\ Allocated(m)
             /\ Segment(m).start = file[j].start /\ Segment(m).cycles = file[j].cycles
      BY <1>17, <2>3 DEF Present
    <3>2. n < m => Follows(loc, Segment(m))
      BY <1>5, <3>1 DEF Fits
    <3> QED
      BY <1>11, <1>15, <2>3, <3>1, <3>2 DEF Follows
  <2>4. CASE i = k + 1 /\ j = k + 1
    BY <1>11, <1>15, <2>4, Numbers DEF Sqns
  <2> QED
    BY <1>14, <2>1, <2>2, <2>3, <2>4
<1>19. Frames(k + 1)'
  <2>1. Segment(n)' = Completed(loc) /\ Stored(n)'
    BY <1>5, <1>6, <1>8 DEF Changed, Added
  <2>2. ASSUME NEW j \in 1..k + 1 PROVE Present(j)'
    <3>1. CASE j \in 1..k
      BY <1>8, <1>15, <1>17, <3>1 DEF Present, Added
    <3>2. CASE j = k + 1
      BY <1>6, <1>11, <1>15, <2>1, <3>2 DEF Present
    <3> QED
      BY <1>14, <3>1, <3>2
  <2>3. ASSUME NEW m \in Sqns, Stored(m)' PROVE \E j \in 1..k + 1 : file'[j].sqn = m
    <3>1. CASE m = n
      <4>1. k + 1 \in 1..k + 1
        BY <1>14
      <4> QED
        BY <1>11, <1>15, <3>1, <4>1
    <3>2. CASE m # n
      <4>1. Stored(m)
        BY <1>8, <2>3, <3>2 DEF Added
      <4>2. PICK j \in 1..k : file[j].sqn = m
        BY <1>16, <4>1 DEF Frames
      <4>3. j \in 1..k + 1
        BY <1>14
      <4> QED
        BY <1>15, <4>2, <4>3
    <3> QED
      BY <3>1, <3>2
  <2> QED
    BY <2>2, <2>3 DEF Frames
<1>20. FileInv'
  <2>1. k + 1 \in 0..Len(file')
    BY <1>14, <1>15
  <2> QED
    BY <1>1, <1>5, <1>15, <1>18, <1>19, <2>1 DEF FileInv
<1> QED
  BY <1>7, <1>9, <1>20 DEF QueryInv

\* The next frame of the file is loaded.
LEMMA LoadQuery ==
    ASSUME StreamInv, QueryInv, NEW k, NEW n, LoadStep(k, n)
    PROVE  QueryInv'
<1>1. /\ k \in 1..Len(file) /\ k = Cardinality(StoredSqns) + 1
      /\ n \in Sqns /\ n = file[k].sqn /\ LocOK(Reloaded(k)) /\ mode = "loading" /\ file' = file
  BY DEF LoadStep
<1>2. /\ VectorInv /\ IndexTypes /\ FileTypes /\ FileOrder
      /\ Len(file) \in Nat /\ k \in Nat
      /\ \A j \in 1..Len(file) : file[j].sqn \in Sqns
  <2>1. VectorInv /\ IndexTypes /\ FileTypes /\ FileOrder
    BY DEF QueryInv, FileInv, FileOrder, StreamInv
  <2>2. Len(file) \in Nat
    BY <2>1, LenProperties DEF FileTypes
  <2>3. \A j \in 1..Len(file) : file[j].sqn \in Sqns
    BY <2>1 DEF FileTypes, FrameOK, Frame
  <2> QED
    BY <1>1, <2>1, <2>2, <2>3
<1>3. PICK i \in 0..Len(file) : Frames(i)
  BY DEF QueryInv, FileInv
<1>4. i \in Nat /\ k = i + 1
  BY <1>1, <1>2, <1>3, FrameCount
<1>5. \A j \in 1..i : j \in 1..Len(file) /\ j # k
  BY <1>1, <1>2, <1>4
<1>6. ~Stored(n)
  BY <1>1, <1>2, <1>3, <1>5 DEF Frames, FileOrder
<1>7. PICK loc : loc = Reloaded(k)
  OBVIOUS
<1>8. LocOK(loc) /\ loc.start = file[k].start /\ loc.cycles = file[k].cycles
  BY <1>1, <1>7 DEF Reloaded
<1>9. Fits(n, loc)
  <2> SUFFICES ASSUME NEW m \in Sqns, Allocated(m), m # n
               PROVE  (m < n => Follows(Segment(m), loc)) /\ (n < m => Follows(loc, Segment(m)))
    BY DEF Fits
  <2>1. Stored(m)
    BY <1>1 DEF StreamInv, AppendInv
  <2>2. PICK j \in 1..i : file[j].sqn = m
    BY <1>3, <2>1 DEF Frames
  <2>3. /\ j \in 1..Len(file) /\ Segment(m).start = file[j].start
        /\ Segment(m).cycles = file[j].cycles
    BY <1>3, <1>5, <2>2 DEF Frames, Present
  <2>4. /\ m < n => Follows(file[j], file[k])
        /\ n < m => Follows(file[k], file[j])
    BY <1>1, <1>2, <2>2, <2>3 DEF FileOrder
  <2> QED
    BY <1>8, <2>3, <2>4 DEF Follows
<1>10. Accepted(n, loc)
  BY <1>1, <1>2, <1>8, <1>9, FitIsAccepted
<1>11. addSegment(n, loc) /\ mode' = mode
  BY <1>7, <1>10 DEF LoadStep
<1>12. Changed(n, Completed(loc))
  BY <1>1, <1>2, <1>8, <1>11, AddFacts DEF StreamInv, AppendInv
<1>13. /\ Completed(loc) # Hole /\ Completed(loc).start = loc.start
       /\ Completed(loc).cycles = loc.cycles
  BY <1>8, CompletedCell
<1>14. OrderInv'
  <2>1. Fits(n, Completed(loc))
    BY <1>9, <1>13, FitsRun
  <2> QED
    BY <1>1, <1>12, <2>1, OrderKept DEF QueryInv
<1>15. Added(n, loc)
  BY <1>1, <1>6, <1>8, <1>12, AddedFacts
<1>16. TreeInv' /\ StatInv'
  BY <1>1, <1>2, <1>8, <1>9, <1>11, <1>15, IndexGains DEF QueryInv
<1>17. Frames(k)'
  <2>1. Segment(n)' = Completed(loc) /\ Stored(n)'
    BY <1>1, <1>12, <1>13, <1>15 DEF Changed, Added
  <2>2. ASSUME NEW j \in 1..k PROVE Present(j)'
    <3>1. CASE j \in 1..i
      <4>1. Present(j) /\ file[j].sqn \in Sqns /\ file[j].sqn # n
        BY <1>1, <1>2, <1>3, <1>5, <3>1 DEF Frames, FileOrder
      <4> QED
        BY <1>1, <1>15, <4>1 DEF Present, Added
    <3>2. CASE j = k
      BY <1>1, <1>8, <1>13, <2>1, <3>2 DEF Present
    <3> QED
      BY <1>4, <3>1, <3>2
  <2>3. ASSUME NEW m \in Sqns, Stored(m)' PROVE \E j \in 1..k : file'[j].sqn = m
    <3>1. CASE m = n
      <4>1. k \in 1..k
        BY <1>4
      <4> QED
        BY <1>1, <3>1, <4>1
    <3>2. CASE m # n
      <4>1. Stored(m)
        BY <1>15, <2>3, <3>2 DEF Added
      <4>2. PICK j \in 1..i : file[j].sqn = m
        BY <1>3, <4>1 DEF Frames
      <4>3. j \in 1..k
        BY <1>4
      <4> QED
        BY <1>1, <4>2, <4>3
    <3> QED
      BY <3>1, <3>2
  <2> QED
    BY <2>2, <2>3 DEF Frames
<1>18. FileInv'
  <2>1. k \in 0..Len(file)
    BY <1>1, <1>2
  <2> QED
    BY <1>1, <1>11, <1>17, <2>1 DEF FileInv, QueryInv
<1> QED
  BY <1>14, <1>16, <1>18 DEF QueryInv

\* Every step keeps what the queries rely on.
LEMMA QueryStep ==
    ASSUME ~Ties, StreamInv, QueryInv, [Next]_vars
    PROVE  QueryInv'
<1>1. /\ OrderInv /\ TreeInv /\ StatInv /\ FileInv /\ FileTypes /\ VectorInv
  BY DEF QueryInv, StreamInv
<1>2. ASSUME NEW n \in Sqns, NEW c, Changed(n, c), c = Hole \/ Fits(n, c), ~Stored(n),
             c.state # "stored", UNCHANGED <<trees, stats, file, mode>>
      PROVE  QueryInv'
  <2>1. OrderInv'
    BY <1>1, <1>2, OrderKept
  <2>2. SameStored
    BY <1>2, ChangedSame
  <2>3. TreeInv' /\ StatInv'
    BY <1>1, <1>2, <2>2, IndexSame
  <2>4. FileInv'
    BY <1>1, <1>2, <2>2, FileSame
  <2> QED
    BY <2>1, <2>3, <2>4 DEF QueryInv
<1>3. Hole.state # "stored"
  BY DEF Hole
<1>4. ASSUME UNCHANGED <<stream, file>>, mode' = mode PROVE QueryInv'
  <2>1. Still
    BY <1>4, StreamStill
  <2>2. OrderInv'
    BY <1>1, <2>1 DEF OrderInv, Still
  <2>3. SameStored
    BY <2>1 DEF SameStored, Still
  <2>4. TreeInv' /\ StatInv' /\ FileInv'
    BY <1>1, <1>4, <2>3, IndexSame, FileSame DEF stream
  <2> QED
    BY <2>2, <2>4 DEF QueryInv
<1>5. CASE UNCHANGED vars
  BY <1>4, <1>5 DEF vars
<1>6. CASE Allocate
  <2>1. UNCHANGED <<trees, stats, file, mode>> /\ mode = "written" /\ lastAppend = Invalid
    BY <1>6 DEF Allocate, Unread
  <2>2. PICK n \in Sqns : n = Len(segments) /\ Changed(n, Opened)
    BY <1>6, AllocateFacts
  <2>3. Fits(n, Opened) /\ Opened.state # "stored"
    BY <2>1, <2>2, OpenedFits DEF Opened
  <2>4. ~Stored(n)
    BY <2>2, Numbers DEF Stored, Allocated, Sqns
  <2> QED
    BY <1>2, <2>1, <2>2, <2>3, <2>4
<1>7. CASE Submit
  <2>1. UNCHANGED <<trees, stats, file, mode>> /\ lastAppend # Invalid
    BY <1>7 DEF Submit, Unread
  <2>2. PICK n \in Sqns : n = lastAppend /\ Changed(n, Closed)
    BY <1>7, SubmitFacts
  <2>3. Allocated(n) /\ ~Stored(n) /\ Segment(n).start = lastIndex
    BY <2>1, <2>2, AppendedTo DEF Stored
  <2>4. Closed # Hole => /\ Closed.state = "encoding" /\ Closed.start = Segment(n).start
                         /\ Closed.cycles = Segment(n).cycles
    BY <1>7, <2>2, <2>3, SubmitFacts
  <2>5. Closed = Hole \/ Fits(n, Closed)
    BY <1>1, <2>3, <2>4, FitsAsBefore
  <2> QED
    BY <1>2, <1>3, <2>1, <2>2, <2>3, <2>4, <2>5
<1>8. ASSUME NEW c \in 0..MaxCycle, WriteEntry(c) PROVE QueryInv'
  <2>1. UNCHANGED <<trees, stats, file, mode>> /\ lastAppend # Invalid /\ c \in Cycles
    BY <1>8 DEF WriteEntry, Unread, Cycles
  <2>2. PICK n \in Sqns : n = lastAppend /\ Changed(n, Written(c))
    BY <1>8, <2>1, WriteFacts
  <2>3. ~Stored(n)
    BY <2>1, <2>2, AppendedTo DEF Stored
  <2>4. Fits(n, Written(c)) /\ Written(c).state # "stored"
    BY <1>1, <1>8, <2>1, <2>2, WrittenFits, WriteFacts
  <2> QED
    BY <1>2, <2>1, <2>2, <2>3, <2>4
<1>9. ASSUME NEW n \in Sqns, EncodeFails(n) PROVE QueryInv'
  <2>1. UNCHANGED <<trees, stats, file, mode>>
    BY <1>9 DEF EncodeFails, Unread
  <2>2. Changed(n, Hole) /\ ~Stored(n)
    BY <1>9, EncodedFacts DEF EncodedFate, Stored
  <2> QED
    BY <1>2, <1>3, <2>1, <2>2
<1>10. ASSUME NEW n \in Sqns, Complete(n) PROVE QueryInv'
  BY <1>10, CompleteQuery
<1>11. CASE Reopen
  <2>1. /\ EmptyFacts' /\ file' = file /\ mode' = "loading"
        /\ trees' = [t \in Types |-> {}]
        /\ stats' = [t \in Types |-> [start |-> InvalidObject, end |-> InvalidObject]]
    BY <1>11, ReopenKeeps, EmptyStreamNext DEF Reopen
  <2>2. \A m \in Sqns : ~(Allocated(m)') /\ ~(Stored(m)')
    BY <2>1 DEF EmptyFacts, Stored
  <2>3. OrderInv'
    BY <2>2 DEF OrderInv
  <2>4. TreeInv' /\ StatInv'
    BY <2>1, <2>2 DEF TreeInv, StatInv
  <2>5. Frames(0)'
    BY <2>2 DEF Frames
  <2>6. 0 \in 0..Len(file)
    BY <1>1, LenProperties DEF FileTypes
  <2>7. FileInv'
    BY <1>1, <2>1, <2>5, <2>6 DEF FileInv
  <2> QED
    BY <2>3, <2>4, <2>7 DEF QueryInv
<1>12. CASE LoadFrame
  BY <1>12, LoadFacts, LoadQuery
<1>13. CASE Loaded
  <2>1. /\ UNCHANGED <<stream, file>> /\ mode = "loading" /\ mode' = "open"
        /\ Cardinality(StoredSqns) = Len(file)
    BY <1>13 DEF Loaded, StoredSqns
  <2>2. Still /\ UNCHANGED <<trees, stats>>
    BY <2>1, StreamStill DEF stream
  <2>3. OrderInv'
    BY <1>1, <2>2 DEF OrderInv, Still
  <2>4. TreeInv' /\ StatInv'
    <3>1. SameStored
      BY <2>2 DEF SameStored, Still
    <3> QED
      BY <1>1, <2>2, <3>1, IndexSame
  <2>5. PICK k \in 0..Len(file) : Frames(k)
    BY <1>1 DEF FileInv
  <2>6. k = Len(file)
    BY <1>1, <2>1, <2>5, FrameCount DEF FileInv, FileOrder
  <2>7. \A j \in 1..k : file[j].sqn \in Sqns
    BY <1>1, <2>6 DEF FileTypes, FrameOK, Frame
  <2>8. Frames(k)'
    BY <2>1, <2>2, <2>5, <2>7 DEF Frames, Present, Still
  <2>9. FileInv'
    BY <1>1, <2>1, <2>6, <2>8 DEF FileInv
  <2> QED
    BY <2>3, <2>4, <2>9 DEF QueryInv
<1>14. ASSUME NEW dir \in Directions, NEW value \in 0..Capacity * Invalid, OpenHandle(dir, value)
       PROVE  QueryInv'
  BY <1>4, <1>14 DEF OpenHandle
<1>15. CASE GetNextEntry \/ GetPreviousEntry \/ CloseHandle
  BY <1>4, <1>15 DEF GetNextEntry, GetPreviousEntry, CloseHandle
<1> QED
  BY <1>5, <1>6, <1>7, <1>8, <1>9, <1>10, <1>11, <1>12, <1>13, <1>14, <1>15 DEF Next

-----------------------------------------------------------------------------
(* The theorems about the queries                                          *)

\* What the queries and the loading of a store rely on
LEMMA QueryInvariant ==
    ASSUME ~Ties
    PROVE  Spec => [](StreamInv /\ QueryInv)
<1>1. Init => StreamInv /\ QueryInv
  <2> SUFFICES ASSUME Init PROVE StreamInv /\ QueryInv
    OBVIOUS
  <2>1. StreamInv /\ EmptyFacts /\ file = <<>> /\ mode = "written" /\ Len(<<>>) = 0
    BY InitReader, EmptyStream, EmptySeq DEF Init
  <2>2. /\ trees = [t \in Types |-> {}]
        /\ stats = [t \in Types |-> [start |-> InvalidObject, end |-> InvalidObject]]
    BY DEF Init, Empty
  <2>3. \A m \in Sqns : ~Allocated(m) /\ ~Stored(m)
    BY <2>1 DEF EmptyFacts, Stored
  <2>4. OrderInv /\ TreeInv /\ StatInv
    BY <2>2, <2>3 DEF OrderInv, TreeInv, StatInv
  <2>5. Frames(0)
    BY <2>3 DEF Frames
  <2>6. FileInv
    BY <2>1, <2>5 DEF FileInv
  <2> QED
    BY <2>1, <2>4, <2>6 DEF QueryInv
<1>2. (StreamInv /\ QueryInv) /\ [Next]_vars => (StreamInv /\ QueryInv)'
  BY StreamKept, QueryStep
<1> QED
  BY <1>1, <1>2, PTL DEF Spec

\* The ranges in a tree do not overlap: the one that starts last before a
\* value is the only one that can hold it.
LEMMA FindIsExact ==
    ASSUME StreamInv, QueryInv, NEW t \in Types, NEW value \in Int
    PROVE  FindInTree(t, value) = Holds(t, value)
<1>1. VectorInv /\ OrderInv /\ trees[t] = {RangeOf(n, t) : n \in {m \in Sqns : Stored(m)}}
  BY DEF StreamInv, QueryInv, TreeInv
<1>2. ASSUME NEW n \in FindInTree(t, value) PROVE n \in Holds(t, value)
  <2>1. PICK r \in trees[t] : r.sqn = n /\ r.start <= value /\ value <= r.end
    BY <1>2 DEF FindInTree
  <2>2. PICK m \in Sqns : Stored(m) /\ r = RangeOf(m, t)
    BY <1>1, <2>1
  <2> QED
    BY <2>1, <2>2 DEF RangeOf, Holds
<1>3. ASSUME NEW n \in Holds(t, value) PROVE n \in FindInTree(t, value)
  <2>1. /\ n \in Sqns /\ Stored(n) /\ RangesOf(Segment(n))[t].start <= value
        /\ value <= RangesOf(Segment(n))[t].end
    BY <1>3 DEF Holds
  <2>2. PICK r : r = RangeOf(n, t)
    OBVIOUS
  <2>3. /\ r \in trees[t] /\ r.sqn = n /\ r.start = RangesOf(Segment(n))[t].start
        /\ r.end = RangesOf(Segment(n))[t].end
    BY <1>1, <2>1, <2>2 DEF RangeOf
  <2>4. ASSUME NEW q \in trees[t], q.start <= value PROVE q.start <= r.start
    <3>1. PICK m \in Sqns : Stored(m) /\ q = RangeOf(m, t)
      BY <1>1, <2>4
    <3>2. q.start = RangesOf(Segment(m))[t].start
      BY <3>1 DEF RangeOf
    <3>3. n \in Nat /\ m \in Nat
      BY <2>1, Numbers DEF Sqns
    <3>4. CASE m = n
      <4>1. r.start \in Int
        BY <2>1, <2>3, <1>1, StoredLoc, RangeTypes, Numbers DEF LocOK
      <4> QED
        BY <2>3, <3>2, <3>4, <4>1
    <3>5. CASE m < n
      BY <1>1, <2>1, <2>3, <3>1, <3>2, <3>5, OrderedRanges
    <3>6. CASE n < m
      <4>1. r.end < q.start /\ r.end \in Int /\ q.start \in Int
        BY <1>1, <2>1, <2>3, <3>1, <3>2, <3>6, OrderedRanges
      <4> QED
        BY <2>1, <2>3, <2>4, <4>1
    <3> QED
      BY <3>3, <3>4, <3>5, <3>6
  <2> QED
    BY <2>1, <2>3, <2>4 DEF FindInTree
<1> QED
  BY <1>2, <1>3

\* With cycle counts that differ between segments, a query finds the segment
\* that holds the value, and one from the end counts from the last entry that
\* can be read, in whatever order segments were completed or loaded.
THEOREM QueriesFind ==
    ASSUME ~Ties
    PROVE  Spec => []QueriesExact
<1>1. StreamInv /\ QueryInv => QueriesExact
  <2> SUFFICES ASSUME StreamInv, QueryInv, NEW t \in Types
               PROVE  /\ \A value \in 0..InvalidObject - 1 : FindInTree(t, value) = Holds(t, value)
                      /\ \A n \in Sqns : Stored(n) =>
                            \E end \in Adjusted(t, 0) :
                                Holds(t, end) # {} /\ RangesOf(Segment(n))[t].end <= end
    BY DEF QueriesExact
  <2>1. \A value \in 0..InvalidObject - 1 : FindInTree(t, value) = Holds(t, value)
    BY FindIsExact
  <2>2. ASSUME NEW n \in Sqns, Stored(n)
        PROVE  \E end \in Adjusted(t, 0) :
                  Holds(t, end) # {} /\ RangesOf(Segment(n))[t].end <= end
    <3>1. /\ stats[t].end < InvalidObject /\ RangesOf(Segment(n))[t].end <= stats[t].end
          /\ InvalidObject \in Nat
      BY <2>2, Numbers DEF QueryInv, StatInv
    <3>2. PICK e \in Nat : e = stats[t].end
      BY <3>1 DEF StreamInv, IndexTypes
    <3>3. e \in Adjusted(t, 0)
      <4>1. ~(0 > e) /\ e - 0 = e
        OBVIOUS
      <4> QED
        BY <3>2, <4>1 DEF Adjusted
    <3>4. PICK m \in Sqns : Stored(m) /\ RangesOf(Segment(m))[t].end = e
      BY <3>1, <3>2 DEF QueryInv, StatInv
    <3>5. RangesOf(Segment(m))[t].start <= e /\ e <= e
      BY <3>4, StoredLoc, RangeTypes DEF LocOK, StreamInv
    <3>6. m \in Holds(t, e)
      BY <3>4, <3>5 DEF Holds
    <3> QED
      BY <3>1, <3>2, <3>3, <3>6
  <2> QED
    BY <2>1, <2>2
<1> QED
  BY <1>1, QueryInvariant, PTL

\* With cycle counts that differ between segments, a store that was written
\* can be opened again, with every segment whose frame is in its file.
THEOREM StoreReloads ==
    ASSUME ~Ties
    PROVE  Spec => []Reloads
<1>1. StreamInv /\ QueryInv => Reloads
  <2> SUFFICES ASSUME StreamInv, QueryInv PROVE Reloads
    OBVIOUS
  <2>1. mode # "refused"
    BY DEF QueryInv, FileInv
  <2>2. ASSUME mode = "open" PROVE {n \in Sqns : Stored(n)} = {file[k].sqn : k \in DOMAIN file}
    <3>1. Frames(Len(file)) /\ DOMAIN file = 1..Len(file)
      BY <2>2, LenProperties DEF QueryInv, FileInv, StreamInv, FileTypes
    <3>2. \A j \in 1..Len(file) : file[j].sqn \in Sqns
      BY DEF StreamInv, FileTypes, FrameOK, Frame
    <3> QED
      BY <3>1, <3>2 DEF Frames, Present
  <2> QED
    BY <2>1, <2>2 DEF Reloads
<1> QED
  BY <1>1, QueryInvariant, PTL

-----------------------------------------------------------------------------
(***************************************************************************)
(* The worker pool.                                                        *)
(*                                                                         *)
(* close goes through its steps in one order.  It blocks the queue, waits  *)
(* until the queue is empty, stops the workers, wakes them and joins them. *)
(* ClosingInv says what each step relies on: once the queue is blocked no  *)
(* item enters it, so an empty queue stays empty; and when close is past   *)
(* the join, every worker has finished.  Nothing is assumed about when     *)
(* close is called, so the theorems hold for a pool that is destroyed with *)
(* work in it as well.                                                     *)
(***************************************************************************)

\* close blocks the queue first; it is empty when the event of emptiness is
\* signaled, and stays so.
ClosingInv ==
    /\ closer # "open" => blocked
    /\ emptyEvent > 0 => blocked /\ IsEmpty
    /\ closer \in {"stop", "wake", "join", "closed"} => IsEmpty
    /\ closer = "closed" => \A w \in Workers : state[w] = "finished"

\* A worker executes items exactly if it has any.
WorkerInv(w) ==
    /\ pc[w] = "exec" <=> stack[w] # <<>>
    /\ state[w] = "finished" => pc[w] = "done"

PoolInv == PoolTypeOK /\ ClosingInv /\ \A w \in Workers : WorkerInv(w)

-----------------------------------------------------------------------------
(* Stacks                                                                  *)

\* The innermost item of a worker that executes items
LEMMA TopTypes ==
    ASSUME PoolTypeOK, NEW w \in Workers, stack[w] # <<>>
    PROVE  /\ Len(stack[w]) \in Nat \ {0} /\ Top(w) = stack[w][Len(stack[w])]
           /\ Top(w) \in WorkFrame /\ stack[w] \in Seq(WorkFrame)
<1>1. stack[w] \in Seq(WorkFrame) /\ Len(stack[w]) \in Nat \ {0}
  BY EmptySeq DEF PoolTypeOK
<1>2. \A n \in Nat \ {0} : n \in 1..n
  OBVIOUS
<1>3. Len(stack[w]) \in 1..Len(stack[w])
  BY <1>1, <1>2, Zenon
<1> QED
  BY <1>1, <1>3, ElementOfSeq DEF Top, Last

\* The stack without its last item
LEMMA FrontTypes ==
    ASSUME NEW s \in Seq(WorkFrame), s # <<>>
    PROVE  Front(s) \in Seq(WorkFrame) /\ (Front(s) # <<>> <=> Len(s) > 1)
<1>1. Len(s) \in Nat \ {0} /\ \A i \in 1..Len(s) - 1 : s[i] \in WorkFrame
  BY EmptySeq, ElementOfSeq
<1>2. Len(s) - 1 \in Int /\ 1 \in Int
  BY <1>1
<1>3. /\ Front(s) \in Seq(WorkFrame)
      /\ Len(Front(s)) = IF 1 <= Len(s) - 1 THEN (Len(s) - 1) - 1 + 1 ELSE 0
  BY <1>1, <1>2, SubSeqProperties DEF Front
<1>4. Front(s) # <<>> => Len(Front(s)) # 0
  BY <1>3, EmptySeq
<1>5. Front(s) = <<>> => Len(Front(s)) = 0
  BY EmptySeq
<1> QED
  BY <1>1, <1>3, <1>4, <1>5

\* A queue that is not empty has a queue of highest priority.
LEMMA BusiestTypes ==
    ASSUME PoolTypeOK, ~IsEmpty
    PROVE  /\ Busiest \in Priorities /\ queue[Busiest] # <<>>
           /\ Head(queue[Busiest]) \in Items /\ Tail(queue[Busiest]) \in Seq(Items)
<1>1. \E p \in Priorities : queue[p] # <<>> /\ \A q \in Priorities : queue[q] # <<>> => q <= p
  BY DEF IsEmpty, Priorities
<1>2. Busiest \in Priorities /\ queue[Busiest] # <<>>
  BY <1>1 DEF Busiest
<1> QED
  BY <1>2, HeadTailProperties DEF PoolTypeOK

-----------------------------------------------------------------------------
(* What the steps do                                                       *)

\* An item is enqueued.
LEMMA EnqueueTypes ==
    ASSUME PoolTypeOK, NEW i \in Items, EnqueueWork(i)
    PROVE  queue' \in [Priorities -> Seq(Items)] /\ workEvent' \in Nat
<1>1. PriorityOf[i] \in Priorities
  BY PoolWorkAssumption
<1>2. Append(queue[PriorityOf[i]], i) \in Seq(Items)
  BY <1>1, AppendProperties DEF PoolTypeOK
<1> QED
  BY <1>1, <1>2 DEF PoolTypeOK, EnqueueWork

\* A worker takes an item.
LEMMA DequeueTypes ==
    ASSUME PoolTypeOK, NEW w \in Workers, DequeueWork(w)
    PROVE  /\ ~IsEmpty /\ queue' \in [Priorities -> Seq(Items)]
           /\ stack' \in [Workers -> Seq(WorkFrame)] /\ stack'[w] # <<>>
           /\ \A u \in Workers : u # w => stack'[u] = stack[u]
<1>1. ~IsEmpty
  BY DEF DequeueWork
<1>2. PICK i \in Items : i = Head(queue[Busiest])
  BY <1>1, BusiestTypes
<1>3. PICK f : f = [item |-> i, todo |-> Children[i], at |-> "run"]
  OBVIOUS
<1>4. f \in WorkFrame
  BY <1>3, PoolWorkAssumption DEF WorkFrame
<1>5. Append(stack[w], f) \in Seq(WorkFrame) /\ Append(stack[w], f) # <<>>
  BY <1>4, AppendProperties DEF PoolTypeOK
<1>6. stack' = [stack EXCEPT ![w] = Append(@, f)]
  BY <1>2, <1>3 DEF DequeueWork
<1>7. queue' \in [Priorities -> Seq(Items)]
  BY <1>1, BusiestTypes DEF DequeueWork, PoolTypeOK
<1> QED
  BY <1>1, <1>5, <1>6, <1>7 DEF PoolTypeOK

\* The innermost item of a worker changes.
LEMMA TopChanges ==
    ASSUME PoolTypeOK, NEW w \in Workers, stack[w] # <<>>, NEW f \in WorkFrame,
           stack' = [stack EXCEPT ![w][Len(stack[w])] = f]
    PROVE  /\ stack' \in [Workers -> Seq(WorkFrame)] /\ stack'[w] # <<>>
           /\ \A u \in Workers : u # w => stack'[u] = stack[u]
<1>1. Len(stack[w]) \in Nat \ {0} /\ stack[w] \in Seq(WorkFrame)
  BY TopTypes
<1>2. PICK s : s = [stack[w] EXCEPT ![Len(stack[w])] = f]
  OBVIOUS
<1>3. Len(stack[w]) \in 1..Len(stack[w])
  BY <1>1
<1>4. s \in Seq(WorkFrame) /\ Len(s) = Len(stack[w])
  BY <1>1, <1>2, <1>3, ExceptSeq
<1>5. s # <<>>
  BY <1>1, <1>4, EmptySeq
<1>6. stack' = [stack EXCEPT ![w] = s]
  BY <1>2
<1> QED
  BY <1>4, <1>5, <1>6 DEF PoolTypeOK

\* What close relies on is kept: nobody adds to a blocked queue, and an empty
\* queue stays as it is.
LEMMA ClosingKept ==
    ASSUME PoolInv, UNCHANGED <<closer, blocked>>,
           queue' = queue \/ (~IsEmpty /\ emptyEvent' = emptyEvent) \/ ~blocked,
           emptyEvent' = emptyEvent \/ (blocked /\ IsEmpty /\ queue' = queue),
           closer = "closed" => UNCHANGED state
    PROVE  ClosingInv'
<1>1. emptyEvent \in Nat
  BY DEF PoolInv, PoolTypeOK
<1>2. IsEmpty /\ queue' = queue => IsEmpty'
  BY DEF IsEmpty
<1>3. ~blocked => emptyEvent = 0 /\ closer = "open"
  BY <1>1 DEF PoolInv, ClosingInv
<1> QED
  BY <1>1, <1>2, <1>3 DEF PoolInv, ClosingInv

\* A work item is submitted.
LEMMA PoolSubmitKeeps ==
    ASSUME PoolInv, NEW i \in Items, SubmitWork(i)
    PROVE  PoolInv'
<1>1. PoolTypeOK'
  BY EnqueueTypes DEF PoolInv, PoolTypeOK, SubmitWork
<1>2. ClosingInv'
  BY ClosingKept DEF SubmitWork
<1>3. ASSUME NEW w \in Workers PROVE WorkerInv(w)'
  BY DEF SubmitWork, PoolInv, WorkerInv
<1> QED
  BY <1>1, <1>2, <1>3 DEF PoolInv

\* The loop of a worker without an item
LEMMA WorkerLoopKeeps ==
    ASSUME PoolInv, NEW w \in Workers, Start(w) \/ Test(w) \/ Wait(w)
    PROVE  PoolInv'
<1>1. PoolTypeOK /\ WorkerInv(w)
  BY DEF PoolInv
<1>2. PoolTypeOK'
  <2>1. CASE Start(w)
    BY <1>1, <2>1 DEF PoolTypeOK, Start
  <2>2. CASE Test(w)
    BY <1>1, <2>2 DEF PoolTypeOK, Test
  <2>3. CASE Wait(w)
    <3>1. workEvent' \in Nat
      BY <1>1, <2>3 DEF PoolTypeOK, Wait
    <3> QED
      BY <1>1, <2>3, <3>1 DEF PoolTypeOK, Wait
  <2> QED
    BY <2>1, <2>2, <2>3
<1>3. closer = "closed" => FALSE
  BY <1>1 DEF PoolInv, ClosingInv, WorkerInv, Start, Test, Wait
<1>4. ClosingInv'
  BY <1>3, ClosingKept DEF Start, Test, Wait
<1>5. ASSUME NEW u \in Workers PROVE WorkerInv(u)'
  BY <1>1 DEF PoolInv, PoolTypeOK, WorkerInv, Start, Test, Wait
<1> QED
  BY <1>2, <1>4, <1>5 DEF PoolInv

\* A worker takes an item from the queue, or finds none; one that waits
\* inside of an item does so too.
LEMMA TakeKeeps ==
    ASSUME PoolInv, NEW w \in Workers, Take(w) \/ Help(w)
    PROVE  PoolInv'
<1>1. PoolTypeOK /\ WorkerInv(w)
  BY DEF PoolInv
<1>2. pc[w] \in {"take", "exec"} /\ UNCHANGED <<workEvent, blocked, state, over, missed, closer>>
  BY DEF Take, Help
<1>3. CASE DequeueWork(w)
  <2>1. /\ queue' \in [Priorities -> Seq(Items)] /\ stack' \in [Workers -> Seq(WorkFrame)]
        /\ stack'[w] # <<>> /\ ~IsEmpty /\ \A u \in Workers : u # w => stack'[u] = stack[u]
    BY <1>1, <1>3, DequeueTypes
  <2>2. emptyEvent' = emptyEvent /\ pc' = [pc EXCEPT ![w] = "exec"]
    BY <1>3 DEF DequeueWork
  <2>3. PoolTypeOK'
    BY <1>1, <1>2, <2>1, <2>2 DEF PoolTypeOK
  <2>4. ClosingInv'
    BY <1>2, <2>1, <2>2, ClosingKept
  <2>5. ASSUME NEW u \in Workers PROVE WorkerInv(u)'
    BY <1>1, <1>2, <2>1, <2>2 DEF PoolInv, PoolTypeOK, WorkerInv
  <2> QED
    BY <2>3, <2>4, <2>5 DEF PoolInv
<1>4. CASE ~DequeueWork(w)
  <2>1. /\ IsEmpty /\ queue' = queue /\ emptyEvent' = IF blocked THEN emptyEvent + 1 ELSE emptyEvent
    BY <1>4 DEF Take, Help, DequeueNothing
  <2>2. ClosingInv'
    BY <1>2, <2>1, ClosingKept
  <2>3. CASE Take(w)
    <3>1. pc' = [pc EXCEPT ![w] = "test"] /\ stack' = stack /\ pc[w] = "take"
      BY <1>4, <2>3 DEF Take
    <3>2. PoolTypeOK'
      BY <1>1, <1>2, <2>1, <3>1 DEF PoolTypeOK
    <3>3. ASSUME NEW u \in Workers PROVE WorkerInv(u)'
      BY <1>1, <1>2, <3>1 DEF PoolInv, PoolTypeOK, WorkerInv
    <3> QED
      BY <2>2, <3>2, <3>3 DEF PoolInv
  <2>4. CASE Help(w)
    <3>1. /\ stack' = [stack EXCEPT ![w][Len(stack[w])].at = "block"] /\ pc' = pc /\ pc[w] = "exec"
          /\ stack[w] # <<>>
      BY <1>1, <1>4, <2>4 DEF Help, WorkerInv
    <3>2. PICK f \in WorkFrame : f = [stack[w][Len(stack[w])] EXCEPT !.at = "block"]
      BY <1>1, <3>1, TopTypes DEF WorkFrame
    <3>3. stack' = [stack EXCEPT ![w][Len(stack[w])] = f]
      BY <3>1, <3>2
    <3>4. /\ stack' \in [Workers -> Seq(WorkFrame)] /\ stack'[w] # <<>>
          /\ \A u \in Workers : u # w => stack'[u] = stack[u]
      BY <1>1, <3>1, <3>3, TopChanges
    <3>5. PoolTypeOK'
      BY <1>1, <1>2, <2>1, <3>1, <3>4 DEF PoolTypeOK
    <3>6. ASSUME NEW u \in Workers PROVE WorkerInv(u)'
      BY <1>1, <1>2, <3>1, <3>4 DEF PoolInv, PoolTypeOK, WorkerInv
    <3> QED
      BY <2>2, <3>5, <3>6 DEF PoolInv
  <2> QED
    BY <2>3, <2>4
<1> QED
  BY <1>3, <1>4

\* An item is over.
LEMMA FinishKeeps ==
    ASSUME PoolInv, NEW w \in Workers, Run(w) \/ Resume(w)
    PROVE  PoolInv'
<1>1. PoolTypeOK /\ WorkerInv(w) /\ pc[w] = "exec" /\ stack[w] # <<>> /\ Finish(w)
  BY DEF PoolInv, WorkerInv, Run, Resume
<1>2. UNCHANGED <<queue, workEvent, emptyEvent, blocked, state, closer>>
  BY DEF Run, Resume
<1>3. PICK s : s = Front(stack[w])
  OBVIOUS
<1>4. s \in Seq(WorkFrame) /\ (s # <<>> <=> Len(stack[w]) > 1) /\ Top(w).item \in Items
  BY <1>1, <1>3, TopTypes, FrontTypes DEF WorkFrame
<1>5. stack' = [stack EXCEPT ![w] = s] /\ over' = over \cup {Top(w).item}
  BY <1>1, <1>3 DEF Finish
<1>6. pc' = [pc EXCEPT ![w] = IF s # <<>> THEN "exec"
                              ELSE IF state[w] = "stopping" THEN "test" ELSE "take"]
  BY <1>1, <1>4 DEF Finish
<1>7. PoolTypeOK'
  <2>1. missed' \in SUBSET Workers
    BY <1>1 DEF Finish, PoolTypeOK
  <2> QED
    BY <1>1, <1>2, <1>4, <1>5, <1>6, <2>1 DEF PoolTypeOK
<1>8. ClosingInv'
  BY <1>2, ClosingKept
<1>9. ASSUME NEW u \in Workers PROVE WorkerInv(u)'
  BY <1>1, <1>2, <1>5, <1>6 DEF PoolInv, PoolTypeOK, WorkerInv
<1> QED
  BY <1>7, <1>8, <1>9 DEF PoolInv

\* A worker that missed a wake-up gets a spurious one.
LEMMA SpuriousKeeps ==
    ASSUME PoolInv, NEW w \in Workers, Spurious(w)
    PROVE  PoolInv'
<1>1. PoolTypeOK'
  BY DEF PoolInv, PoolTypeOK, Spurious
<1>2. ClosingInv'
  BY ClosingKept DEF Spurious
<1>3. ASSUME NEW u \in Workers PROVE WorkerInv(u)'
  BY DEF PoolInv, WorkerInv, Spurious
<1> QED
  BY <1>1, <1>2, <1>3 DEF PoolInv

\* An item submits another one.
LEMMA RunSubmitKeeps ==
    ASSUME PoolInv, NEW w \in Workers, RunSubmit(w)
    PROVE  PoolInv'
<1>1. PoolTypeOK /\ WorkerInv(w) /\ pc[w] = "exec" /\ stack[w] # <<>> /\ ~blocked
  BY DEF PoolInv, WorkerInv, RunSubmit
<1>2. UNCHANGED <<emptyEvent, blocked, state, pc, over, missed, closer>>
  BY DEF RunSubmit
<1>3. PICK i \in Top(w).todo :
        /\ EnqueueWork(i)
        /\ stack' = [stack EXCEPT ![w][Len(stack[w])] =
              [@ EXCEPT !.todo = Top(w).todo \ {i},
                        !.at = IF Top(w).todo = {i} THEN "help" ELSE "run"]]
  BY DEF RunSubmit
<1>4. Top(w) \in WorkFrame /\ Top(w) = stack[w][Len(stack[w])]
  BY <1>1, TopTypes
<1>5. i \in Items
  BY <1>3, <1>4 DEF WorkFrame
<1> DEFINE f == [stack[w][Len(stack[w])] EXCEPT
               !.todo = Top(w).todo \ {i}, !.at = IF Top(w).todo = {i} THEN "help" ELSE "run"]
<1>6. f \in WorkFrame
  BY <1>4 DEF WorkFrame
<1>7. stack' = [stack EXCEPT ![w][Len(stack[w])] = f]
  BY <1>3, Zenon
<1> HIDE DEF f
<1>8. /\ stack' \in [Workers -> Seq(WorkFrame)] /\ stack'[w] # <<>>
      /\ \A u \in Workers : u # w => stack'[u] = stack[u]
  BY <1>1, <1>6, <1>7, TopChanges
<1>9. PoolTypeOK'
  BY <1>1, <1>2, <1>3, <1>5, <1>8, EnqueueTypes DEF PoolTypeOK
<1>10. ClosingInv'
  BY <1>1, <1>2, ClosingKept
<1>11. ASSUME NEW u \in Workers PROVE WorkerInv(u)'
  BY <1>1, <1>2, <1>8 DEF PoolInv, WorkerInv
<1> QED
  BY <1>9, <1>10, <1>11 DEF PoolInv

\* The steps of close
LEMMA CloseKeeps ==
    ASSUME PoolInv, CloseBlock \/ CloseStep
    PROVE  PoolInv'
<1>1. PoolTypeOK'
  <2>1. emptyEvent' \in Nat /\ workEvent' \in Nat
    BY DEF PoolInv, PoolTypeOK, CloseBlock, CloseStep, WaitEmpty, StopWorkers, WakeUpWorkers, Join
  <2>2. state' \in [Workers -> {"starting", "running", "stopping", "finished"}]
    BY DEF PoolInv, PoolTypeOK, CloseBlock, CloseStep, WaitEmpty, StopWorkers, WakeUpWorkers, Join
  <2>3. closer' \in {"open", "drain", "stop", "wake", "join", "closed"} /\ blocked' \in BOOLEAN
    BY DEF PoolInv, PoolTypeOK, CloseBlock, CloseStep, WaitEmpty, StopWorkers, WakeUpWorkers, Join
  <2>4. UNCHANGED <<queue, pc, stack, over, missed>>
    BY DEF CloseBlock, CloseStep, WaitEmpty, StopWorkers, WakeUpWorkers, Join
  <2> QED
    BY <2>1, <2>2, <2>3, <2>4 DEF PoolInv, PoolTypeOK
<1>2. ClosingInv'
  <2>1. queue' = queue /\ (IsEmpty' <=> IsEmpty)
    BY DEF CloseBlock, CloseStep, WaitEmpty, StopWorkers, WakeUpWorkers, Join, IsEmpty
  <2>2. emptyEvent \in Nat
    BY DEF PoolInv, PoolTypeOK
  <2> QED
    BY <2>1, <2>2 DEF PoolInv, ClosingInv, CloseBlock, CloseStep, WaitEmpty, StopWorkers, WakeUpWorkers, Join
<1>3. ASSUME NEW w \in Workers PROVE WorkerInv(w)'
  BY DEF PoolInv, WorkerInv, CloseBlock, CloseStep, WaitEmpty, StopWorkers, WakeUpWorkers, Join
<1> QED
  BY <1>1, <1>2, <1>3 DEF PoolInv

-----------------------------------------------------------------------------
(* The theorems                                                            *)

\* The queue is empty and stays so once close has seen it empty, and a worker
\* that has finished executes nothing.
LEMMA PoolInvariant == PoolSpec => []PoolInv
<1>1. PoolInit => PoolInv
  <2> SUFFICES ASSUME PoolInit PROVE PoolInv
    OBVIOUS
  <2>1. <<>> \in Seq(Items) /\ <<>> \in Seq(WorkFrame)
    BY EmptySeq
  <2>2. PoolTypeOK
    BY <2>1 DEF PoolInit, PoolTypeOK
  <2>3. ClosingInv /\ \A w \in Workers : WorkerInv(w)
    BY DEF PoolInit, ClosingInv, WorkerInv
  <2> QED
    BY <2>2, <2>3 DEF PoolInv
<1>2. PoolInv /\ [PoolNext]_poolVars => PoolInv'
  <2> SUFFICES ASSUME PoolInv, [PoolNext]_poolVars PROVE PoolInv'
    OBVIOUS
  <2>1. CASE UNCHANGED poolVars
    BY <2>1 DEF poolVars, PoolInv, PoolTypeOK, ClosingInv, WorkerInv, IsEmpty
  <2>2. ASSUME NEW i \in Items, SubmitWork(i) PROVE PoolInv'
    BY <2>2, PoolSubmitKeeps
  <2>3. ASSUME NEW w \in Workers, Worker(w) PROVE PoolInv'
    BY <2>3, WorkerLoopKeeps, TakeKeeps, FinishKeeps, RunSubmitKeeps DEF Worker
  <2>4. ASSUME NEW w \in Workers, Spurious(w) PROVE PoolInv'
    BY <2>4, SpuriousKeeps
  <2>5. CASE CloseBlock \/ CloseStep
    BY <2>5, CloseKeeps
  <2> QED
    BY <2>1, <2>2, <2>3, <2>4, <2>5 DEF PoolNext
<1> QED
  BY <1>1, <1>2, PTL DEF PoolSpec

\* Type correctness of WorkerPool and WorkQueue
THEOREM PoolTypes == PoolSpec => []PoolTypeOK
<1>1. PoolInv => PoolTypeOK
  BY DEF PoolInv
<1> QED
  BY <1>1, PoolInvariant, PTL

\* WorkerPool::close returns only when every item the pool accepted has been
\* executed, however early it is called.
THEOREM ClosedPoolIsDone == PoolSpec => []ClosedMeansDone
<1>1. PoolInv => ClosedMeansDone
  <2> SUFFICES ASSUME PoolInv, closer = "closed" PROVE Queued = {} /\ Executing = {}
    BY DEF ClosedMeansDone
  <2>1. Queued = {}
    <3>1. \A p \in Priorities : queue[p] = <<>>
      BY DEF PoolInv, ClosingInv, IsEmpty
    <3>2. Range(<<>>) = {}
      BY DEF Range
    <3> QED
      BY <3>1, <3>2 DEF Queued
  <2>2. \A w \in Workers : stack[w] = <<>>
    BY DEF PoolInv, ClosingInv, WorkerInv
  <2> QED
    BY <2>1, <2>2 DEF Executing
<1> QED
  BY <1>1, PoolInvariant, PTL

=============================================================================
