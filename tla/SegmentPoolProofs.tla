------------------------- MODULE SegmentPoolProofs -------------------------
(***************************************************************************)
(* What the operations of SegmentPool do to a pool, proved                 *)
(* for any number of segments and links and for any key function.          *)
(***************************************************************************)
EXTENDS SegmentPool, SequenceTheorems, TLAPS

\* No segment is twice in a list.
Distinct(list) == \A i, j \in DOMAIN list : list[i] = list[j] => i = j

-----------------------------------------------------------------------------
(* Lists of segments                                                       *)

\* A list that is not empty has a last element.
LEMMA LastOfList ==
    ASSUME NEW S, NEW q \in Seq(S), q # <<>>
    PROVE  /\ Last(q) \in Range(q)
           /\ Last(q) \in S
<1>1. Len(q) \in Nat \ {0} /\ DOMAIN q = 1..Len(q) /\ q \in [1..Len(q) -> S]
  BY EmptySeq, LenProperties
<1>2. Len(q) \in DOMAIN q
  BY <1>1
<1> QED
  BY <1>1, <1>2 DEF Last, Range

\* Taking an element out of a list without duplicates takes it out for
\* good, and leaves the others: _dequeueFromStandbyList.
LEMMA RemoveFromList ==
    ASSUME NEW S, NEW q \in Seq(S), Distinct(q), NEW s \in Range(q)
    PROVE  LET r == RemoveAt(q, Position(q, s))
           IN  r \in Seq(S) /\ Distinct(r) /\ Range(r) = Range(q) \ {s}
<1> DEFINE n == Position(q, s)
           a == SubSeq(q, 1, n - 1)
           b == SubSeq(q, n + 1, Len(q))
           r == a \o b
<1>1. Len(q) \in Nat /\ DOMAIN q = 1..Len(q) /\ q \in [1..Len(q) -> S]
  BY LenProperties
<1>2. n \in 1..Len(q) /\ q[n] = s
  BY <1>1 DEF Range, Position
<1> HIDE DEF n
<1>3. /\ a \in Seq(S) /\ Len(a) = n - 1
      /\ \A i \in 1..(n - 1) : a[i] = q[i]
  <2>1. \A i \in 1..(n - 1) : q[i] \in S
    BY <1>1, <1>2
  <2> QED
    BY <1>2, <2>1, SubSeqProperties
<1>4. /\ b \in Seq(S) /\ Len(b) = Len(q) - n
      /\ \A i \in 1..(Len(q) - n) : b[i] = q[n + i]
  <2>1. \A i \in (n + 1)..Len(q) : q[i] \in S
    BY <1>1, <1>2
  <2> QED
    BY <1>1, <1>2, <2>1, SubSeqProperties
<1> HIDE DEF a, b
<1>5. /\ r \in Seq(S) /\ Len(r) = Len(q) - 1
      /\ \A i \in 1..(Len(q) - 1) : r[i] = IF i < n THEN q[i] ELSE q[i + 1]
  <2>1. /\ r \in Seq(S)
        /\ Len(r) = Len(a) + Len(b)
        /\ \A i \in 1..(Len(a) + Len(b)) :
              r[i] = IF i <= Len(a) THEN a[i] ELSE b[i - Len(a)]
    BY <1>3, <1>4, ConcatProperties
  <2>2. Len(a) + Len(b) = Len(q) - 1
    BY <1>1, <1>2, <1>3, <1>4
  <2>3. ASSUME NEW i \in 1..(Len(q) - 1)
        PROVE  r[i] = IF i < n THEN q[i] ELSE q[i + 1]
    <3>1. r[i] = IF i <= n - 1 THEN a[i] ELSE b[i - (n - 1)]
      BY <1>3, <2>1, <2>2
    <3>2. CASE i < n
      BY <1>2, <1>3, <3>1, <3>2
    <3>3. CASE i >= n
      <4>1. i - (n - 1) \in 1..(Len(q) - n) /\ n + (i - (n - 1)) = i + 1
        BY <1>1, <1>2, <3>3
      <4>2. b[i - (n - 1)] = q[i + 1]
        BY <1>4, <4>1
      <4> QED
        BY <1>1, <1>2, <3>1, <3>3, <4>2
    <3>4. i < n \/ i >= n
      BY <1>1, <1>2
    <3> QED
      BY <3>2, <3>3, <3>4
  <2> QED
    BY <2>1, <2>2, <2>3
<1>6. DOMAIN r = 1..(Len(q) - 1)
  BY <1>5, LenProperties
<1> HIDE DEF r
<1>7. ASSUME NEW i \in 1..(Len(q) - 1)
      PROVE  /\ (IF i < n THEN i ELSE i + 1) \in 1..Len(q) \ {n}
             /\ r[i] = q[IF i < n THEN i ELSE i + 1]
  BY <1>1, <1>2, <1>5
<1>d. Distinct(r)
  <2>1. SUFFICES ASSUME NEW i \in 1..(Len(q) - 1), NEW j \in 1..(Len(q) - 1),
                        r[i] = r[j]
                 PROVE  i = j
    BY <1>6 DEF Distinct
  <2>2. (IF i < n THEN i ELSE i + 1) = (IF j < n THEN j ELSE j + 1)
    BY <1>1, <1>7, <2>1 DEF Distinct
  <2> QED
    BY <1>1, <1>2, <2>2
<1>8. ASSUME NEW x \in Range(r) PROVE x \in Range(q) \ {s}
  <2>1. PICK i \in 1..(Len(q) - 1) : r[i] = x
    BY <1>6 DEF Range
  <2>2. PICK j \in 1..Len(q) \ {n} : q[j] = x
    BY <1>7, <2>1
  <2> QED
    BY <1>1, <1>2, <2>2 DEF Range, Distinct
<1>9. ASSUME NEW x \in Range(q) \ {s} PROVE x \in Range(r)
  <2>1. PICK i \in 1..Len(q) : q[i] = x
    BY <1>1 DEF Range
  <2>2. CASE i < n
    BY <1>1, <1>2, <1>5, <1>6, <2>1, <2>2 DEF Range
  <2>3. CASE i > n
    <3>1. i - 1 \in 1..(Len(q) - 1) /\ r[i - 1] = x
      BY <1>1, <1>2, <1>5, <2>1, <2>3
    <3> QED
      BY <1>6, <3>1 DEF Range
  <2> QED
    BY <1>2, <2>1, <2>2, <2>3
<1> QED
  BY <1>5, <1>d, <1>8, <1>9 DEF RemoveAt, r, a, b, n

\* A segment that is not in a list can be put at its head or at its tail:
\* _enqueueToStandbyList.
LEMMA AddAtHead ==
    ASSUME NEW S, NEW q \in Seq(S), Distinct(q), NEW s \in S, s \notin Range(q)
    PROVE  /\ <<s>> \o q \in Seq(S) /\ Distinct(<<s>> \o q)
           /\ Range(<<s>> \o q) = Range(q) \cup {s}
<1> DEFINE r == <<s>> \o q
<1>1. Len(q) \in Nat /\ DOMAIN q = 1..Len(q) /\ q \in [1..Len(q) -> S]
  BY LenProperties
<1>2. <<s>> \in Seq(S) /\ Len(<<s>>) = 1 /\ <<s>>[1] = s
  OBVIOUS
<1>3. /\ r \in Seq(S) /\ Len(r) = Len(q) + 1 /\ r[1] = s
      /\ \A i \in 2..(Len(q) + 1) : r[i] = q[i - 1]
  BY <1>1, <1>2, ConcatProperties
<1> HIDE DEF r
<1>4. DOMAIN r = 1..(Len(q) + 1)
  BY <1>3, LenProperties
<1>5. Distinct(r)
  BY <1>1, <1>3, <1>4 DEF Distinct, Range
<1>6. ASSUME NEW x \in Range(q) PROVE x \in Range(r)
  <2>1. PICK i \in 1..Len(q) : q[i] = x
    BY <1>1 DEF Range
  <2>2. i + 1 \in 2..(Len(q) + 1) /\ r[i + 1] = x
    BY <1>1, <1>3, <2>1
  <2> QED
    BY <1>1, <1>4, <2>2 DEF Range
<1>7. ASSUME NEW x \in Range(r) PROVE x \in Range(q) \cup {s}
  <2>1. PICK i \in 1..(Len(q) + 1) : r[i] = x
    BY <1>4 DEF Range
  <2>2. i = 1 \/ (i - 1 \in 1..Len(q) /\ x = q[i - 1])
    BY <1>1, <1>3, <2>1
  <2> QED
    BY <1>1, <1>3, <2>1, <2>2 DEF Range
<1>8. s \in Range(r)
  BY <1>1, <1>3, <1>4 DEF Range
<1> QED
  BY <1>3, <1>5, <1>6, <1>7, <1>8 DEF r

\* The same for the tail.
LEMMA AddAtTail ==
    ASSUME NEW S, NEW q \in Seq(S), Distinct(q), NEW s \in S, s \notin Range(q)
    PROVE  /\ Append(q, s) \in Seq(S) /\ Distinct(Append(q, s))
           /\ Range(Append(q, s)) = Range(q) \cup {s}
<1> DEFINE r == Append(q, s)
<1>1. Len(q) \in Nat /\ DOMAIN q = 1..Len(q) /\ q \in [1..Len(q) -> S]
  BY LenProperties
<1>3. /\ r \in Seq(S) /\ Len(r) = Len(q) + 1 /\ r[Len(q) + 1] = s
      /\ \A i \in 1..Len(q) : r[i] = q[i]
  BY <1>1, AppendProperties
<1> HIDE DEF r
<1>4. DOMAIN r = 1..(Len(q) + 1)
  BY <1>3, LenProperties
<1>5. Distinct(r)
  BY <1>1, <1>3, <1>4 DEF Distinct, Range
<1>6. ASSUME NEW x \in Range(q) PROVE x \in Range(r)
  BY <1>1, <1>3, <1>4 DEF Range
<1>7. ASSUME NEW x \in Range(r) PROVE x \in Range(q) \cup {s}
  <2>1. PICK i \in 1..(Len(q) + 1) : r[i] = x
    BY <1>4 DEF Range
  <2>2. i = Len(q) + 1 \/ (i \in 1..Len(q) /\ x = q[i])
    BY <1>1, <1>3, <2>1
  <2> QED
    BY <1>1, <1>3, <2>1, <2>2 DEF Range
<1>8. s \in Range(r)
  BY <1>1, <1>3, <1>4 DEF Range
<1> QED
  BY <1>3, <1>5, <1>6, <1>7, <1>8 DEF r

-----------------------------------------------------------------------------
(* The fields of a pool after an operation                                 *)

\* A pool is the record of its fields.
LEMMA PoolFields ==
    ASSUME NEW p \in PoolType
    PROVE  /\ p.free \in SUBSET Segments
           /\ p.standby \in Seq(Segments)
           /\ p.index \in [Keys -> Segments \cup {NoSegment}]
           /\ p.seg \in [Segments -> SegmentType]
           /\ \A s \in Segments : /\ p.seg[s].link \in Links \cup {NoLink}
                                  /\ p.seg[s].flags \in SUBSET Flags
<1>1. p.seg \in [Segments -> SegmentType]
  BY DEF PoolType
<1> QED
  BY <1>1 DEF PoolType, SegmentType

\* One segment of the array is replaced.
LEMMA ReplaceSegment ==
    ASSUME NEW p \in PoolType, NEW s \in Segments, NEW r \in SegmentType,
           NEW q, q = [p EXCEPT !.seg = [p.seg EXCEPT ![s] = r]]
    PROVE  /\ q \in PoolType
           /\ q.free = p.free /\ q.standby = p.standby /\ q.index = p.index
           /\ q.seg[s] = r
           /\ \A x \in Segments \ {s} : q.seg[x] = p.seg[x]
<1> DEFINE g == [p.seg EXCEPT ![s] = r]
<1>1. g \in [Segments -> SegmentType]
  BY PoolFields
<1>2. g[s] = r /\ \A x \in Segments \ {s} : g[x] = p.seg[x]
  BY PoolFields
<1>3. q = [p EXCEPT !.seg = g]
  OBVIOUS
<1> HIDE DEF g
<1> QED
  BY <1>1, <1>2, <1>3 DEF PoolType

\* The operations that only change what is known about a segment.
LEMMA MarkFields ==
    ASSUME NEW p \in PoolType, NEW s \in Segments,
           NEW q, q = MarkReady(p, s) \/ q = SubmitWritten(p, s)
    PROVE  /\ q \in PoolType
           /\ q.free = p.free /\ q.standby = p.standby /\ q.index = p.index
           /\ \A x \in Segments : /\ q.seg[x].link = p.seg[x].link
                                  /\ q.seg[x].flags = p.seg[x].flags
<1>1. p.seg[s] \in SegmentType
  BY PoolFields
<1>2. PICK r \in SegmentType :
         /\ r.link = p.seg[s].link /\ r.flags = p.seg[s].flags
         /\ q = [p EXCEPT !.seg = [p.seg EXCEPT ![s] = r]]
  <2>1. CASE q = MarkReady(p, s)
    <3>1. [p.seg[s] EXCEPT !.ready = TRUE] \in SegmentType
      BY <1>1 DEF SegmentType
    <3>2. /\ [p.seg[s] EXCEPT !.ready = TRUE].link = p.seg[s].link
          /\ [p.seg[s] EXCEPT !.ready = TRUE].flags = p.seg[s].flags
      BY <1>1 DEF SegmentType
    <3> QED
      BY <2>1, <3>1, <3>2 DEF MarkReady
  <2>2. CASE q = SubmitWritten(p, s)
    <3>1. [p.seg[s] EXCEPT !.submitted = TRUE] \in SegmentType
      BY <1>1 DEF SegmentType
    <3>2. /\ [p.seg[s] EXCEPT !.submitted = TRUE].link = p.seg[s].link
          /\ [p.seg[s] EXCEPT !.submitted = TRUE].flags = p.seg[s].flags
      BY <1>1 DEF SegmentType
    <3> QED
      BY <2>2, <3>1, <3>2 DEF SubmitWritten
  <2> QED
    BY <2>1, <2>2
<1> QED
  BY <1>2, ReplaceSegment

\* The segment goes to the free list and loses its owner.
LEMMA PurgeFields ==
    ASSUME NEW p \in PoolType, NEW s \in Segments, NEW q, q = PurgeSegment(p, s)
    PROVE  /\ q \in PoolType
           /\ q.free = p.free \cup {s}
           /\ q.standby = p.standby /\ q.index = p.index
           /\ q.seg[s].flags = {} /\ q.seg[s].link = NoLink
           /\ \A x \in Segments \ {s} : q.seg[x] = p.seg[x]
<1> DEFINE r == [flags |-> {}, link |-> NoLink,
                submitted |-> p.seg[s].submitted, ready |-> FALSE]
<1>1. p.seg[s] \in SegmentType /\ p.free \cup {s} \in SUBSET Segments
  BY PoolFields
<1>2. r \in SegmentType /\ r.flags = {} /\ r.link = NoLink
  BY <1>1 DEF SegmentType
<1> DEFINE g == [p.seg EXCEPT ![s] = r]
<1>3. q = [p EXCEPT !.free = p.free \cup {s}, !.seg = g]
  BY DEF PurgeSegment, EnqueueToFreeList
<1> HIDE DEF r
<1>4. /\ g \in [Segments -> SegmentType] /\ g[s] = r
      /\ \A x \in Segments \ {s} : g[x] = p.seg[x]
  BY <1>2, PoolFields
<1> HIDE DEF g
<1> QED
  BY <1>1, <1>2, <1>3, <1>4 DEF PoolType

\* The segment leaves the free list.
LEMMA TakeFields ==
    ASSUME NEW p \in PoolType, NEW s \in Segments, NEW q, q = DequeueFromFreeList(p, s)
    PROVE  /\ q \in PoolType
           /\ q.free = p.free \ {s}
           /\ q.standby = p.standby /\ q.index = p.index
           /\ \A x \in Segments \ {s} : q.seg[x] = p.seg[x]
<1> DEFINE r == [flags |-> {"InUse"}, link |-> p.seg[s].link,
                submitted |-> FALSE, ready |-> p.seg[s].ready]
<1>1. p.seg[s] \in SegmentType /\ p.free \ {s} \in SUBSET Segments
  BY PoolFields
<1>2. {"InUse"} \in SUBSET Flags
  BY DEF Flags
<1>3. r \in SegmentType
  BY <1>1, <1>2 DEF SegmentType
<1> DEFINE g == [p.seg EXCEPT ![s] = r]
<1>4. q = [p EXCEPT !.free = p.free \ {s}, !.seg = g]
  BY DEF DequeueFromFreeList
<1> HIDE DEF r
<1>5. /\ g \in [Segments -> SegmentType]
      /\ \A x \in Segments \ {s} : g[x] = p.seg[x]
  BY <1>3, PoolFields
<1> HIDE DEF g
<1> QED
  BY <1>1, <1>4, <1>5 DEF PoolType

\* The flags of a request are flags.
LEMMA RequestFlagsType ==
    ASSUME NEW kind \in {"write", "read", "prefetch", "scratch"}, NEW low
    PROVE  RequestFlags(kind, low) \in SUBSET Flags
<1>1. CASE kind = "scratch"
  BY <1>1 DEF RequestFlags, Flags
<1>2. CASE kind = "write"
  BY <1>2 DEF RequestFlags, Flags
<1>3. CASE kind \in {"read", "prefetch"}
  BY <1>3 DEF RequestFlags, Flags
<1> QED
  BY <1>1, <1>2, <1>3

\* The segment gets its owner.
LEMMA AllocateFields ==
    ASSUME NEW p \in PoolType, NEW s \in Segments,
           NEW kind \in {"write", "read", "prefetch", "scratch"}, NEW low,
           NEW link \in Links \cup {NoLink},
           NEW q, q = AllocateSegment(p, s, kind, link, low)
    PROVE  /\ q \in PoolType
           /\ q.free = p.free
           /\ q.standby = p.standby /\ q.index = p.index
           /\ q.seg[s].link = link
           /\ \A x \in Segments \ {s} : q.seg[x] = p.seg[x]
<1>1. RequestFlags(kind, low) \in SUBSET Flags
  BY RequestFlagsType
<1>2. PICK o : o = PrepareSegment(p, s, link)
  OBVIOUS
<1>3. /\ o \in PoolType
      /\ o.free = p.free /\ o.standby = p.standby /\ o.index = p.index
      /\ o.seg[s].link = link
      /\ \A x \in Segments \ {s} : o.seg[x] = p.seg[x]
  <2> DEFINE r == [flags |-> p.seg[s].flags, link |-> link,
                submitted |-> p.seg[s].submitted, ready |-> FALSE]
  <2>1. p.seg[s] \in SegmentType
    BY PoolFields
  <2>2. r \in SegmentType /\ r.link = link
    BY <2>1 DEF SegmentType
  <2> DEFINE g == [p.seg EXCEPT ![s] = r]
  <2>3. o = [p EXCEPT !.seg = g]
    BY <1>2 DEF PrepareSegment
  <2> HIDE DEF r
  <2>4. /\ g \in [Segments -> SegmentType] /\ g[s] = r
        /\ \A x \in Segments \ {s} : g[x] = p.seg[x]
    BY <2>2, PoolFields
  <2> HIDE DEF g
  <2> QED
    BY <2>2, <2>3, <2>4 DEF PoolType
<1> DEFINE r == [o.seg[s] EXCEPT !.flags = RequestFlags(kind, low)]
<1>4. o.seg[s] \in SegmentType
  BY <1>3, PoolFields
<1>5. r \in SegmentType /\ r.link = link
  BY <1>1, <1>3, <1>4 DEF SegmentType
<1>6. q = [o EXCEPT !.seg = [o.seg EXCEPT ![s] = r]]
  BY <1>2 DEF AllocateSegment
<1> HIDE DEF r
<1> QED
  BY <1>3, <1>5, <1>6, ReplaceSegment

\* q is p without segment s in the standby list and without the index
\* entry of link.
Dequeued(p, s, link, q) ==
    /\ q \in PoolType
    /\ q.free = p.free
    /\ Distinct(q.standby) /\ Range(q.standby) = Range(p.standby) \ {s}
    /\ q.index[KeyOf(link)] = NoSegment
    /\ \A k \in Keys \ {KeyOf(link)} : q.index[k] = p.index[k]
    /\ \A x \in Segments : /\ q.seg[x].link = p.seg[x].link
                           /\ q.seg[x].flags = p.seg[x].flags

\* The segment leaves the standby list and the index.
LEMMA DequeueFields ==
    ASSUME NEW p \in PoolType, Distinct(p.standby), NEW s \in Range(p.standby),
           NEW link \in Links, NEW q, q = DequeueFromStandbyList(p, s, link)
    PROVE  Dequeued(p, s, link, q)
<1>1. p.standby \in Seq(Segments)
  BY DEF PoolType
<1>2. s \in Segments
  BY <1>1, RangeOfSeq
<1>3. PICK r : r = RemoveAt(p.standby, Position(p.standby, s))
  OBVIOUS
<1>4. r \in Seq(Segments) /\ Distinct(r) /\ Range(r) = Range(p.standby) \ {s}
  BY <1>1, <1>3, RemoveFromList
<1> DEFINE x == [p.index EXCEPT ![KeyOf(link)] = NoSegment]
           d == [p.seg[s] EXCEPT !.submitted = FALSE]
           g == [p.seg EXCEPT ![s] = d]
<1>5. q = [p EXCEPT !.standby = r, !.index = x, !.seg = g]
  BY <1>3 DEF DequeueFromStandbyList
<1>6. /\ x \in [Keys -> Segments \cup {NoSegment}]
      /\ x[KeyOf(link)] = NoSegment
      /\ \A k \in Keys \ {KeyOf(link)} : x[k] = p.index[k]
  <2>1. KeyOf(link) \in Keys
    BY DEF Keys
  <2> QED
    BY <2>1, PoolFields
<1>7. d \in SegmentType /\ d.link = p.seg[s].link /\ d.flags = p.seg[s].flags
  <2>1. p.seg[s] \in SegmentType
    BY <1>2, PoolFields
  <2> QED
    BY <2>1 DEF SegmentType
<1> HIDE DEF x, d
<1>8. /\ g \in [Segments -> SegmentType]
      /\ \A y \in Segments : g[y] = IF y = s THEN d ELSE p.seg[y]
  BY <1>2, <1>7, PoolFields
<1> HIDE DEF g
<1>9. /\ q \in PoolType
      /\ q.free = p.free /\ q.standby = r /\ q.index = x /\ q.seg = g
  BY <1>4, <1>5, <1>6, <1>8 DEF PoolType
<1> QED
  BY <1>4, <1>6, <1>7, <1>8, <1>9 DEF Dequeued

\* q is p with segment s in the standby list.
Enqueued(p, s, q) ==
    /\ q \in PoolType
    /\ q.free = p.free /\ q.index = p.index
    /\ Distinct(q.standby) /\ Range(q.standby) = Range(p.standby) \cup {s}
    /\ \A x \in Segments : q.seg[x].link = p.seg[x].link
    /\ \A x \in Segments \ {s} : q.seg[x] = p.seg[x]

\* The segment enters the standby list.
LEMMA EnqueueFields ==
    ASSUME NEW p \in PoolType, Distinct(p.standby),
           NEW s \in Segments \ Range(p.standby),
           NEW q, q = EnqueueToStandbyList(p, s)
    PROVE  Enqueued(p, s, q)
<1>1. p.standby \in Seq(Segments) /\ s \in Segments /\ s \notin Range(p.standby)
  BY DEF PoolType
<1>2. CASE q = [p EXCEPT !.standby = <<s>> \o p.standby,
                         !.seg = [p.seg EXCEPT ![s] =
                            [p.seg[s] EXCEPT !.flags = p.seg[s].flags \ {"Prefetch"}]]]
  <2> DEFINE r == <<s>> \o p.standby
             d == [p.seg[s] EXCEPT !.flags = p.seg[s].flags \ {"Prefetch"}]
             g == [p.seg EXCEPT ![s] = d]
  <2>1. r \in Seq(Segments) /\ Distinct(r) /\ Range(r) = Range(p.standby) \cup {s}
    BY <1>1, AddAtHead
  <2>2. d \in SegmentType /\ d.link = p.seg[s].link
    <3>1. p.seg[s] \in SegmentType
      BY PoolFields
    <3> QED
      BY <3>1 DEF SegmentType
  <2>3. q = [p EXCEPT !.standby = r, !.seg = g]
    BY <1>2
  <2> HIDE DEF r, d
  <2>4. /\ g \in [Segments -> SegmentType]
        /\ \A y \in Segments : g[y] = IF y = s THEN d ELSE p.seg[y]
    BY <2>2, PoolFields
  <2> HIDE DEF g
  <2>5. /\ q \in PoolType
        /\ q.free = p.free /\ q.standby = r /\ q.index = p.index /\ q.seg = g
    BY <2>1, <2>3, <2>4 DEF PoolType
  <2> QED
    BY <2>1, <2>2, <2>4, <2>5 DEF Enqueued
<1>3. CASE q = [p EXCEPT !.standby = Append(p.standby, s)]
  <2> DEFINE r == Append(p.standby, s)
  <2>1. r \in Seq(Segments) /\ Distinct(r) /\ Range(r) = Range(p.standby) \cup {s}
    BY <1>1, AddAtTail
  <2>2. q = [p EXCEPT !.standby = r]
    BY <1>3
  <2> HIDE DEF r
  <2>3. /\ q \in PoolType
        /\ q.free = p.free /\ q.standby = r /\ q.index = p.index /\ q.seg = p.seg
    BY <2>1, <2>2 DEF PoolType
  <2> QED
    BY <2>1, <2>3 DEF Enqueued
<1>4. CASE p.standby = <<>> /\ q = [p EXCEPT !.standby = <<s>>]
  <2>1. Append(p.standby, s) = <<s>>
    BY <1>4
  <2> QED
    BY <1>3, <1>4, <2>1
<1> QED
  BY <1>2, <1>3, <1>4 DEF EnqueueToStandbyList

-----------------------------------------------------------------------------
(* The operations keep the lists, the index and the segments consistent.   *)

\* The index leads to exactly the segments of the standby list.
Indexed(p) ==
    /\ \A s \in Range(p.standby) :
          /\ p.seg[s].link \in Links
          /\ p.index[KeyOf(p.seg[s].link)] = s
    /\ \A k \in Keys : p.index[k] # NoSegment =>
          /\ p.index[k] \in Range(p.standby)
          /\ KeyOf(p.seg[p.index[k]].link) = k

\* A free segment has no flags and no owner.
Clean(p) == \A s \in p.free : p.seg[s].flags = {} /\ p.seg[s].link = NoLink

Consistent(p) ==
    /\ p \in PoolType
    /\ Distinct(p.standby)
    /\ p.free \cap Range(p.standby) = {}
    /\ Indexed(p)
    /\ Clean(p)

\* The segments that are on a list
Listed(p) == p.free \cup Range(p.standby)

\* Listed segments are segments.
LEMMA ListedType ==
    ASSUME NEW p \in PoolType
    PROVE  Range(p.standby) \subseteq Segments /\ Listed(p) \subseteq Segments
<1>1. p.standby \in Seq(Segments) /\ p.free \in SUBSET Segments
  BY DEF PoolType
<1>2. Range(p.standby) \subseteq Segments
  BY <1>1, RangeOfSeq
<1> QED
  BY <1>1, <1>2 DEF Listed

\* The new buffer is consistent, and every segment is free.
LEMMA InitConsistent ==
    Consistent(InitPool) /\ Listed(InitPool) = Segments
<1>1. InitPool \in PoolType
  BY DEF InitPool, PoolType, SegmentType
<1>2. Range(InitPool.standby) = {} /\ Distinct(InitPool.standby)
  BY DEF InitPool, Range, Distinct
<1> QED
  BY <1>1, <1>2 DEF Consistent, Indexed, Clean, Listed, InitPool

\* What happens to a segment that is on no list does not matter.
LEMMA ChangeUnlisted ==
    ASSUME NEW p, Consistent(p), NEW s \in Segments \ Listed(p),
           NEW q \in PoolType,
           q.free = p.free, q.standby = p.standby, q.index = p.index,
           \A x \in Segments \ {s} : /\ q.seg[x].link = p.seg[x].link
                                     /\ q.seg[x].flags = p.seg[x].flags
    PROVE  Consistent(q) /\ Listed(q) = Listed(p)
<1>1. Listed(p) \subseteq Segments \ {s}
  BY ListedType DEF Consistent
<1>2. Indexed(q)
  BY <1>1 DEF Consistent, Indexed, Listed
<1>3. Clean(q)
  BY <1>1 DEF Consistent, Clean, Listed
<1> QED
  BY <1>2, <1>3 DEF Consistent, Listed

\* MarkReady and SubmitWritten keep the pool consistent.
LEMMA MarkConsistent ==
    ASSUME NEW p, Consistent(p), NEW s \in Segments,
           NEW q, q = MarkReady(p, s) \/ q = SubmitWritten(p, s)
    PROVE  /\ Consistent(q) /\ Listed(q) = Listed(p)
           /\ q.standby = p.standby
           /\ \A x \in Segments : q.seg[x].link = p.seg[x].link
<1>1. /\ q \in PoolType
      /\ q.free = p.free /\ q.standby = p.standby /\ q.index = p.index
      /\ \A x \in Segments : /\ q.seg[x].link = p.seg[x].link
                             /\ q.seg[x].flags = p.seg[x].flags
  BY MarkFields DEF Consistent
<1>2. Listed(p) \subseteq Segments
  BY ListedType DEF Consistent
<1>3. Indexed(q)
  BY <1>1, <1>2 DEF Consistent, Indexed, Listed
<1>4. Clean(q)
  BY <1>1, <1>2 DEF Consistent, Clean, Listed
<1> QED
  BY <1>1, <1>3, <1>4 DEF Consistent, Listed

\* A segment that is on no list can go to the free list.
LEMMA PurgeConsistent ==
    ASSUME NEW p, Consistent(p), NEW s \in Segments \ Listed(p),
           NEW q, q = PurgeSegment(p, s)
    PROVE  /\ Consistent(q) /\ Listed(q) = Listed(p) \cup {s}
           /\ q.standby = p.standby
           /\ \A x \in Segments \ {s} : q.seg[x].link = p.seg[x].link
<1>1. /\ q \in PoolType
      /\ q.free = p.free \cup {s}
      /\ q.standby = p.standby /\ q.index = p.index
      /\ q.seg[s].flags = {} /\ q.seg[s].link = NoLink
      /\ \A x \in Segments \ {s} : q.seg[x] = p.seg[x]
  BY PurgeFields DEF Consistent
<1>2. Listed(p) \subseteq Segments \ {s}
  BY ListedType DEF Consistent
<1>3. Indexed(q)
  BY <1>1, <1>2 DEF Consistent, Indexed, Listed
<1>4. Clean(q)
  BY <1>1, <1>2 DEF Consistent, Clean, Listed
<1> QED
  BY <1>1, <1>2, <1>3, <1>4 DEF Consistent, Listed

\* What an allocation does: segment s left the lists for an owner.
Taken(p, s, link, q) ==
    /\ Consistent(q) /\ Listed(q) = Listed(p) \ {s}
    /\ q.seg[s].link = link
    /\ \A x \in Segments \ {s} : q.seg[x].link = p.seg[x].link

\* A segment of the free list can be taken and given an owner.
LEMMA AllocateConsistent ==
    ASSUME NEW p, Consistent(p), NEW s \in p.free,
           NEW kind \in {"write", "read", "prefetch", "scratch"}, NEW low,
           NEW link \in Links \cup {NoLink},
           NEW q, q = AllocateSegment(DequeueFromFreeList(p, s), s, kind, link, low)
    PROVE  Taken(p, s, link, q) /\ q.standby = p.standby
<1>1. s \in Segments
  BY ListedType DEF Consistent, Listed
<1>2. PICK o : o = DequeueFromFreeList(p, s)
  OBVIOUS
<1>3. /\ o \in PoolType
      /\ o.free = p.free \ {s}
      /\ o.standby = p.standby /\ o.index = p.index
      /\ \A x \in Segments \ {s} : o.seg[x] = p.seg[x]
  BY <1>1, <1>2, TakeFields DEF Consistent
<1>4. /\ q \in PoolType
      /\ q.free = o.free
      /\ q.standby = o.standby /\ q.index = o.index
      /\ q.seg[s].link = link
      /\ \A x \in Segments \ {s} : q.seg[x] = o.seg[x]
  BY <1>1, <1>2, <1>3, AllocateFields
<1>5. s \notin Range(p.standby) /\ Listed(p) \subseteq Segments
  BY ListedType DEF Consistent
<1>6. Indexed(q)
  BY <1>3, <1>4, <1>5 DEF Consistent, Indexed, Listed
<1>7. Clean(q)
  BY <1>3, <1>4, <1>5 DEF Consistent, Clean, Listed
<1> QED
  BY <1>3, <1>4, <1>5, <1>6, <1>7 DEF Taken, Consistent, Listed

\* A cached segment can be taken out of the cache under any link with the
\* key of its own link.
LEMMA DequeueConsistent ==
    ASSUME NEW p, Consistent(p), NEW s \in Range(p.standby),
           NEW link \in Links, KeyOf(link) = KeyOf(p.seg[s].link),
           NEW q, q = DequeueFromStandbyList(p, s, link)
    PROVE  /\ Consistent(q) /\ Listed(q) = Listed(p) \ {s}
           /\ Range(q.standby) = Range(p.standby) \ {s}
           /\ \A x \in Segments : q.seg[x].link = p.seg[x].link
<1>1. s \in Segments /\ Range(p.standby) \subseteq Segments /\ Listed(p) \subseteq Segments
  BY ListedType DEF Consistent, Listed
<1>2. /\ q \in PoolType
      /\ q.free = p.free
      /\ Distinct(q.standby) /\ Range(q.standby) = Range(p.standby) \ {s}
      /\ q.index[KeyOf(link)] = NoSegment
      /\ \A k \in Keys \ {KeyOf(link)} : q.index[k] = p.index[k]
      /\ \A x \in Segments : /\ q.seg[x].link = p.seg[x].link
                             /\ q.seg[x].flags = p.seg[x].flags
  <2>1. p \in PoolType /\ Distinct(p.standby)
    BY DEF Consistent
  <2>2. Dequeued(p, s, link, q)
    BY <2>1, DequeueFields
  <2> QED
    BY <2>2 DEF Dequeued
<1>3. p.index[KeyOf(link)] = s
  BY DEF Consistent, Indexed
<1>4. \A l \in Links : KeyOf(l) \in Keys
  BY DEF Keys
<1>5. Indexed(q)
  BY <1>1, <1>2, <1>3, <1>4 DEF Consistent, Indexed
<1>6. Clean(q)
  BY <1>1, <1>2 DEF Consistent, Clean, Listed
<1> QED
  BY <1>2, <1>5, <1>6 DEF Consistent, Listed

\* The tail of the cache can be evicted and given another owner.
LEMMA EvictConsistent ==
    ASSUME NEW p, Consistent(p), p.standby # <<>>,
           NEW s, s = Last(p.standby),
           NEW kind \in {"write", "read", "prefetch", "scratch"}, NEW low,
           NEW link \in Links \cup {NoLink},
           NEW q, q = AllocateSegment(EvictFromStandbyList(p), s, kind, link, low)
    PROVE  Taken(p, s, link, q)
<1>1. s \in Range(p.standby) /\ s \in Segments
  <2>1. p.standby \in Seq(Segments)
    BY PoolFields DEF Consistent
  <2> QED
    BY <2>1, LastOfList
<1>2. PICK d : d = DequeueFromStandbyList(p, s, p.seg[s].link)
  OBVIOUS
<1>3. /\ Consistent(d) /\ Listed(d) = Listed(p) \ {s}
      /\ Range(d.standby) = Range(p.standby) \ {s}
      /\ \A x \in Segments : d.seg[x].link = p.seg[x].link
  <2>1. p.seg[s].link \in Links
    BY <1>1 DEF Consistent, Indexed
  <2> QED
    BY <1>1, <1>2, <2>1, DequeueConsistent
<1> DEFINE r == [d.seg[s] EXCEPT !.flags = {"InUse"}]
<1>4. PICK e : e = EvictFromStandbyList(p)
  OBVIOUS
<1>5. e = [d EXCEPT !.seg = [d.seg EXCEPT ![s] = r]]
  BY <1>2, <1>4 DEF EvictFromStandbyList
<1>6. r \in SegmentType
  <2>1. d.seg[s] \in SegmentType /\ {"InUse"} \in SUBSET Flags
    BY <1>1, <1>3, PoolFields DEF Consistent, Flags
  <2> QED
    BY <2>1 DEF SegmentType
<1> HIDE DEF r
<1>7. /\ e \in PoolType
      /\ e.free = d.free /\ e.standby = d.standby /\ e.index = d.index
      /\ \A x \in Segments \ {s} : e.seg[x] = d.seg[x]
  BY <1>1, <1>3, <1>5, <1>6, ReplaceSegment DEF Consistent
<1>8. /\ q \in PoolType
      /\ q.free = e.free
      /\ q.standby = e.standby /\ q.index = e.index
      /\ q.seg[s].link = link
      /\ \A x \in Segments \ {s} : q.seg[x] = e.seg[x]
  BY <1>1, <1>4, <1>7, AllocateFields
<1>9. Consistent(q) /\ Listed(q) = Listed(d)
  BY <1>1, <1>3, <1>7, <1>8, ChangeUnlisted
<1> QED
  BY <1>1, <1>3, <1>7, <1>8, <1>9 DEF Taken

\* flushStandbyList moves a cached segment to the free list.
LEMMA FlushConsistent ==
    ASSUME NEW p, Consistent(p), NEW s \in Range(p.standby),
           NEW q, q = FlushSegment(p, s)
    PROVE  /\ Consistent(q) /\ Listed(q) = Listed(p)
           /\ Range(q.standby) = Range(p.standby) \ {s}
           /\ \A x \in Segments \ {s} : q.seg[x].link = p.seg[x].link
<1>1. s \in Segments /\ s \in Listed(p) /\ p.seg[s].link \in Links
  BY ListedType DEF Consistent, Listed, Indexed
<1>2. PICK d : d = DequeueFromStandbyList(p, s, p.seg[s].link)
  OBVIOUS
<1>3. /\ Consistent(d) /\ Listed(d) = Listed(p) \ {s}
      /\ Range(d.standby) = Range(p.standby) \ {s}
      /\ \A x \in Segments : d.seg[x].link = p.seg[x].link
  BY <1>1, <1>2, DequeueConsistent
<1>4. q = PurgeSegment(d, s)
  BY <1>2 DEF FlushSegment
<1>5. /\ Consistent(q) /\ Listed(q) = Listed(d) \cup {s}
      /\ q.standby = d.standby
      /\ \A x \in Segments \ {s} : q.seg[x].link = d.seg[x].link
  BY <1>1, <1>3, <1>4, PurgeConsistent
<1> QED
  BY <1>1, <1>3, <1>5

\* What _freeSegment does to the lists: the pool stays consistent, segment s
\* is on a list, the segments of the cache stay there, and the other
\* segments keep their owners.
Freed(p, s, q) ==
    /\ Consistent(q) /\ Listed(q) = Listed(p) \cup {s}
    /\ Range(p.standby) \subseteq Range(q.standby)
    /\ \A x \in Segments \ {s} : q.seg[x].link = p.seg[x].link

\* A segment with an owner can go to the cache.
LEMMA AddConsistent ==
    ASSUME NEW p, Consistent(p), NEW s \in Segments \ Listed(p),
           p.seg[s].link \in Links,
           NEW q, q = AddStandbySegment(p, s)
    PROVE  Freed(p, s, q)
<1> DEFINE k == KeyOf(p.seg[s].link)
<1>1. k \in Keys /\ p \in PoolType /\ s \notin Range(p.standby) /\ s \notin p.free
  BY DEF Keys, Consistent, Listed
<1>2. CASE p.index[k] # NoSegment
  <2>1. q = PurgeSegment(p, s)
    BY <1>2 DEF AddStandbySegment, FindStandbySegment
  <2>2. /\ Consistent(q) /\ Listed(q) = Listed(p) \cup {s}
        /\ q.standby = p.standby
        /\ \A x \in Segments \ {s} : q.seg[x].link = p.seg[x].link
    BY <2>1, PurgeConsistent
  <2> QED
    BY <2>2 DEF Freed
<1>3. CASE p.index[k] = NoSegment
  <2> DEFINE i == [p.index EXCEPT ![k] = s]
  <2>1. PICK o : o = [p EXCEPT !.index = i]
    OBVIOUS
  <2>2. q = EnqueueToStandbyList(o, s)
    BY <1>3, <2>1 DEF AddStandbySegment, FindStandbySegment
  <2> HIDE DEF k
  <2>3. /\ i \in [Keys -> Segments \cup {NoSegment}] /\ i[k] = s
        /\ \A x \in Keys \ {k} : i[x] = p.index[x]
    BY <1>1, PoolFields
  <2> HIDE DEF i
  <2>4. /\ o \in PoolType
        /\ o.free = p.free /\ o.standby = p.standby
        /\ o.index = i /\ o.seg = p.seg
    BY <1>1, <2>1, <2>3 DEF PoolType
  <2>5. Enqueued(o, s, q)
    <3>1. Distinct(o.standby) /\ s \in Segments \ Range(o.standby)
      BY <1>1, <2>4 DEF Consistent
    <3> QED
      BY <2>2, <2>4, <3>1, EnqueueFields
  <2>6. /\ q \in PoolType
        /\ q.free = p.free /\ q.index = i
        /\ Distinct(q.standby) /\ Range(q.standby) = Range(p.standby) \cup {s}
        /\ \A x \in Segments : q.seg[x].link = p.seg[x].link
        /\ \A x \in Segments \ {s} : q.seg[x] = p.seg[x]
    BY <2>4, <2>5 DEF Enqueued
  <2>7. Range(p.standby) \subseteq Segments /\ p.free \subseteq Segments
    BY <1>1, ListedType DEF Listed
  <2>8. Indexed(q)
    <3>1. ASSUME NEW x \in Range(q.standby)
          PROVE  q.seg[x].link \in Links /\ q.index[KeyOf(q.seg[x].link)] = x
      <4>1. CASE x = s
        BY <2>3, <2>6, <4>1 DEF k
      <4>2. CASE x \in Range(p.standby)
        <5>1. /\ p.seg[x].link \in Links /\ p.index[KeyOf(p.seg[x].link)] = x
              /\ x # NoSegment /\ x \in Segments
          BY <2>7, <4>2, PoolAssumption DEF Consistent, Indexed
        <5>2. KeyOf(p.seg[x].link) \in Keys \ {k}
          BY <1>3, <5>1 DEF Keys
        <5> QED
          BY <2>3, <2>6, <5>1, <5>2
      <4> QED
        BY <2>6, <4>1, <4>2
    <3>2. ASSUME NEW x \in Keys, q.index[x] # NoSegment
          PROVE  q.index[x] \in Range(q.standby) /\ KeyOf(q.seg[q.index[x]].link) = x
      <4>1. CASE x = k
        BY <2>3, <2>6, <4>1 DEF k
      <4>2. CASE x # k
        <5>1. /\ q.index[x] = p.index[x]
              /\ p.index[x] \in Range(p.standby)
              /\ KeyOf(p.seg[p.index[x]].link) = x
          BY <2>3, <2>6, <3>2, <4>2 DEF Consistent, Indexed
        <5> QED
          BY <2>6, <2>7, <5>1
      <4> QED
        BY <4>1, <4>2
    <3> QED
      BY <3>1, <3>2 DEF Indexed
  <2>9. Clean(q)
    BY <1>1, <2>6, <2>7 DEF Consistent, Clean
  <2> QED
    BY <1>1, <2>6, <2>8, <2>9 DEF Freed, Consistent, Listed
<1> QED
  BY <1>2, <1>3

\* _freeSegment of a segment with an owner.
LEMMA FreeConsistent ==
    ASSUME NEW p, Consistent(p), NEW s \in Segments \ Listed(p),
           p.seg[s].link \in Links, NEW prefetch,
           NEW q, q = FreeSegment(p, s, prefetch)
    PROVE  Freed(p, s, q)
<1>1. PICK o : o = SubmitWritten(p, s)
  OBVIOUS
<1>2. /\ Consistent(o) /\ Listed(o) = Listed(p)
      /\ o.standby = p.standby
      /\ \A x \in Segments : o.seg[x].link = p.seg[x].link
  BY <1>1, MarkConsistent
<1>3. CASE q = PurgeSegment(o, s)
  <2>1. /\ Consistent(q) /\ Listed(q) = Listed(o) \cup {s}
        /\ q.standby = o.standby
        /\ \A x \in Segments \ {s} : q.seg[x].link = o.seg[x].link
    BY <1>2, <1>3, PurgeConsistent
  <2> QED
    BY <1>2, <2>1 DEF Freed
<1> DEFINE add == {"ReadOnly"} \cup (IF prefetch THEN {"Prefetch"} ELSE {})
           r == [o.seg[s] EXCEPT !.flags = o.seg[s].flags \cup add]
           g == [o.seg EXCEPT ![s] = r]
           w == [o EXCEPT !.seg = g]
<1>4. q = PurgeSegment(o, s) \/ q = AddStandbySegment(w, s)
  BY <1>1 DEF FreeSegment, SubmitWritten
<1>5. CASE q = AddStandbySegment(w, s)
  <2>1. r \in SegmentType /\ r.link = p.seg[s].link
    <3>1. o.seg[s] \in SegmentType /\ add \in SUBSET Flags
      BY <1>2, PoolFields DEF Consistent, Flags
    <3> HIDE DEF add
    <3> QED
      BY <1>2, <3>1 DEF SegmentType
  <2> HIDE DEF r
  <2>2. PICK v : v = w
    OBVIOUS
  <2>3. /\ v \in PoolType
        /\ v.free = o.free /\ v.standby = o.standby /\ v.index = o.index
        /\ v.seg[s] = r
        /\ \A x \in Segments \ {s} : v.seg[x] = o.seg[x]
    <3>1. o \in PoolType
      BY <1>2 DEF Consistent
    <3>2. /\ g \in [Segments -> SegmentType] /\ g[s] = r
          /\ \A x \in Segments \ {s} : g[x] = o.seg[x]
      BY <2>1, <3>1, PoolFields
    <3> HIDE DEF g
    <3> QED
      BY <2>2, <3>1, <3>2 DEF PoolType
  <2> HIDE DEF w
  <2>4. Consistent(v) /\ Listed(v) = Listed(o)
    BY <1>2, <2>3, ChangeUnlisted
  <2>5. Freed(v, s, q)
    BY <1>2, <1>5, <2>1, <2>2, <2>3, <2>4, AddConsistent
  <2> QED
    BY <1>2, <2>3, <2>4, <2>5 DEF Freed
<1> QED
  BY <1>3, <1>4, <1>5

-----------------------------------------------------------------------------
(* What an operation leaves in the segments: the flags, the link and the   *)
(* data.                                                                   *)

\* Segment x holds in q what it holds in p.
SameContent(p, q, x) ==
    /\ q.seg[x].flags = p.seg[x].flags
    /\ q.seg[x].link = p.seg[x].link
    /\ q.seg[x].ready = p.seg[x].ready

\* MarkReady changes nothing but the ghost.
LEMMA MarkReadyContent ==
    ASSUME NEW p \in PoolType, NEW s \in Segments, NEW q, q = MarkReady(p, s)
    PROVE  /\ q.seg[s].flags = p.seg[s].flags /\ q.seg[s].link = p.seg[s].link
           /\ q.seg[s].ready
           /\ \A x \in Segments \ {s} : SameContent(p, q, x)
<1> DEFINE r == [p.seg[s] EXCEPT !.ready = TRUE]
           g == [p.seg EXCEPT ![s] = r]
<1>1. p.seg[s] \in SegmentType
  BY PoolFields
<1>2. /\ r.ready = TRUE
      /\ r.flags = p.seg[s].flags /\ r.link = p.seg[s].link
  BY <1>1 DEF SegmentType
<1>3. q.seg = g
  BY DEF MarkReady, PoolType
<1> HIDE DEF r
<1>4. \A x \in Segments : g[x] = IF x = s THEN r ELSE p.seg[x]
  BY PoolFields
<1> HIDE DEF g
<1> QED
  BY <1>2, <1>3, <1>4 DEF SameContent

\* SubmitWritten changes none of the content.
LEMMA SubmitWrittenContent ==
    ASSUME NEW p \in PoolType, NEW s \in Segments, NEW q, q = SubmitWritten(p, s)
    PROVE  \A x \in Segments : SameContent(p, q, x)
<1> DEFINE r == [p.seg[s] EXCEPT !.submitted = TRUE]
           g == [p.seg EXCEPT ![s] = r]
<1>1. p.seg[s] \in SegmentType
  BY PoolFields
<1>2. /\ r.ready = p.seg[s].ready
      /\ r.flags = p.seg[s].flags /\ r.link = p.seg[s].link
  BY <1>1 DEF SegmentType
<1>3. q.seg = g
  BY DEF SubmitWritten, PoolType
<1> HIDE DEF r
<1>4. \A x \in Segments : g[x] = IF x = s THEN r ELSE p.seg[x]
  BY PoolFields
<1> HIDE DEF g
<1> QED
  BY <1>2, <1>3, <1>4 DEF SameContent

\* A segment that leaves the cache keeps its content.
LEMMA DequeueContent ==
    ASSUME NEW p \in PoolType, NEW s \in Segments, NEW link,
           NEW q, q = DequeueFromStandbyList(p, s, link)
    PROVE  \A x \in Segments : SameContent(p, q, x)
<1> DEFINE r == [p.seg[s] EXCEPT !.submitted = FALSE]
           g == [p.seg EXCEPT ![s] = r]
<1>1. p.seg[s] \in SegmentType
  BY PoolFields
<1>2. /\ r.ready = p.seg[s].ready
      /\ r.flags = p.seg[s].flags /\ r.link = p.seg[s].link
  BY <1>1 DEF SegmentType
<1>3. q.seg = g
  BY DEF DequeueFromStandbyList, PoolType
<1> HIDE DEF r
<1>4. \A x \in Segments : g[x] = IF x = s THEN r ELSE p.seg[x]
  BY PoolFields
<1> HIDE DEF g
<1> QED
  BY <1>2, <1>3, <1>4 DEF SameContent

\* A segment that enters the cache loses at most the flag of a read-ahead.
LEMMA EnqueueContent ==
    ASSUME NEW p \in PoolType, NEW s \in Segments,
           NEW q, q = EnqueueToStandbyList(p, s)
    PROVE  /\ p.seg[s].flags \ {"Prefetch"} \subseteq q.seg[s].flags
           /\ q.seg[s].link = p.seg[s].link
           /\ q.seg[s].ready = p.seg[s].ready
           /\ \A x \in Segments \ {s} : SameContent(p, q, x)
<1> DEFINE r == [p.seg[s] EXCEPT !.flags = p.seg[s].flags \ {"Prefetch"}]
           g == [p.seg EXCEPT ![s] = r]
<1>1. p.seg[s] \in SegmentType
  BY PoolFields
<1>2. /\ r.ready = p.seg[s].ready /\ r.link = p.seg[s].link
      /\ r.flags = p.seg[s].flags \ {"Prefetch"}
  BY <1>1 DEF SegmentType
<1>3. q.seg = g \/ q.seg = p.seg
  BY DEF EnqueueToStandbyList, PoolType
<1> HIDE DEF r
<1>4. \A x \in Segments : g[x] = IF x = s THEN r ELSE p.seg[x]
  BY PoolFields
<1> HIDE DEF g
<1> QED
  BY <1>2, <1>3, <1>4 DEF SameContent

\* An allocation writes the flags of the request.
LEMMA AllocateContent ==
    ASSUME NEW p \in PoolType, NEW s \in Segments,
           NEW kind \in {"write", "read", "prefetch", "scratch"}, NEW low,
           NEW link \in Links \cup {NoLink},
           NEW q, q = AllocateSegment(p, s, kind, link, low)
    PROVE  q.seg[s].flags = RequestFlags(kind, low)
<1>1. PICK f : f = RequestFlags(kind, low)
  OBVIOUS
<1>2. PICK o : o = PrepareSegment(p, s, link)
  OBVIOUS
<1> DEFINE r == [flags |-> p.seg[s].flags, link |-> link,
                 submitted |-> p.seg[s].submitted, ready |-> FALSE]
<1>3. o.seg = [p.seg EXCEPT ![s] = r] /\ DOMAIN o = DOMAIN p
  BY <1>2 DEF PrepareSegment, PoolType
<1>4. o.seg[s] = r /\ s \in DOMAIN o.seg
  BY <1>3, PoolFields
<1>5. q = [o EXCEPT !.seg = [o.seg EXCEPT ![s] = [o.seg[s] EXCEPT !.flags = f]]]
  BY <1>1, <1>2 DEF AllocateSegment
<1>6. [o.seg[s] EXCEPT !.flags = f].flags = f
  BY <1>4
<1>7. "seg" \in DOMAIN o
  BY <1>3 DEF PoolType
<1> QED
  BY <1>1, <1>4, <1>5, <1>6, <1>7

\* q is p after an allocation of segment s.
TakenContent(p, s, kind, low, q) ==
    /\ q.seg[s].flags = RequestFlags(kind, low)
    /\ \A x \in Segments \ {s} : SameContent(p, q, x)
    /\ Range(q.standby) = Range(p.standby) \ {s}

\* An allocation from the free list leaves the other segments alone.
LEMMA TakeFreeContent ==
    ASSUME NEW p, Consistent(p), NEW s \in p.free,
           NEW kind \in {"write", "read", "prefetch", "scratch"}, NEW low,
           NEW link \in Links \cup {NoLink},
           NEW q, q = AllocateSegment(DequeueFromFreeList(p, s), s, kind, link, low)
    PROVE  TakenContent(p, s, kind, low, q)
<1>1. s \in Segments /\ p \in PoolType /\ s \notin Range(p.standby)
  BY PoolFields DEF Consistent
<1>2. PICK o : o = DequeueFromFreeList(p, s)
  OBVIOUS
<1>3. /\ o \in PoolType /\ o.standby = p.standby
      /\ \A x \in Segments \ {s} : o.seg[x] = p.seg[x]
  BY <1>1, <1>2, TakeFields
<1>4. /\ q.seg[s].flags = RequestFlags(kind, low) /\ q.standby = o.standby
      /\ \A x \in Segments \ {s} : q.seg[x] = o.seg[x]
  BY <1>1, <1>2, <1>3, AllocateFields, AllocateContent
<1> QED
  BY <1>1, <1>3, <1>4 DEF SameContent, TakenContent

\* So does an allocation from the cache.
LEMMA TakeCachedContent ==
    ASSUME NEW p, Consistent(p), p.standby # <<>>,
           NEW s, s = Last(p.standby),
           NEW kind \in {"write", "read", "prefetch", "scratch"}, NEW low,
           NEW link \in Links \cup {NoLink},
           NEW q, q = AllocateSegment(EvictFromStandbyList(p), s, kind, link, low)
    PROVE  TakenContent(p, s, kind, low, q)
<1>1. s \in Range(p.standby) /\ s \in Segments /\ p \in PoolType
  <2>1. p.standby \in Seq(Segments)
    BY PoolFields DEF Consistent
  <2> QED
    BY <2>1, LastOfList DEF Consistent
<1>2. PICK d : d = DequeueFromStandbyList(p, s, p.seg[s].link)
  OBVIOUS
<1>3. /\ d \in PoolType /\ \A x \in Segments : SameContent(p, d, x)
      /\ Range(d.standby) = Range(p.standby) \ {s}
  <2>1. p.seg[s].link \in Links
    BY <1>1 DEF Consistent, Indexed
  <2>2. Consistent(d) /\ Range(d.standby) = Range(p.standby) \ {s}
    BY <1>1, <1>2, <2>1, DequeueConsistent
  <2> QED
    BY <1>1, <1>2, <2>2, DequeueContent DEF Consistent
<1> DEFINE r == [d.seg[s] EXCEPT !.flags = {"InUse"}]
<1>4. PICK e : e = EvictFromStandbyList(p)
  OBVIOUS
<1>5. e = [d EXCEPT !.seg = [d.seg EXCEPT ![s] = r]]
  BY <1>2, <1>4 DEF EvictFromStandbyList
<1>6. r \in SegmentType
  <2>1. d.seg[s] \in SegmentType /\ {"InUse"} \in SUBSET Flags
    BY <1>1, <1>3, PoolFields DEF Flags
  <2> QED
    BY <2>1 DEF SegmentType
<1> HIDE DEF r
<1>7. /\ e \in PoolType /\ e.standby = d.standby
      /\ \A x \in Segments \ {s} : e.seg[x] = d.seg[x]
  BY <1>1, <1>3, <1>5, <1>6, ReplaceSegment
<1>8. /\ q.seg[s].flags = RequestFlags(kind, low) /\ q.standby = e.standby
      /\ \A x \in Segments \ {s} : q.seg[x] = e.seg[x]
  BY <1>1, <1>4, <1>7, AllocateFields, AllocateContent
<1> QED
  BY <1>3, <1>7, <1>8 DEF SameContent, TakenContent

\* q is p after _freeSegment of segment s: if the segment is in the cache
\* now, it is cacheable and read-only there and keeps its link and its data.
FreedContent(p, s, q) ==
    /\ \A x \in Segments \ {s} : SameContent(p, q, x)
    /\ Range(q.standby) \subseteq Range(p.standby) \cup {s}
    /\ s \in Range(q.standby) =>
          /\ (p.seg[s].flags \cup {"ReadOnly"}) \ {"Prefetch"} \subseteq q.seg[s].flags
          /\ "Cacheable" \in q.seg[s].flags
          /\ q.seg[s].link = p.seg[s].link
          /\ q.seg[s].ready = p.seg[s].ready

\* _freeSegment of a segment with an owner.
LEMMA FreeContent ==
    ASSUME NEW p, Consistent(p), NEW s \in Segments \ Listed(p),
           p.seg[s].link \in Links, NEW prefetch,
           NEW q, q = FreeSegment(p, s, prefetch)
    PROVE  FreedContent(p, s, q)
<1>1. PICK o : o = SubmitWritten(p, s)
  OBVIOUS
<1>2. /\ o \in PoolType /\ o.standby = p.standby
      /\ \A x \in Segments : SameContent(p, o, x)
  BY <1>1, MarkFields, SubmitWrittenContent DEF Consistent
<1>3. s \notin Range(p.standby)
  BY DEF Listed
<1>4. ASSUME NEW v, v \in PoolType, v.standby = p.standby, q = PurgeSegment(v, s),
             \A x \in Segments \ {s} : SameContent(p, v, x)
      PROVE  /\ q.standby = p.standby
             /\ \A x \in Segments \ {s} : SameContent(p, q, x)
  BY <1>4, PurgeFields DEF SameContent
<1>5. CASE q = PurgeSegment(o, s)
  BY <1>2, <1>3, <1>4, <1>5 DEF FreedContent
<1> DEFINE add == {"ReadOnly"} \cup (IF prefetch THEN {"Prefetch"} ELSE {})
           r == [o.seg[s] EXCEPT !.flags = o.seg[s].flags \cup add]
           g == [o.seg EXCEPT ![s] = r]
           w == [o EXCEPT !.seg = g]
<1>6. \/ q = PurgeSegment(o, s)
      \/ q = AddStandbySegment(w, s) /\ "Cacheable" \in p.seg[s].flags
  BY <1>1 DEF FreeSegment, SubmitWritten
<1>7. CASE q = AddStandbySegment(w, s) /\ "Cacheable" \in p.seg[s].flags
  <2>1. /\ r \in SegmentType /\ r.link = p.seg[s].link /\ r.ready = p.seg[s].ready
        /\ r.flags = p.seg[s].flags \cup add
    <3>1. o.seg[s] \in SegmentType /\ add \in SUBSET Flags
      BY <1>2, PoolFields DEF Flags
    <3> HIDE DEF add
    <3> QED
      BY <1>2, <3>1 DEF SegmentType, SameContent
  <2> HIDE DEF r
  <2>2. PICK v : v = w
    OBVIOUS
  <2>3. /\ v \in PoolType /\ v.standby = p.standby /\ v.seg[s] = r
        /\ \A x \in Segments \ {s} : v.seg[x] = o.seg[x]
    <3>1. /\ g \in [Segments -> SegmentType] /\ g[s] = r
          /\ \A x \in Segments \ {s} : g[x] = o.seg[x]
      BY <1>2, <2>1, PoolFields
    <3> HIDE DEF g
    <3> QED
      BY <1>2, <2>2, <3>1 DEF PoolType
  <2>4. \A x \in Segments \ {s} : SameContent(p, v, x)
    BY <1>2, <2>3 DEF SameContent
  <2>5. q = AddStandbySegment(v, s)
    BY <1>7, <2>2
  <2> HIDE DEF w
  <2>6. CASE q = PurgeSegment(v, s)
    BY <1>3, <1>4, <2>3, <2>4, <2>6 DEF FreedContent
  <2>7. CASE q # PurgeSegment(v, s)
    <3> DEFINE k == KeyOf(v.seg[s].link)
    <3>1. PICK u : u = [v EXCEPT !.index = [v.index EXCEPT ![k] = s]]
      OBVIOUS
    <3>2. q = EnqueueToStandbyList(u, s)
      BY <2>5, <2>7, <3>1 DEF AddStandbySegment
    <3>3. u \in PoolType /\ u.standby = v.standby /\ u.seg = v.seg
      <4>1. k \in Keys
        BY <2>1, <2>3 DEF Keys
      <4> HIDE DEF k
      <4>2. [v.index EXCEPT ![k] = s] \in [Keys -> Segments \cup {NoSegment}]
        BY <2>3, <4>1, PoolFields
      <4> QED
        BY <2>3, <3>1, <4>2 DEF PoolType
    <3>4. /\ u.seg[s].flags \ {"Prefetch"} \subseteq q.seg[s].flags
          /\ q.seg[s].link = u.seg[s].link
          /\ q.seg[s].ready = u.seg[s].ready
          /\ \A x \in Segments \ {s} : SameContent(u, q, x)
      BY <3>2, <3>3, EnqueueContent
    <3>5. Range(q.standby) = Range(p.standby) \cup {s}
      <4>1. Enqueued(u, s, q)
        BY <1>3, <2>3, <3>2, <3>3, EnqueueFields DEF Consistent
      <4> QED
        BY <2>3, <3>3, <4>1 DEF Enqueued
    <3>6. \A x \in Segments \ {s} : SameContent(p, q, x)
      BY <2>4, <3>3, <3>4 DEF SameContent
    <3>7. {"ReadOnly"} \subseteq add
      OBVIOUS
    <3> HIDE DEF add, k
    <3> QED
      BY <1>7, <2>1, <2>3, <3>3, <3>4, <3>5, <3>6, <3>7 DEF FreedContent
  <2> QED
    BY <2>6, <2>7
<1> QED
  BY <1>5, <1>6, <1>7

\* One turn of flushStandbyList leaves the other segments alone.
LEMMA FlushContent ==
    ASSUME NEW p, Consistent(p), NEW s \in Range(p.standby),
           NEW q, q = FlushSegment(p, s)
    PROVE  \A x \in Segments \ {s} : SameContent(p, q, x)
<1>1. s \in Segments /\ p \in PoolType /\ p.seg[s].link \in Links
  BY ListedType DEF Consistent, Listed, Indexed
<1>2. PICK d : d = DequeueFromStandbyList(p, s, p.seg[s].link)
  OBVIOUS
<1>3. d \in PoolType /\ \A x \in Segments : SameContent(p, d, x)
  BY <1>1, <1>2, DequeueConsistent, DequeueContent DEF Consistent
<1>4. q = PurgeSegment(d, s)
  BY <1>2 DEF FlushSegment
<1>5. \A x \in Segments \ {s} : q.seg[x] = d.seg[x]
  BY <1>1, <1>3, <1>4, PurgeFields
<1> QED
  BY <1>3, <1>5 DEF SameContent

=============================================================================
