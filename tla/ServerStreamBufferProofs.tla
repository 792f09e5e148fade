---------------------- MODULE ServerStreamBufferProofs ----------------------
(***************************************************************************)
(* The safety of ServerStreamBuffer for any number of segments, threads,   *)
(* links and stores.  The lists and the index are consistent for any hash  *)
(* of a link; only what the segments hold needs a key that tells two links *)
(* apart (KeyTellsApart).                                                  *)
(*                                                                         *)
(* The last section is about the free list, which the buffer uses as a set *)
(* of segments: module FreeList implements such a set.                     *)
(***************************************************************************)
EXTENDS ServerStreamBuffer, SegmentPoolProofs, FreeList,
        NaturalsInduction, WellFoundedInduction

\* A segment has a holder or is on a list.
HeldOrListed == \A s \in Segments : use[s] = "none" <=> s \in Listed(pool)

\* A segment that is held for a stream has an owner: _freeSegment may cache
\* it under that link.
HeldHasOwner ==
    \A s \in Segments : use[s] \notin {"none", "scratch"} =>
        pool.seg[s].link \in Links /\ want[s] \in Links

\* Only a request for a scratch segment has no link.
RequestHasLink == \A t \in Threads : req[t].kind # "scratch" => req[t].link \in Links

\* The segments flushStandbyList has still to look at are cached: nobody
\* else takes one as long as it holds _standbyLock.
FlushListed ==
    /\ StandbyUnlocked => flush.todo = <<>>
    /\ Distinct(flush.todo)
    /\ Range(flush.todo) \subseteq Range(pool.standby)

IInv ==
    /\ TypeOK
    /\ Consistent(pool)
    /\ HeldOrListed
    /\ HeldHasOwner
    /\ RequestHasLink
    /\ FlushListed

-----------------------------------------------------------------------------
\* The idle request is a request.
LEMMA NoRequestType == NoRequest \in RequestType
BY BufferAssumption DEF NoRequest, RequestType, Kinds

\* The flush of nobody has a type.
LEMMA NoFlushType ==
    NoFlush \in [store : Stores \cup {NoStore, AllStores}, todo : Seq(Segments)]
BY DEF NoFlush

\* The initial state.
LEMMA InitInv == Init => IInv
<1> SUFFICES ASSUME Init PROVE IInv
  OBVIOUS
<1>1. Consistent(pool) /\ Listed(pool) = Segments
  BY InitConsistent DEF Init
<1>2. TypeOK
  <2>1. pool \in PoolType
    BY <1>1 DEF Consistent
  <2>2. use \in [Segments -> Uses] /\ want \in [Segments -> Links \cup {NoLink}]
    BY DEF Init, Uses
  <2>3. stored \in SUBSET Links /\ live \in SUBSET Stores
    BY BufferAssumption DEF Init
  <2> QED
    BY <2>1, <2>2, <2>3, NoRequestType, NoFlushType DEF Init, TypeOK
<1>3. HeldOrListed /\ HeldHasOwner /\ RequestHasLink
  BY <1>1 DEF Init, HeldOrListed, HeldHasOwner, RequestHasLink, NoRequest
<1>4. FlushListed
  BY DEF Init, FlushListed, NoFlush, StandbyUnlocked, Distinct, Range
<1> QED
  BY <1>1, <1>2, <1>3, <1>4 DEF IInv

\* A request ends with a segment that was on a list.
LEMMA GrantInv ==
    ASSUME IInv, NEW t \in Threads, NEW s \in Segments, NEW p, NEW r, NEW u,
           Grant(t, s, p, r, u),
           s \in Listed(pool),
           Consistent(p), Listed(p) = Listed(pool) \ {s},
           Range(flush.todo) \subseteq Range(p.standby),
           \A x \in Segments \ {s} : p.seg[x].link = pool.seg[x].link,
           r.link \in Links \cup {NoLink},
           u \in Uses \ {"none"},
           u # "scratch" => p.seg[s].link \in Links /\ r.link \in Links
    PROVE  IInv'
<1>1. TypeOK'
  <2>1. pool' \in PoolType
    BY DEF Grant, Consistent
  <2>2. use' \in [Segments -> Uses] /\ want' \in [Segments -> Links \cup {NoLink}]
    BY DEF Grant, IInv, TypeOK
  <2>3. req' \in [Threads -> RequestType]
    BY NoRequestType DEF Grant, IInv, TypeOK
  <2> QED
    BY <2>1, <2>2, <2>3 DEF Grant, IInv, TypeOK
<1>2. /\ use' = [use EXCEPT ![s] = u] /\ want' = [want EXCEPT ![s] = r.link]
      /\ use \in [Segments -> Uses] /\ want \in [Segments -> Links \cup {NoLink}]
      /\ pool' = p
  BY DEF Grant, IInv, TypeOK
<1>3. HeldOrListed'
  BY <1>2 DEF IInv, HeldOrListed
<1>4. HeldHasOwner'
  BY <1>2 DEF IInv, HeldHasOwner
<1>5. RequestHasLink'
  BY DEF Grant, IInv, TypeOK, RequestHasLink, NoRequest
<1>6. FlushListed'
  BY DEF Grant, IInv, FlushListed, StandbyUnlocked
<1> QED
  BY <1>1, <1>2, <1>3, <1>4, <1>5, <1>6 DEF IInv

\* A holder gives its segment back.
LEMMA ReleaseInv ==
    ASSUME IInv, NEW s \in Segments, NEW p, Release(s, p), Freed(pool, s, p),
           stored' \in SUBSET Links
    PROVE  IInv'
<1>1. /\ use' = [use EXCEPT ![s] = "none"] /\ want' = [want EXCEPT ![s] = NoLink]
      /\ use \in [Segments -> Uses] /\ want \in [Segments -> Links \cup {NoLink}]
      /\ pool' = p
  BY DEF Release, IInv, TypeOK
<1>2. TypeOK'
  <2>1. pool' \in PoolType
    BY <1>1 DEF Freed, Consistent
  <2>2. use' \in [Segments -> Uses] /\ want' \in [Segments -> Links \cup {NoLink}]
    BY <1>1 DEF Uses
  <2> QED
    BY <2>1, <2>2 DEF Release, IInv, TypeOK
<1>3. HeldOrListed'
  BY <1>1 DEF IInv, HeldOrListed, Freed
<1>4. HeldHasOwner'
  BY <1>1 DEF IInv, HeldHasOwner, Freed
<1>5. RequestHasLink'
  BY DEF Release, IInv, RequestHasLink
<1>6. FlushListed'
  BY <1>1 DEF Release, IInv, FlushListed, StandbyUnlocked, Freed
<1> QED
  BY <1>1, <1>2, <1>3, <1>4, <1>5, <1>6 DEF IInv, Freed

\* A step that only changes what a request knows.
LEMMA RequestInv ==
    ASSUME IInv, req' \in [Threads -> RequestType], RequestHasLink',
           UNCHANGED <<pool, use, want, stored, live, flush>>
    PROVE  IInv'
BY DEF IInv, TypeOK, HeldOrListed, HeldHasOwner, FlushListed, StandbyUnlocked

-----------------------------------------------------------------------------
(* One lemma per action of a request                                       *)

\* The look-up in the standby list.
LEMMA RequestSegmentInv ==
    ASSUME IInv, NEW t \in Threads, NEW kind \in Kinds,
           NEW l \in Links \cup {NoLink}, NEW low \in BOOLEAN,
           RequestSegment(t, kind, l, low)
    PROVE  IInv'
<1> DEFINE r == [pc |-> "dequeue", kind |-> kind, link |-> l,
                 low |-> low, try |-> 1]
           s == IF l = NoLink THEN NoSegment ELSE FindStandbySegment(pool, l)
<1>1. kind # "scratch" <=> l \in Links
  BY PoolAssumption DEF RequestSegment, MayRequest, IInv, TypeOK
<1>2. CASE s # NoSegment
  <2>1. Grant(t, s, DequeueFromStandbyList(pool, s, l), r, UseOfHit(kind))
    BY <1>2 DEF RequestSegment
  <2>2. l \in Links /\ s = pool.index[KeyOf(l)] /\ KeyOf(l) \in Keys
    BY <1>2 DEF FindStandbySegment, Keys
  <2>3. StandbyUnlocked
    BY <2>2, PoolAssumption DEF RequestSegment
  <2>4. Consistent(pool)
    BY DEF IInv
  <2> HIDE DEF s
  <2>5. s \in Range(pool.standby) /\ KeyOf(pool.seg[s].link) = KeyOf(l)
    BY <1>2, <2>2, <2>4 DEF Consistent, Indexed
  <2>6. s \in Segments /\ s \in Listed(pool) /\ pool.seg[s].link \in Links
    BY <2>4, <2>5, ListedType DEF Consistent, Listed, Indexed
  <2>7. PICK p : p = DequeueFromStandbyList(pool, s, l)
    OBVIOUS
  <2>8. /\ Consistent(p) /\ Listed(p) = Listed(pool) \ {s}
        /\ \A x \in Segments : p.seg[x].link = pool.seg[x].link
    BY <2>2, <2>4, <2>5, <2>7, DequeueConsistent
  <2>9. Range(flush.todo) \subseteq Range(p.standby)
    BY <2>3 DEF IInv, FlushListed, Range
  <2>10. r.link = l /\ UseOfHit(kind) \in Uses \ {"none"}
    BY <1>1, <2>2 DEF UseOfHit, Uses, Kinds
  <2> HIDE DEF r
  <2> QED
    BY <2>1, <2>2, <2>6, <2>7, <2>8, <2>9, <2>10, GrantInv
<1>3. CASE s = NoSegment
  <2>1. /\ req' = [req EXCEPT ![t] = r]
        /\ UNCHANGED <<pool, use, want, stored, live, flush>>
    BY <1>3 DEF RequestSegment
  <2>2. r \in RequestType
    BY BufferAssumption DEF RequestType
  <2>3. req \in [Threads -> RequestType] /\ RequestHasLink
    BY DEF IInv, TypeOK
  <2>4. r.kind # "scratch" => r.link \in Links
    BY <1>1
  <2> HIDE DEF r
  <2>5. req' \in [Threads -> RequestType]
    BY <2>1, <2>2, <2>3
  <2>6. RequestHasLink'
    BY <2>1, <2>3, <2>4 DEF RequestHasLink
  <2> QED
    BY <2>1, <2>5, <2>6, RequestInv
<1> QED
  BY <1>2, <1>3

\* A request changes its program counter, and may count an attempt.
LEMMA RequestGoesOn ==
    ASSUME IInv, NEW t \in Threads,
           NEW at \in {"dequeue", "evict", "contend"}, NEW n \in 1..MaxRetry,
           req' = [req EXCEPT ![t] = [req[t] EXCEPT !.pc = at, !.try = n]],
           UNCHANGED <<pool, use, want, stored, live, flush>>
    PROVE  IInv'
<1> DEFINE r == [req[t] EXCEPT !.pc = at, !.try = n]
<1>1. req \in [Threads -> RequestType] /\ RequestHasLink
  BY DEF IInv, TypeOK
<1>2. r \in RequestType /\ r.kind = req[t].kind /\ r.link = req[t].link
  <2>1. req[t] \in RequestType
    BY <1>1
  <2> QED
    BY <2>1 DEF RequestType
<1> HIDE DEF r
<1>3. req' = [req EXCEPT ![t] = r]
  BY DEF r
<1>4. req' \in [Threads -> RequestType]
  BY <1>1, <1>2, <1>3
<1>5. RequestHasLink'
  BY <1>1, <1>2, <1>3 DEF RequestHasLink
<1> QED
  BY <1>4, <1>5, RequestInv

\* The type of the request of a thread.
LEMMA RequestFields ==
    ASSUME IInv, NEW t \in Threads
    PROVE  /\ req[t].kind \in Kinds /\ req[t].link \in Links \cup {NoLink}
           /\ req[t].kind # "scratch" => req[t].link \in Links
           /\ req[t].try \in 1..MaxRetry
           /\ UseOfNew(req[t].kind) \in Uses \ {"none"}
           /\ UseOfNew(req[t].kind) # "scratch" => req[t].kind # "scratch"
<1>1. req[t] \in RequestType
  BY DEF IInv, TypeOK
<1>2. /\ req[t].kind \in Kinds /\ req[t].link \in Links \cup {NoLink}
      /\ req[t].try \in 1..MaxRetry
  BY <1>1 DEF RequestType
<1> QED
  BY <1>2 DEF IInv, RequestHasLink, UseOfNew, Uses, Kinds

\* The free list.
LEMMA DequeueInv ==
    ASSUME IInv, NEW t \in Threads, Dequeue(t)
    PROVE  IInv'
<1> DEFINE r == req[t]
<1>1. Consistent(pool)
  BY DEF IInv
<1>2. ASSUME NEW s \in pool.free,
             Grant(t, s, Allocated(DequeueFromFreeList(pool, s), s, r),
                   r, UseOfNew(r.kind))
      PROVE  IInv'
  <2>1. s \in Segments /\ s \in Listed(pool)
    BY <1>1, ListedType DEF Consistent, Listed
  <2>2. PICK p : p = AllocateSegment(DequeueFromFreeList(pool, s), s,
                                     r.kind, r.link, r.low)
    OBVIOUS
  <2>3. /\ Consistent(p) /\ Listed(p) = Listed(pool) \ {s}
        /\ p.standby = pool.standby /\ p.seg[s].link = r.link
        /\ \A x \in Segments \ {s} : p.seg[x].link = pool.seg[x].link
    <3>1. Taken(pool, s, r.link, p) /\ p.standby = pool.standby
      BY <1>1, <2>2, RequestFields, AllocateConsistent DEF Kinds
    <3> QED
      BY <3>1 DEF Taken
  <2>4. Range(flush.todo) \subseteq Range(p.standby)
    BY <2>3 DEF IInv, FlushListed
  <2>5. Grant(t, s, p, r, UseOfNew(r.kind))
    BY <1>2, <2>2 DEF Allocated
  <2> HIDE DEF r
  <2>6. /\ r.link \in Links \cup {NoLink}
        /\ UseOfNew(r.kind) \in Uses \ {"none"}
        /\ UseOfNew(r.kind) # "scratch" => r.link \in Links
    BY RequestFields DEF r
  <2> QED
    BY <2>1, <2>3, <2>4, <2>5, <2>6, GrantInv
<1>3. ASSUME req' = [req EXCEPT ![t].pc = "evict"],
             UNCHANGED <<pool, use, want, stored, live, flush>>
      PROVE  IInv'
  <2>1. [req[t] EXCEPT !.pc = "evict"] = [req[t] EXCEPT !.pc = "evict", !.try = req[t].try]
    BY DEF IInv, TypeOK, RequestType
  <2> QED
    BY <1>3, <2>1, RequestFields, RequestGoesOn
<1> QED
  BY <1>2, <1>3 DEF Dequeue

\* The eviction of the least recently used segment.
LEMMA EvictInv ==
    ASSUME IInv, NEW t \in Threads, Evict(t)
    PROVE  IInv'
<1> DEFINE r == req[t]
           s == Last(pool.standby)
<1>1. Consistent(pool)
  BY DEF IInv
<1>2. ASSUME pool.standby # <<>>, StandbyUnlocked,
             Grant(t, s, Allocated(EvictFromStandbyList(pool), s, r),
                   r, UseOfNew(r.kind))
      PROVE  IInv'
  <2>1. s \in Segments /\ s \in Listed(pool)
    <3>1. pool.standby \in Seq(Segments)
      BY <1>1, PoolFields DEF Consistent
    <3> QED
      BY <1>2, <3>1, LastOfList DEF Listed
  <2>2. PICK p : p = AllocateSegment(EvictFromStandbyList(pool), s,
                                     r.kind, r.link, r.low)
    OBVIOUS
  <2>3. /\ Consistent(p) /\ Listed(p) = Listed(pool) \ {s}
        /\ p.seg[s].link = r.link
        /\ \A x \in Segments \ {s} : p.seg[x].link = pool.seg[x].link
    <3>1. Taken(pool, s, r.link, p)
      BY <1>1, <1>2, <2>2, RequestFields, EvictConsistent DEF Kinds
    <3> QED
      BY <3>1 DEF Taken
  <2>4. Range(flush.todo) \subseteq Range(p.standby)
    BY <1>2 DEF IInv, FlushListed, Range
  <2>5. Grant(t, s, p, r, UseOfNew(r.kind))
    BY <1>2, <2>2 DEF Allocated
  <2> HIDE DEF r, s
  <2>6. /\ r.link \in Links \cup {NoLink}
        /\ UseOfNew(r.kind) \in Uses \ {"none"}
        /\ UseOfNew(r.kind) # "scratch" => r.link \in Links
    BY RequestFields DEF r
  <2> QED
    BY <2>1, <2>3, <2>4, <2>5, <2>6, GrantInv
<1>3. ASSUME req' = [req EXCEPT ![t].pc = "contend"],
             UNCHANGED <<pool, use, want, stored, live, flush>>
      PROVE  IInv'
  <2>1. [req[t] EXCEPT !.pc = "contend"] = [req[t] EXCEPT !.pc = "contend", !.try = req[t].try]
    BY DEF IInv, TypeOK, RequestType
  <2> QED
    BY <1>3, <2>1, RequestFields, RequestGoesOn
<1> QED
  BY <1>2, <1>3 DEF Evict

\* The next attempt, or none.
LEMMA ContendInv ==
    ASSUME IInv, NEW t \in Threads, Contend(t)
    PROVE  IInv'
<1>1. CASE req[t].kind = "prefetch" \/ req[t].try >= MaxRetry
  <2>1. /\ req' = [req EXCEPT ![t] = NoRequest]
        /\ UNCHANGED <<pool, use, want, stored, live, flush>>
    BY <1>1 DEF Contend
  <2>2. req \in [Threads -> RequestType] /\ RequestHasLink
    BY DEF IInv, TypeOK
  <2>3. RequestHasLink'
    BY <2>1, <2>2 DEF RequestHasLink, NoRequest
  <2> QED
    BY <2>1, <2>2, <2>3, NoRequestType, RequestInv
<1>2. CASE ~(req[t].kind = "prefetch" \/ req[t].try >= MaxRetry)
  <2>1. /\ req' = [req EXCEPT ![t] = [req[t] EXCEPT !.pc = "dequeue",
                                                    !.try = req[t].try + 1]]
        /\ UNCHANGED <<pool, use, want, stored, live, flush>>
    BY <1>2 DEF Contend
  <2>2. req[t].try + 1 \in 1..MaxRetry
    BY <1>2, RequestFields, BufferAssumption
  <2> QED
    BY <2>1, <2>2, RequestGoesOn
<1> QED
  BY <1>1, <1>2

-----------------------------------------------------------------------------
(* The segment is used and given back                                      *)

\* A holder has a segment that is on no list.
LEMMA HeldUnlisted ==
    ASSUME IInv, NEW s \in Segments, use[s] # "none"
    PROVE  s \in Segments \ Listed(pool) /\ Consistent(pool)
BY DEF IInv, HeldOrListed

\* purgeSegment of a held segment.
LEMMA PurgeInv ==
    ASSUME IInv, NEW s \in Segments, use[s] # "none",
           Release(s, PurgeSegment(pool, s)), UNCHANGED stored
    PROVE  IInv'
<1>1. s \in Segments \ Listed(pool) /\ Consistent(pool)
  BY HeldUnlisted
<1>2. PICK p : p = PurgeSegment(pool, s)
  OBVIOUS
<1>3. Freed(pool, s, p)
  BY <1>1, <1>2, PurgeConsistent DEF Freed
<1>4. Release(s, p) /\ stored' \in SUBSET Links
  BY <1>2 DEF IInv, TypeOK
<1> QED
  BY <1>3, <1>4, ReleaseInv

\* freeSegment of a segment that is held for a stream.
LEMMA FreeInv ==
    ASSUME IInv, NEW s \in Segments, use[s] \notin {"none", "scratch"},
           NEW prefetch, Free(s, prefetch), stored' \in SUBSET Links
    PROVE  IInv'
<1>1. s \in Segments \ Listed(pool) /\ Consistent(pool)
  BY HeldUnlisted
<1>2. pool.seg[s].link \in Links
  BY DEF IInv, HeldHasOwner
<1>3. PICK p : p = FreeSegment(pool, s, prefetch)
  OBVIOUS
<1>4. Freed(pool, s, p)
  BY <1>1, <1>2, <1>3, FreeConsistent
<1>5. Release(s, p)
  BY <1>3 DEF Free
<1> QED
  BY <1>4, <1>5, ReleaseInv

\* submitSegment without entries.
LEMMA SubmitEmptyInv ==
    ASSUME IInv, NEW s \in Segments, SubmitEmpty(s)
    PROVE  IInv'
<1>1. s \in Segments \ Listed(pool) /\ Consistent(pool)
  BY HeldUnlisted DEF SubmitEmpty
<1>2. PICK o : o = SubmitWritten(pool, s)
  OBVIOUS
<1>3. /\ Consistent(o) /\ Listed(o) = Listed(pool)
      /\ o.standby = pool.standby
      /\ \A x \in Segments : o.seg[x].link = pool.seg[x].link
  BY <1>1, <1>2, MarkConsistent
<1>4. PICK p : p = PurgeSegment(o, s)
  OBVIOUS
<1>5. /\ Consistent(p) /\ Listed(p) = Listed(o) \cup {s}
      /\ p.standby = o.standby
      /\ \A x \in Segments \ {s} : p.seg[x].link = o.seg[x].link
  BY <1>1, <1>3, <1>4, PurgeConsistent
<1>6. Freed(pool, s, p)
  BY <1>3, <1>5 DEF Freed
<1>7. Release(s, p) /\ stored' \in SUBSET Links
  BY <1>2, <1>4 DEF SubmitEmpty, IInv, TypeOK
<1> QED
  BY <1>6, <1>7, ReleaseInv

\* The holder keeps the segment and does something else with it.
LEMMA UseInv ==
    ASSUME IInv, NEW s \in Segments, use[s] \notin {"none", "scratch"},
           NEW u \in Uses \ {"none", "scratch"},
           use' = [use EXCEPT ![s] = u],
           Consistent(pool'), Listed(pool') = Listed(pool),
           pool'.standby = pool.standby,
           \A x \in Segments : pool'.seg[x].link = pool.seg[x].link,
           UNCHANGED <<want, stored, live, req, flush>>
    PROVE  IInv'
<1>1. use \in [Segments -> Uses] /\ use' \in [Segments -> Uses]
  BY DEF IInv, TypeOK
<1>2. TypeOK'
  BY <1>1 DEF IInv, TypeOK, Consistent
<1>3. HeldOrListed'
  BY <1>1 DEF IInv, HeldOrListed
<1>4. HeldHasOwner'
  BY <1>1 DEF IInv, HeldHasOwner
<1>5. RequestHasLink'
  BY DEF IInv, RequestHasLink
<1>6. FlushListed'
  BY DEF IInv, FlushListed, StandbyUnlocked
<1> QED
  BY <1>2, <1>3, <1>4, <1>5, <1>6 DEF IInv

\* submitSegment of a written segment.
LEMMA SubmitWriteInv ==
    ASSUME IInv, NEW s \in Segments, SubmitWrite(s)
    PROVE  IInv'
<1>1. Consistent(pool)
  BY DEF IInv
<1>2. PICK o : o = SubmitWritten(pool, s)
  OBVIOUS
<1>3. /\ Consistent(o) /\ Listed(o) = Listed(pool)
      /\ o.standby = pool.standby
      /\ \A x \in Segments : o.seg[x].link = pool.seg[x].link
  BY <1>1, <1>2, MarkConsistent
<1>4. pool' = MarkReady(o, s)
  BY <1>2 DEF SubmitWrite
<1>5. /\ Consistent(pool') /\ Listed(pool') = Listed(o)
      /\ pool'.standby = o.standby
      /\ \A x \in Segments : pool'.seg[x].link = o.seg[x].link
  BY <1>3, <1>4, MarkConsistent
<1>6. /\ use[s] \notin {"none", "scratch"}
      /\ "encoding" \in Uses \ {"none", "scratch"}
      /\ use' = [use EXCEPT ![s] = "encoding"]
      /\ UNCHANGED <<want, stored, live, req, flush>>
  BY DEF SubmitWrite, Uses
<1> QED
  BY <1>3, <1>5, <1>6, UseInv

\* encoder.read has decoded the segment.
LEMMA DecodeOkInv ==
    ASSUME IInv, NEW s \in Segments, DecodeOk(s)
    PROVE  IInv'
<1> DEFINE u == IF use[s] = "loading" THEN "reading" ELSE "prefetched"
<1>1. Consistent(pool) /\ pool' = MarkReady(pool, s)
  BY DEF IInv, DecodeOk
<1>2. /\ Consistent(pool') /\ Listed(pool') = Listed(pool)
      /\ pool'.standby = pool.standby
      /\ \A x \in Segments : pool'.seg[x].link = pool.seg[x].link
  BY <1>1, MarkConsistent
<1>3. /\ use[s] \notin {"none", "scratch"}
      /\ u \in Uses \ {"none", "scratch"}
      /\ use' = [use EXCEPT ![s] = u]
      /\ UNCHANGED <<want, stored, live, req, flush>>
  BY DEF DecodeOk, Uses
<1> HIDE DEF u
<1> QED
  BY <1>2, <1>3, UseInv

\* An open takes a read-ahead over.
LEMMA TakeOverInv ==
    ASSUME IInv, NEW s \in Segments, TakeOver(s)
    PROVE  IInv'
<1> DEFINE u == IF use[s] = "prefetching" THEN "loading" ELSE "reading"
<1>1. Consistent(pool) /\ UNCHANGED pool
  BY DEF IInv, TakeOver
<1>2. /\ use[s] \notin {"none", "scratch"}
      /\ u \in Uses \ {"none", "scratch"}
      /\ use' = [use EXCEPT ![s] = u]
      /\ UNCHANGED <<want, stored, live, req, flush>>
  BY DEF TakeOver, Uses
<1> HIDE DEF u
<1> QED
  BY <1>1, <1>2, UseInv

\* The encoder has stored the segment.
LEMMA EncodeOkInv ==
    ASSUME IInv, NEW s \in Segments, EncodeOk(s)
    PROVE  IInv'
<1>1. use[s] \notin {"none", "scratch"} /\ Free(s, FALSE)
  BY DEF EncodeOk
<1>2. stored' \in SUBSET Links
  BY <1>1 DEF EncodeOk, IInv, TypeOK, HeldHasOwner
<1> QED
  BY <1>1, <1>2, FreeInv

-----------------------------------------------------------------------------
(* flushStandbyList                                                        *)

\* A step of the flush that leaves the holders and the requests alone.
LEMMA FlushInv ==
    ASSUME IInv, Consistent(pool'), Listed(pool') = Listed(pool),
           \A x \in Segments \ Listed(pool) : pool'.seg[x].link = pool.seg[x].link,
           flush' \in [store : Stores \cup {NoStore, AllStores}, todo : Seq(Segments)],
           FlushListed', live' \in SUBSET Stores,
           UNCHANGED <<use, want, stored, req>>
    PROVE  IInv'
<1>1. TypeOK'
  BY DEF IInv, TypeOK, Consistent
<1>2. HeldOrListed'
  BY DEF IInv, HeldOrListed
<1>3. HeldHasOwner'
  BY DEF IInv, HeldHasOwner, HeldOrListed
<1>4. RequestHasLink'
  BY DEF IInv, RequestHasLink
<1> QED
  BY <1>1, <1>2, <1>3, <1>4 DEF IInv

\* flushStandbyList takes the lock.
LEMMA FlushBeginInv ==
    ASSUME IInv, NEW store \in Stores \cup {AllStores}, FlushBegin(store)
    PROVE  IInv'
<1>1. Consistent(pool) /\ pool \in PoolType /\ pool' = pool
  BY DEF IInv, Consistent, FlushBegin
<1>2. flush' = [store |-> store, todo |-> pool.standby]
  BY DEF FlushBegin
<1>3. pool.standby \in Seq(Segments) /\ Distinct(pool.standby)
  BY <1>1, PoolFields DEF Consistent
<1>4. FlushListed'
  BY <1>1, <1>2, <1>3, BufferAssumption DEF FlushListed, StandbyUnlocked
<1>5. flush' \in [store : Stores \cup {NoStore, AllStores}, todo : Seq(Segments)]
  BY <1>2, <1>3
<1>6. live' \in SUBSET Stores /\ UNCHANGED <<use, want, stored, req>>
  BY DEF FlushBegin, IInv, TypeOK
<1> QED
  BY <1>1, <1>4, <1>5, <1>6, FlushInv

\* The rest of a list without duplicates does not have its head.
LEMMA TailOfList ==
    ASSUME NEW S, NEW q \in Seq(S), q # <<>>, Distinct(q)
    PROVE  /\ Tail(q) \in Seq(S) /\ Distinct(Tail(q))
           /\ Head(q) \in Range(q) /\ Range(Tail(q)) = Range(q) \ {Head(q)}
<1>1. Len(q) \in Nat \ {0} /\ DOMAIN q = 1..Len(q)
  BY EmptySeq, LenProperties
<1>2. /\ Head(q) = q[1]
      /\ Tail(q) \in Seq(S) /\ Len(Tail(q)) = Len(q) - 1
      /\ \A i \in 1..(Len(q) - 1) : Tail(q)[i] = q[i + 1]
  BY <1>1, HeadTailProperties
<1>3. DOMAIN Tail(q) = 1..(Len(q) - 1)
  BY <1>2, LenProperties
<1>4. PICK r : r = Tail(q)
  OBVIOUS
<1>5. /\ DOMAIN r = 1..(Len(q) - 1)
      /\ \A i \in 1..(Len(q) - 1) : r[i] = q[i + 1]
  BY <1>2, <1>3, <1>4
<1>6. \A i \in 1..(Len(q) - 1) : i + 1 \in 1..Len(q)
  BY <1>1
<1>7. Distinct(r)
  <2>1. SUFFICES ASSUME NEW i \in 1..(Len(q) - 1), NEW j \in 1..(Len(q) - 1),
                        r[i] = r[j]
                 PROVE  i = j
    BY <1>5 DEF Distinct
  <2>2. i + 1 = j + 1
    BY <1>1, <1>5, <1>6, <2>1 DEF Distinct
  <2> QED
    BY <1>1, <2>2
<1>8. ASSUME NEW x \in Range(r) PROVE x \in Range(q) \ {q[1]}
  <2>1. PICK i \in 1..(Len(q) - 1) : r[i] = x
    BY <1>5 DEF Range
  <2>2. x = q[i + 1] /\ i + 1 \in 1..Len(q) /\ i + 1 # 1 /\ 1 \in 1..Len(q)
    BY <1>1, <1>5, <2>1
  <2> QED
    BY <1>1, <2>2 DEF Range, Distinct
<1>9. ASSUME NEW x \in Range(q) \ {q[1]} PROVE x \in Range(r)
  <2>1. PICK i \in 1..Len(q) : q[i] = x
    BY <1>1 DEF Range
  <2>2. i - 1 \in 1..(Len(q) - 1) /\ r[i - 1] = x
    BY <1>1, <1>5, <2>1
  <2> QED
    BY <1>5, <2>2 DEF Range
<1>10. q[1] \in Range(q)
  BY <1>1 DEF Range
<1> QED
  BY <1>2, <1>4, <1>7, <1>8, <1>9, <1>10

\* One turn of the loop of flushStandbyList.
LEMMA FlushStepInv ==
    ASSUME IInv, FlushStep
    PROVE  IInv'
<1> DEFINE s == Head(flush.todo)
<1>1. /\ flush.todo \in Seq(Segments) /\ flush.todo # <<>>
      /\ Distinct(flush.todo) /\ Range(flush.todo) \subseteq Range(pool.standby)
      /\ flush.store # NoStore
      /\ flush \in [store : Stores \cup {NoStore, AllStores}, todo : Seq(Segments)]
  BY DEF IInv, TypeOK, FlushListed, FlushStep, StandbyUnlocked
<1>2. /\ Tail(flush.todo) \in Seq(Segments) /\ Distinct(Tail(flush.todo))
      /\ s \in Range(flush.todo)
      /\ Range(Tail(flush.todo)) = Range(flush.todo) \ {s}
  BY <1>1, TailOfList
<1>3. /\ flush' = [flush EXCEPT !.todo = Tail(flush.todo)]
      /\ pool' = FlushSegment(pool, s) \/ pool' = pool
      /\ UNCHANGED <<use, want, stored, live, req>>
  BY DEF FlushStep
<1>4. /\ flush' \in [store : Stores \cup {NoStore, AllStores}, todo : Seq(Segments)]
      /\ flush'.store = flush.store /\ flush'.todo = Tail(flush.todo)
  BY <1>1, <1>2, <1>3
<1>5. Consistent(pool) /\ live' \in SUBSET Stores
  BY <1>3 DEF IInv, TypeOK
<1> HIDE DEF s
<1>6. /\ Consistent(pool') /\ Listed(pool') = Listed(pool)
      /\ Range(pool.standby) \ {s} \subseteq Range(pool'.standby)
      /\ \A x \in Segments \ Listed(pool) : pool'.seg[x].link = pool.seg[x].link
  <2>1. CASE pool' = pool
    BY <1>5, <2>1
  <2>2. CASE pool' = FlushSegment(pool, s)
    <3>1. s \in Range(pool.standby) /\ s \in Listed(pool)
      BY <1>1, <1>2 DEF Listed
    <3>2. /\ Consistent(pool') /\ Listed(pool') = Listed(pool)
          /\ Range(pool'.standby) = Range(pool.standby) \ {s}
          /\ \A x \in Segments \ {s} : pool'.seg[x].link = pool.seg[x].link
      BY <1>5, <2>2, <3>1, FlushConsistent
    <3> QED
      BY <3>1, <3>2
  <2> QED
    BY <1>3, <2>1, <2>2
<1>7. FlushListed'
  BY <1>1, <1>2, <1>4, <1>6 DEF FlushListed, StandbyUnlocked
<1> QED
  BY <1>3, <1>4, <1>5, <1>6, <1>7, FlushInv

\* flushStandbyList releases the lock.
LEMMA FlushEndInv ==
    ASSUME IInv, FlushEnd
    PROVE  IInv'
<1>1. /\ Consistent(pool) /\ pool' = pool /\ flush' = NoFlush
      /\ UNCHANGED <<use, want, stored, req>> /\ live' \in SUBSET Stores
  BY DEF IInv, TypeOK, FlushEnd
<1>2. FlushListed'
  BY <1>1 DEF FlushListed, NoFlush, StandbyUnlocked, Distinct, Range
<1> QED
  BY <1>1, <1>2, NoFlushType, FlushInv

-----------------------------------------------------------------------------
\* Every step keeps the invariant.
LEMMA NextInv == IInv /\ [Next]_vars => IInv'
<1> SUFFICES ASSUME IInv, [Next]_vars PROVE IInv'
  OBVIOUS
<1>1. ASSUME NEW t \in Threads, Request(t) PROVE IInv'
  BY <1>1, RequestSegmentInv DEF Request
<1>2. ASSUME NEW t \in Threads, Dequeue(t) \/ Evict(t) \/ Contend(t) PROVE IInv'
  BY <1>2, DequeueInv, EvictInv, ContendInv
<1>3. ASSUME NEW s \in Segments, SubmitEmpty(s) \/ SubmitWrite(s) PROVE IInv'
  BY <1>3, SubmitEmptyInv, SubmitWriteInv
<1>4. ASSUME NEW s \in Segments, Complete(s) \/ TakeOver(s) PROVE IInv'
  <2>1. CASE EncodeFail(s) \/ DecodeFail(s)
    BY <2>1, PurgeInv DEF EncodeFail, DecodeFail
  <2>2. CASE EncodeOk(s) \/ DecodeOk(s) \/ TakeOver(s)
    BY <2>2, EncodeOkInv, DecodeOkInv, TakeOverInv
  <2> QED
    BY <1>4, <2>1, <2>2 DEF Complete
<1>5. ASSUME NEW s \in Segments, SubmitRead(s) \/ FreePrefetched(s) PROVE IInv'
  <2>1. /\ use[s] \notin {"none", "scratch"} /\ stored' \in SUBSET Links
        /\ Free(s, FALSE) \/ Free(s, TRUE)
    BY <1>5 DEF SubmitRead, FreePrefetched, IInv, TypeOK
  <2> QED
    BY <2>1, FreeInv
<1>6. ASSUME NEW s \in Segments, FreeScratch(s) PROVE IInv'
  BY <1>6, PurgeInv DEF FreeScratch
<1>7. ASSUME NEW store \in Stores \cup {AllStores}, FlushBegin(store) PROVE IInv'
  BY <1>7, FlushBeginInv
<1>8. CASE FlushStep \/ FlushEnd
  BY <1>8, FlushStepInv, FlushEndInv
<1>9. CASE UNCHANGED vars
  BY <1>9 DEF vars, IInv, TypeOK, HeldOrListed, HeldHasOwner, RequestHasLink,
              FlushListed, StandbyUnlocked
<1> QED
  BY <1>1, <1>2, <1>3, <1>4, <1>5, <1>6, <1>7, <1>8, <1>9 DEF Next

\* The inductive invariant holds in every reachable state of the buffer.
THEOREM Invariant == Spec => []IInv
BY InitInv, NextInv, PTL DEF Spec

\* Every variable of the buffer keeps its type.  In particular a request
\* makes at most MaxRetry attempts (_handleContention).
THEOREM TypeCorrect == Spec => []TypeOK
<1>1. IInv => TypeOK
  BY DEF IInv
<1> QED
  BY <1>1, Invariant, PTL

\* No segment is lost and none is in two places, whatever the threads that
\* request segments, the encoders, the clients and flushStandbyList do.
THEOREM Partition == Spec => []SegmentPartition
<1>1. IInv => SegmentPartition
  <2> SUFFICES ASSUME IInv PROVE SegmentPartition
    OBVIOUS
  <2>1. /\ pool.free \cap Range(pool.standby) = {}
        /\ \A s \in Segments : use[s] = "none" <=> s \in pool.free \cup Range(pool.standby)
    BY DEF IInv, Consistent, HeldOrListed, Listed
  <2>2. \A i, j \in DOMAIN pool.standby : pool.standby[i] = pool.standby[j] => i = j
    BY DEF IInv, Consistent, Distinct
  <2> QED
    BY <2>1, <2>2 DEF SegmentPartition
<1> QED
  BY <1>1, Invariant, PTL

\* The hash map and the LRU list agree: the assertions of
\* _evictFromStandbyList and flushStandbyList cannot fail.
THEOREM IndexAgrees == Spec => []StandbyIndexed
<1>1. IInv => StandbyIndexed
  BY PoolAssumption DEF IInv, Consistent, Indexed, StandbyIndexed
<1> QED
  BY <1>1, Invariant, PTL

\* A segment of the free list has kept nothing: the assertions of
\* _dequeueFromFreeList cannot fail.
THEOREM FreeClean == Spec => []FreeIsClean
<1>1. IInv => FreeIsClean
  BY DEF IInv, Consistent, Clean, FreeIsClean
<1> QED
  BY <1>1, Invariant, PTL

-----------------------------------------------------------------------------
(* What the segments hold.  From here on the key of the hash map tells two *)
(* links apart.                                                            *)

KeyTellsApart == \A k, l \in Links : KeyOf(k) = KeyOf(l) => k = l

\* Segment s of pool p is what a holder needs that asked for link l and has
\* use u for it.
Fits(p, s, l, u) ==
    /\ p.seg[s].link = l
    /\ "InUse" \in p.seg[s].flags
    /\ l # NoLink => StoreOf(l) \in live
    /\ u \in {"reading", "prefetched", "encoding"} => p.seg[s].ready
    /\ u \in {"reading", "prefetched", "loading", "prefetching"} =>
          "ReadOnly" \in p.seg[s].flags /\ l \in stored
    /\ u \in {"writing", "encoding"} => "ReadOnly" \notin p.seg[s].flags

\* Segment s of pool p is a complete copy of what a store holds.
IsCopy(p, s) ==
    /\ {"InUse", "ReadOnly", "Cacheable"} \subseteq p.seg[s].flags
    /\ p.seg[s].ready
    /\ p.seg[s].link \in stored

HeldData == \A s \in Segments : use[s] # "none" => Fits(pool, s, want[s], use[s])

\* The store of a cached segment lives, or flushStandbyList has still to
\* look at the segment.
CachedData ==
    \A s \in Range(pool.standby) :
        /\ IsCopy(pool, s)
        /\ \/ StoreOf(pool.seg[s].link) \in live
           \/ /\ s \in Range(flush.todo)
              /\ flush.store \in {AllStores, StoreOf(pool.seg[s].link)}

\* A request is for a store that lives, and what it reads is stored.
RequestData ==
    \A t \in Threads : req[t].pc # "idle" =>
        /\ req[t].link # NoLink => StoreOf(req[t].link) \in live
        /\ req[t].kind \in {"read", "prefetch"} => req[t].link \in stored

DataInv == HeldData /\ CachedData /\ RequestData

\* A new buffer holds nothing.
LEMMA InitData == Init => DataInv
<1> SUFFICES ASSUME Init PROVE DataInv
  OBVIOUS
<1>1. HeldData
  BY DEF Init, HeldData
<1>2. Range(pool.standby) = {}
  BY DEF Init, InitPool, Range
<1>3. RequestData
  BY DEF Init, RequestData, NoRequest
<1> QED
  BY <1>1, <1>2, <1>3 DEF DataInv, CachedData

\* The cached segments are segments, and nobody holds them.
LEMMA CachedNotHeld ==
    ASSUME IInv
    PROVE  /\ Range(pool.standby) \subseteq Segments
           /\ \A s \in Range(pool.standby) : use[s] = "none"
<1>1. Range(pool.standby) \subseteq Segments
  BY ListedType DEF IInv, Consistent
<1> QED
  BY <1>1 DEF IInv, HeldOrListed, Listed

\* A request ends with a segment that fits.
LEMMA GrantData ==
    ASSUME IInv, DataInv, NEW t \in Threads, NEW s \in Segments,
           NEW p, NEW r, NEW u, Grant(t, s, p, r, u),
           \A x \in Segments \ {s} : SameContent(pool, p, x),
           Range(p.standby) \subseteq Range(pool.standby) \ {s},
           Fits(p, s, r.link, u)
    PROVE  DataInv'
<1>1. /\ use' = [use EXCEPT ![s] = u] /\ want' = [want EXCEPT ![s] = r.link]
      /\ use \in [Segments -> Uses] /\ want \in [Segments -> Links \cup {NoLink}]
      /\ pool' = p /\ UNCHANGED <<stored, live, flush>>
  BY DEF Grant, IInv, TypeOK
<1>2. HeldData'
  <2> SUFFICES ASSUME NEW x \in Segments, use'[x] # "none"
               PROVE  Fits(pool, x, want[x], use[x])'
    BY DEF HeldData
  <2>1. CASE x = s
    BY <1>1, <2>1 DEF Fits
  <2>2. CASE x # s
    BY <1>1, <2>2 DEF DataInv, HeldData, Fits, SameContent
  <2> QED
    BY <2>1, <2>2
<1>3. CachedData'
  <2> SUFFICES ASSUME NEW x \in Range(p.standby)
               PROVE  /\ IsCopy(pool, x)'
                      /\ \/ StoreOf(p.seg[x].link) \in live
                         \/ /\ x \in Range(flush.todo)
                            /\ flush.store \in {AllStores, StoreOf(p.seg[x].link)}
    BY <1>1 DEF CachedData
  <2>1. x \in Range(pool.standby) /\ x \in Segments \ {s}
    BY CachedNotHeld
  <2> QED
    BY <1>1, <2>1 DEF DataInv, CachedData, IsCopy, SameContent
<1>4. RequestData'
  BY <1>1 DEF Grant, IInv, TypeOK, DataInv, RequestData, NoRequest
<1> QED
  BY <1>2, <1>3, <1>4 DEF DataInv

\* A holder gives its segment back.  If the segment gets into the cache it
\* is a complete copy.
LEMMA ReleaseData ==
    ASSUME IInv, DataInv, NEW s \in Segments, NEW p, Release(s, p),
           \A x \in Segments \ {s} : SameContent(pool, p, x),
           Range(p.standby) \subseteq Range(pool.standby) \cup {s},
           stored \subseteq stored',
           s \in Range(p.standby) =>
              /\ {"InUse", "ReadOnly", "Cacheable"} \subseteq p.seg[s].flags
              /\ p.seg[s].ready
              /\ p.seg[s].link \in stored'
              /\ StoreOf(p.seg[s].link) \in live
    PROVE  DataInv'
<1>1. /\ use' = [use EXCEPT ![s] = "none"] /\ want' = [want EXCEPT ![s] = NoLink]
      /\ use \in [Segments -> Uses] /\ want \in [Segments -> Links \cup {NoLink}]
      /\ pool' = p /\ UNCHANGED <<live, req, flush>>
  BY DEF Release, IInv, TypeOK
<1>2. HeldData'
  <2> SUFFICES ASSUME NEW x \in Segments, use'[x] # "none"
               PROVE  Fits(pool, x, want[x], use[x])'
    BY DEF HeldData
  <2>1. x # s /\ Fits(pool, x, want[x], use[x])
    BY <1>1 DEF DataInv, HeldData
  <2> QED
    BY <1>1, <2>1 DEF Fits, SameContent
<1>3. CachedData'
  <2> SUFFICES ASSUME NEW x \in Range(p.standby)
               PROVE  /\ IsCopy(pool, x)'
                      /\ \/ StoreOf(p.seg[x].link) \in live
                         \/ /\ x \in Range(flush.todo)
                            /\ flush.store \in {AllStores, StoreOf(p.seg[x].link)}
    BY <1>1 DEF CachedData
  <2>1. CASE x = s
    BY <1>1, <2>1 DEF IsCopy
  <2>2. CASE x # s
    <3>1. x \in Range(pool.standby) /\ x \in Segments \ {s}
      BY <2>2, CachedNotHeld
    <3> QED
      BY <1>1, <3>1 DEF DataInv, CachedData, IsCopy, SameContent
  <2> QED
    BY <2>1, <2>2
<1>4. RequestData'
  BY <1>1 DEF DataInv, RequestData
<1> QED
  BY <1>2, <1>3, <1>4 DEF DataInv

\* A holder goes on with its segment.
LEMMA UseData ==
    ASSUME IInv, DataInv, NEW s \in Segments, use[s] # "none", NEW u,
           use' = [use EXCEPT ![s] = u],
           \A x \in Segments \ {s} : SameContent(pool, pool', x),
           pool'.standby = pool.standby,
           Fits(pool', s, want[s], u),
           UNCHANGED <<want, stored, live, req, flush>>
    PROVE  DataInv'
<1>1. use \in [Segments -> Uses]
  BY DEF IInv, TypeOK
<1>2. HeldData'
  <2> SUFFICES ASSUME NEW x \in Segments, use'[x] # "none"
               PROVE  Fits(pool, x, want[x], use[x])'
    BY DEF HeldData
  <2>1. CASE x = s
    BY <1>1, <2>1 DEF Fits
  <2>2. CASE x # s
    BY <1>1, <2>2 DEF DataInv, HeldData, Fits, SameContent
  <2> QED
    BY <2>1, <2>2
<1>3. CachedData'
  <2> SUFFICES ASSUME NEW x \in Range(pool.standby)
               PROVE  /\ IsCopy(pool, x)'
                      /\ \/ StoreOf(pool'.seg[x].link) \in live
                         \/ /\ x \in Range(flush.todo)
                            /\ flush.store \in {AllStores, StoreOf(pool'.seg[x].link)}
    BY DEF CachedData
  <2>1. x \in Segments \ {s}
    BY CachedNotHeld
  <2> QED
    BY <2>1 DEF DataInv, CachedData, IsCopy, SameContent
<1>4. RequestData'
  BY DEF DataInv, RequestData
<1> QED
  BY <1>2, <1>3, <1>4 DEF DataInv

\* A step that only changes what a request knows.
LEMMA RequestOnlyData ==
    ASSUME DataInv, RequestData', UNCHANGED <<pool, use, want, stored, live, flush>>
    PROVE  DataInv'
BY DEF DataInv, HeldData, Fits, CachedData, IsCopy

-----------------------------------------------------------------------------
(* One lemma per action again, for the contents                            *)

\* The look-up in the standby list.  Only here it matters that the key tells
\* the links apart: the segment that is found is the one that was asked for.
LEMMA RequestSegmentData ==
    ASSUME KeyTellsApart, IInv, DataInv, NEW t \in Threads, NEW kind \in Kinds,
           NEW l \in Links \cup {NoLink}, NEW low \in BOOLEAN,
           RequestSegment(t, kind, l, low)
    PROVE  DataInv'
<1> DEFINE r == [pc |-> "dequeue", kind |-> kind, link |-> l,
                 low |-> low, try |-> 1]
           s == IF l = NoLink THEN NoSegment ELSE FindStandbySegment(pool, l)
<1>1. /\ l # NoLink => StoreOf(l) \in live
      /\ kind \in {"read", "prefetch"} => l \in stored
      /\ kind = "write" => l \notin stored
      /\ kind = "scratch" => l = NoLink
  BY DEF RequestSegment, MayRequest
<1>2. CASE s # NoSegment
  <2>1. Grant(t, s, DequeueFromStandbyList(pool, s, l), r, UseOfHit(kind))
    BY <1>2 DEF RequestSegment
  <2>2. l \in Links /\ s = pool.index[KeyOf(l)] /\ KeyOf(l) \in Keys
    BY <1>2 DEF FindStandbySegment, Keys
  <2>3. Consistent(pool) /\ pool \in PoolType
    BY DEF IInv, Consistent
  <2> HIDE DEF s
  <2>4. s \in Range(pool.standby) /\ KeyOf(pool.seg[s].link) = KeyOf(l)
    BY <1>2, <2>2, <2>3 DEF Consistent, Indexed
  <2>5. s \in Segments /\ pool.seg[s].link \in Links
    BY <2>3, <2>4, CachedNotHeld DEF Consistent, Indexed
  <2>6. pool.seg[s].link = l
    BY <2>2, <2>4, <2>5 DEF KeyTellsApart
  <2>7. PICK p : p = DequeueFromStandbyList(pool, s, l)
    OBVIOUS
  <2>8. /\ Range(p.standby) = Range(pool.standby) \ {s}
        /\ \A x \in Segments : SameContent(pool, p, x)
    <3>1. Range(p.standby) = Range(pool.standby) \ {s}
      <4>1. Dequeued(pool, s, l, p)
        BY <2>2, <2>3, <2>4, <2>7, DequeueFields DEF Consistent
      <4> QED
        BY <4>1 DEF Dequeued
    <3>2. \A x \in Segments : SameContent(pool, p, x)
      BY <2>3, <2>5, <2>7, DequeueContent
    <3> QED
      BY <3>1, <3>2
  <2>9. IsCopy(pool, s)
    BY <2>4 DEF DataInv, CachedData
  <2>10. kind \in {"read", "prefetch"}
    BY <1>1, <2>2, <2>6, <2>9, PoolAssumption DEF IsCopy, Kinds
  <2>11. Fits(p, s, l, UseOfHit(kind))
    BY <1>1, <2>5, <2>6, <2>8, <2>9, <2>10 DEF Fits, IsCopy, SameContent, UseOfHit
  <2>12. r.link = l
    OBVIOUS
  <2> HIDE DEF r
  <2> QED
    BY <2>1, <2>5, <2>7, <2>8, <2>11, <2>12, GrantData
<1>3. CASE s = NoSegment
  <2>1. /\ req' = [req EXCEPT ![t] = r]
        /\ UNCHANGED <<pool, use, want, stored, live, flush>>
    BY <1>3 DEF RequestSegment
  <2>2. r.link = l /\ r.kind = kind
    OBVIOUS
  <2> HIDE DEF r
  <2>3. RequestData'
    BY <1>1, <2>1, <2>2 DEF DataInv, RequestData, IInv, TypeOK
  <2> QED
    BY <2>1, <2>3, RequestOnlyData
<1> QED
  BY <1>2, <1>3

\* A request goes on, or gives up.
LEMMA RequestStepData ==
    ASSUME IInv, DataInv, NEW t \in Threads, req[t].pc # "idle", NEW r,
           r = NoRequest \/ (r.link = req[t].link /\ r.kind = req[t].kind),
           req' = [req EXCEPT ![t] = r],
           UNCHANGED <<pool, use, want, stored, live, flush>>
    PROVE  DataInv'
<1>1. r.pc # "idle" =>
        /\ r.link # NoLink => StoreOf(r.link) \in live
        /\ r.kind \in {"read", "prefetch"} => r.link \in stored
  BY DEF DataInv, RequestData, NoRequest
<1>2. RequestData'
  BY <1>1 DEF DataInv, RequestData, IInv, TypeOK
<1> QED
  BY <1>2, RequestOnlyData

\* A segment that was allocated for a request fits.
LEMMA NewFits ==
    ASSUME IInv, DataInv, NEW t \in Threads, req[t].pc # "idle",
           NEW s \in Segments, NEW p, p.seg[s].link = req[t].link,
           p.seg[s].flags = RequestFlags(req[t].kind, req[t].low)
    PROVE  Fits(p, s, req[t].link, UseOfNew(req[t].kind))
<1>1. /\ req[t].link # NoLink => StoreOf(req[t].link) \in live
      /\ req[t].kind \in {"read", "prefetch"} => req[t].link \in stored
  BY DEF DataInv, RequestData
<1>2. CASE req[t].kind = "scratch"
  BY <1>1, <1>2 DEF Fits, RequestFlags, UseOfNew
<1>3. CASE req[t].kind = "write"
  BY <1>1, <1>3 DEF Fits, RequestFlags, UseOfNew
<1>4. CASE req[t].kind = "read"
  BY <1>1, <1>4 DEF Fits, RequestFlags, UseOfNew
<1>5. CASE req[t].kind = "prefetch"
  BY <1>1, <1>5 DEF Fits, RequestFlags, UseOfNew
<1> QED
  BY <1>2, <1>3, <1>4, <1>5, RequestFields DEF Kinds

\* The free list.
LEMMA DequeueData ==
    ASSUME IInv, DataInv, NEW t \in Threads, Dequeue(t)
    PROVE  DataInv'
<1> DEFINE r == req[t]
<1>1. Consistent(pool) /\ pool \in PoolType /\ r.pc # "idle"
  BY DEF IInv, Consistent, Dequeue
<1>2. ASSUME NEW s \in pool.free,
             Grant(t, s, Allocated(DequeueFromFreeList(pool, s), s, r),
                   r, UseOfNew(r.kind))
      PROVE  DataInv'
  <2>1. s \in Segments
    BY <1>1, ListedType DEF Consistent, Listed
  <2>2. PICK p : p = AllocateSegment(DequeueFromFreeList(pool, s), s,
                                     r.kind, r.link, r.low)
    OBVIOUS
  <2>3. Taken(pool, s, r.link, p)
    BY <1>1, <2>2, RequestFields, AllocateConsistent DEF Kinds
  <2>4. TakenContent(pool, s, r.kind, r.low, p)
    BY <1>1, <2>2, RequestFields, TakeFreeContent DEF Kinds
  <2>5. Fits(p, s, r.link, UseOfNew(r.kind))
    BY <1>1, <2>1, <2>3, <2>4, NewFits DEF Taken, TakenContent
  <2>6. Grant(t, s, p, r, UseOfNew(r.kind))
    BY <1>2, <2>2 DEF Allocated
  <2> HIDE DEF r
  <2> QED
    BY <2>1, <2>4, <2>5, <2>6, GrantData DEF TakenContent
<1>3. ASSUME req' = [req EXCEPT ![t].pc = "evict"],
             UNCHANGED <<pool, use, want, stored, live, flush>>
      PROVE  DataInv'
  <2>1. PICK q : q = [req[t] EXCEPT !.pc = "evict"]
    OBVIOUS
  <2>2. q.link = req[t].link /\ q.kind = req[t].kind
    BY <2>1 DEF IInv, TypeOK, RequestType
  <2> QED
    BY <1>1, <1>3, <2>1, <2>2, RequestStepData
<1> QED
  BY <1>2, <1>3 DEF Dequeue

\* The eviction of the least recently used segment.
LEMMA EvictData ==
    ASSUME IInv, DataInv, NEW t \in Threads, Evict(t)
    PROVE  DataInv'
<1> DEFINE r == req[t]
           s == Last(pool.standby)
<1>1. Consistent(pool) /\ pool \in PoolType /\ r.pc # "idle"
  BY DEF IInv, Consistent, Evict
<1>2. ASSUME pool.standby # <<>>, StandbyUnlocked,
             Grant(t, s, Allocated(EvictFromStandbyList(pool), s, r),
                   r, UseOfNew(r.kind))
      PROVE  DataInv'
  <2>1. s \in Segments
    BY <1>1, <1>2, PoolFields, LastOfList
  <2>2. PICK p : p = AllocateSegment(EvictFromStandbyList(pool), s,
                                     r.kind, r.link, r.low)
    OBVIOUS
  <2>3. Taken(pool, s, r.link, p)
    BY <1>1, <1>2, <2>2, RequestFields, EvictConsistent DEF Kinds
  <2>4. TakenContent(pool, s, r.kind, r.low, p)
    <3>1. /\ s = Last(pool.standby)
          /\ r.kind \in {"write", "read", "prefetch", "scratch"}
          /\ r.link \in Links \cup {NoLink}
      BY RequestFields DEF Kinds
    <3> HIDE DEF r, s
    <3> QED
      BY <1>1, <1>2, <2>2, <3>1, TakeCachedContent
  <2>5. Fits(p, s, r.link, UseOfNew(r.kind))
    BY <1>1, <2>1, <2>3, <2>4, NewFits DEF Taken, TakenContent
  <2>6. Grant(t, s, p, r, UseOfNew(r.kind))
    BY <1>2, <2>2 DEF Allocated
  <2> HIDE DEF r, s
  <2> QED
    BY <2>1, <2>4, <2>5, <2>6, GrantData DEF TakenContent
<1>3. ASSUME req' = [req EXCEPT ![t].pc = "contend"],
             UNCHANGED <<pool, use, want, stored, live, flush>>
      PROVE  DataInv'
  <2>1. PICK q : q = [req[t] EXCEPT !.pc = "contend"]
    OBVIOUS
  <2>2. q.link = req[t].link /\ q.kind = req[t].kind
    BY <2>1 DEF IInv, TypeOK, RequestType
  <2> QED
    BY <1>1, <1>3, <2>1, <2>2, RequestStepData
<1> QED
  BY <1>2, <1>3 DEF Evict

\* The next attempt, or none.
LEMMA ContendData ==
    ASSUME IInv, DataInv, NEW t \in Threads, Contend(t)
    PROVE  DataInv'
<1>1. PICK q : /\ q = NoRequest \/ q = [req[t] EXCEPT !.pc = "dequeue", !.try = @ + 1]
               /\ req' = [req EXCEPT ![t] = q]
  BY DEF Contend
<1>2. q = NoRequest \/ (q.link = req[t].link /\ q.kind = req[t].kind)
  BY <1>1 DEF IInv, TypeOK, RequestType
<1>3. /\ req[t].pc # "idle"
      /\ UNCHANGED <<pool, use, want, stored, live, flush>>
  BY DEF Contend
<1> QED
  BY <1>1, <1>2, <1>3, RequestStepData

\* purgeSegment of a held segment.
LEMMA PurgeData ==
    ASSUME IInv, DataInv, NEW s \in Segments, use[s] # "none",
           Release(s, PurgeSegment(pool, s)), UNCHANGED stored
    PROVE  DataInv'
<1>1. PICK p : p = PurgeSegment(pool, s)
  OBVIOUS
<1>2. /\ p.standby = pool.standby
      /\ \A x \in Segments \ {s} : SameContent(pool, p, x)
  BY <1>1, PurgeFields DEF IInv, Consistent, SameContent
<1>3. s \notin Range(p.standby) /\ Release(s, p) /\ stored \subseteq stored'
  BY <1>1, <1>2, CachedNotHeld
<1> QED
  BY <1>2, <1>3, ReleaseData

\* freeSegment of a complete segment of a stream.
LEMMA FreeData ==
    ASSUME IInv, DataInv, NEW s \in Segments,
           use[s] \in {"reading", "prefetched", "encoding"},
           NEW prefetch, Free(s, prefetch),
           stored \subseteq stored', want[s] \in stored'
    PROVE  DataInv'
<1>1. s \in Segments \ Listed(pool) /\ Consistent(pool)
  BY HeldUnlisted
<1>2. /\ pool.seg[s].link \in Links /\ pool.seg[s].link = want[s]
      /\ "InUse" \in pool.seg[s].flags /\ pool.seg[s].ready
      /\ StoreOf(pool.seg[s].link) \in live
  BY PoolAssumption DEF IInv, HeldHasOwner, DataInv, HeldData, Fits
<1>3. PICK p : p = FreeSegment(pool, s, prefetch)
  OBVIOUS
<1>4. FreedContent(pool, s, p)
  BY <1>1, <1>2, <1>3, FreeContent
<1>5. s \in Range(p.standby) =>
         /\ {"InUse", "ReadOnly", "Cacheable"} \subseteq p.seg[s].flags
         /\ p.seg[s].ready
         /\ p.seg[s].link \in stored'
         /\ StoreOf(p.seg[s].link) \in live
  BY <1>2, <1>4 DEF FreedContent
<1>6. Release(s, p)
  BY <1>3 DEF Free
<1> QED
  BY <1>4, <1>5, <1>6, ReleaseData DEF FreedContent

\* submitSegment without entries.
LEMMA SubmitEmptyData ==
    ASSUME IInv, DataInv, NEW s \in Segments, SubmitEmpty(s)
    PROVE  DataInv'
<1>1. pool \in PoolType
  BY DEF IInv, Consistent
<1>2. PICK o : o = SubmitWritten(pool, s)
  OBVIOUS
<1>3. /\ o \in PoolType /\ o.standby = pool.standby
      /\ \A x \in Segments : SameContent(pool, o, x)
  BY <1>1, <1>2, MarkFields, SubmitWrittenContent
<1>4. PICK p : p = PurgeSegment(o, s)
  OBVIOUS
<1>5. /\ p.standby = pool.standby
      /\ \A x \in Segments \ {s} : SameContent(pool, p, x)
  BY <1>3, <1>4, PurgeFields DEF SameContent
<1>6. s \notin Range(p.standby) /\ Release(s, p) /\ stored \subseteq stored'
  BY <1>2, <1>4, <1>5, CachedNotHeld DEF SubmitEmpty
<1> QED
  BY <1>5, <1>6, ReleaseData

\* submitSegment of a written segment.
LEMMA SubmitWriteData ==
    ASSUME IInv, DataInv, NEW s \in Segments, SubmitWrite(s)
    PROVE  DataInv'
<1>1. pool \in PoolType /\ use[s] = "writing"
  BY DEF IInv, Consistent, SubmitWrite
<1>2. PICK o : o = SubmitWritten(pool, s)
  OBVIOUS
<1>3. /\ o \in PoolType /\ o.standby = pool.standby
      /\ \A x \in Segments : SameContent(pool, o, x)
  BY <1>1, <1>2, MarkFields, SubmitWrittenContent
<1>4. PICK p : p = MarkReady(o, s)
  OBVIOUS
<1>5. /\ p.standby = pool.standby
      /\ p.seg[s].flags = pool.seg[s].flags /\ p.seg[s].link = pool.seg[s].link
      /\ p.seg[s].ready
      /\ \A x \in Segments \ {s} : SameContent(pool, p, x)
  BY <1>3, <1>4, MarkFields, MarkReadyContent DEF SameContent
<1>6. Fits(p, s, want[s], "encoding")
  BY <1>1, <1>5 DEF DataInv, HeldData, Fits
<1>7. /\ pool' = p /\ use' = [use EXCEPT ![s] = "encoding"]
      /\ UNCHANGED <<want, stored, live, req, flush>>
  BY <1>2, <1>4 DEF SubmitWrite
<1> QED
  BY <1>1, <1>5, <1>6, <1>7, UseData

\* encoder.read has decoded the segment.
LEMMA DecodeOkData ==
    ASSUME IInv, DataInv, NEW s \in Segments, DecodeOk(s)
    PROVE  DataInv'
<1> DEFINE u == IF use[s] = "loading" THEN "reading" ELSE "prefetched"
<1>1. pool \in PoolType /\ use[s] \in {"loading", "prefetching"}
  BY DEF IInv, Consistent, DecodeOk
<1>2. /\ pool'.standby = pool.standby
      /\ pool'.seg[s].flags = pool.seg[s].flags /\ pool'.seg[s].link = pool.seg[s].link
      /\ pool'.seg[s].ready
      /\ \A x \in Segments \ {s} : SameContent(pool, pool', x)
  BY <1>1, MarkFields, MarkReadyContent DEF DecodeOk
<1>3. Fits(pool', s, want[s], u)
  BY <1>1, <1>2 DEF DataInv, HeldData, Fits
<1>4. /\ use' = [use EXCEPT ![s] = u]
      /\ UNCHANGED <<want, stored, live, req, flush>>
  BY DEF DecodeOk
<1> HIDE DEF u
<1> QED
  BY <1>1, <1>2, <1>3, <1>4, UseData

\* An open takes a read-ahead over.
LEMMA TakeOverData ==
    ASSUME IInv, DataInv, NEW s \in Segments, TakeOver(s)
    PROVE  DataInv'
<1> DEFINE u == IF use[s] = "prefetching" THEN "loading" ELSE "reading"
<1>1. use[s] \in {"prefetching", "prefetched"} /\ pool' = pool
  BY DEF TakeOver
<1>2. Fits(pool, s, want[s], u)
  BY <1>1 DEF DataInv, HeldData, Fits
<1>3. /\ use' = [use EXCEPT ![s] = u]
      /\ UNCHANGED <<want, stored, live, req, flush>>
  BY DEF TakeOver
<1>4. \A x \in Segments : SameContent(pool, pool, x)
  BY DEF SameContent
<1> HIDE DEF u
<1> QED
  BY <1>1, <1>2, <1>3, <1>4, UseData

\* The encoder has stored the segment.
LEMMA EncodeOkData ==
    ASSUME IInv, DataInv, NEW s \in Segments, EncodeOk(s)
    PROVE  DataInv'
BY FreeData DEF EncodeOk

\* A reader closes its segment, or a read-ahead ends.
LEMMA CloseReadData ==
    ASSUME IInv, DataInv, NEW s \in Segments, SubmitRead(s) \/ FreePrefetched(s)
    PROVE  DataInv'
<1>1. /\ use[s] \in {"reading", "prefetched"} /\ stored' = stored
      /\ Free(s, FALSE) \/ Free(s, TRUE)
  BY DEF SubmitRead, FreePrefetched
<1>2. want[s] \in stored
  BY <1>1 DEF DataInv, HeldData, Fits
<1> QED
  BY <1>1, <1>2, FreeData

\* flushStandbyList takes the lock: every segment of the cache is one it has
\* to look at, and nobody uses the store that goes.
LEMMA FlushBeginData ==
    ASSUME IInv, DataInv, NEW store \in Stores \cup {AllStores}, FlushBegin(store)
    PROVE  DataInv'
<1>1. /\ flush' = [store |-> store, todo |-> pool.standby]
      /\ live' = IF store = AllStores THEN {} ELSE live \ {store}
      /\ Unused(store) /\ StandbyUnlocked
      /\ UNCHANGED <<pool, use, want, stored, req>>
  BY DEF FlushBegin
<1>2. ASSUME NEW l, l # NoLink, StoreOf(l) \in live, ~Concerns(l, store)
      PROVE  StoreOf(l) \in live'
  BY <1>1, <1>2 DEF Concerns
<1>3. HeldData'
  <2> SUFFICES ASSUME NEW x \in Segments, use[x] # "none"
               PROVE  Fits(pool, x, want[x], use[x])'
    BY <1>1 DEF HeldData
  <2>1. Fits(pool, x, want[x], use[x]) /\ ~Concerns(want[x], store)
    BY <1>1 DEF DataInv, HeldData, Unused
  <2>2. want[x] # NoLink => StoreOf(want[x]) \in live'
    BY <1>2, <2>1 DEF Fits
  <2> QED
    BY <1>1, <2>1, <2>2 DEF Fits
<1>4. CachedData'
  <2> SUFFICES ASSUME NEW x \in Range(pool.standby)
               PROVE  /\ IsCopy(pool, x)'
                      /\ \/ StoreOf(pool.seg[x].link) \in live'
                         \/ /\ x \in Range(pool.standby)
                            /\ store \in {AllStores, StoreOf(pool.seg[x].link)}
    BY <1>1 DEF CachedData
  <2>1. IsCopy(pool, x)'
    BY <1>1 DEF DataInv, CachedData, IsCopy
  <2>2. StoreOf(pool.seg[x].link) \in live
    <3>1. flush.todo = <<>>
      BY <1>1 DEF IInv, FlushListed
    <3>2. x \notin Range(flush.todo)
      BY <3>1 DEF Range
    <3> QED
      BY <3>2 DEF DataInv, CachedData
  <2> QED
    BY <1>1, <2>1, <2>2
<1>5. RequestData'
  <2> SUFFICES ASSUME NEW t \in Threads, req[t].pc # "idle"
               PROVE  /\ req[t].link # NoLink => StoreOf(req[t].link) \in live'
                      /\ req[t].kind \in {"read", "prefetch"} => req[t].link \in stored
    BY <1>1 DEF RequestData
  <2>1. ~Concerns(req[t].link, store)
    BY <1>1 DEF Unused
  <2> QED
    BY <1>2, <2>1 DEF DataInv, RequestData
<1> QED
  BY <1>3, <1>4, <1>5 DEF DataInv

\* One turn of the loop: a segment of the store that goes leaves the cache.
LEMMA FlushStepData ==
    ASSUME IInv, DataInv, FlushStep
    PROVE  DataInv'
<1>1. PICK s : s = Head(flush.todo)
  OBVIOUS
<1>2. /\ s \in Range(pool.standby) /\ Consistent(pool)
      /\ Range(Tail(flush.todo)) = Range(flush.todo) \ {s}
  <2>1. /\ flush.todo \in Seq(Segments) /\ flush.todo # <<>>
        /\ Distinct(flush.todo) /\ Range(flush.todo) \subseteq Range(pool.standby)
    BY DEF IInv, TypeOK, FlushListed, FlushStep
  <2> QED
    BY <1>1, <2>1, TailOfList DEF IInv
<1>3. /\ pool' = IF flush.store \in {AllStores, StoreOf(pool.seg[s].link)}
                 THEN FlushSegment(pool, s)
                 ELSE pool
      /\ UNCHANGED <<use, want, stored, live, req>>
  BY <1>1 DEF FlushStep
<1>4. flush'.store = flush.store /\ flush'.todo = Tail(flush.todo)
  BY DEF FlushStep, IInv, TypeOK
<1>5. /\ \A x \in Segments \ {s} : SameContent(pool, pool', x)
      /\ Range(pool'.standby) \subseteq Range(pool.standby)
      /\ s \in Range(pool'.standby) =>
            /\ pool' = pool
            /\ flush.store \notin {AllStores, StoreOf(pool.seg[s].link)}
  <2>1. CASE flush.store \in {AllStores, StoreOf(pool.seg[s].link)}
    <3>1. pool' = FlushSegment(pool, s)
      BY <1>3, <2>1
    <3>2. Range(pool'.standby) = Range(pool.standby) \ {s}
      BY <1>2, <3>1, FlushConsistent
    <3> QED
      BY <1>2, <3>1, <3>2, FlushContent
  <2>2. CASE flush.store \notin {AllStores, StoreOf(pool.seg[s].link)}
    BY <1>3, <2>2 DEF SameContent
  <2> QED
    BY <2>1, <2>2
<1>6. HeldData'
  <2> SUFFICES ASSUME NEW x \in Segments, use[x] # "none"
               PROVE  Fits(pool, x, want[x], use[x])'
    BY <1>3 DEF HeldData
  <2>1. x \in Segments \ {s}
    BY <1>2, CachedNotHeld
  <2> QED
    BY <1>3, <1>5, <2>1 DEF DataInv, HeldData, Fits, SameContent
<1>7. CachedData'
  <2> SUFFICES ASSUME NEW x \in Range(pool'.standby)
               PROVE  /\ IsCopy(pool, x)'
                      /\ \/ StoreOf(pool'.seg[x].link) \in live
                         \/ /\ x \in Range(Tail(flush.todo))
                            /\ flush.store \in {AllStores, StoreOf(pool'.seg[x].link)}
    BY <1>3, <1>4 DEF CachedData
  <2>1. /\ IsCopy(pool, x)
        /\ \/ StoreOf(pool.seg[x].link) \in live
           \/ /\ x \in Range(flush.todo)
              /\ flush.store \in {AllStores, StoreOf(pool.seg[x].link)}
    BY <1>5 DEF DataInv, CachedData
  <2>2. CASE x = s
    BY <1>3, <1>5, <2>1, <2>2 DEF IsCopy
  <2>3. CASE x # s
    <3>1. x \in Segments \ {s}
      BY <1>5, <2>3, CachedNotHeld
    <3> QED
      BY <1>2, <1>3, <1>5, <2>1, <2>3, <3>1 DEF IsCopy, SameContent
  <2> QED
    BY <2>2, <2>3
<1>8. RequestData'
  BY <1>3 DEF DataInv, RequestData
<1> QED
  BY <1>6, <1>7, <1>8 DEF DataInv

\* flushStandbyList releases the lock when it has looked at every segment.
LEMMA FlushEndData ==
    ASSUME DataInv, FlushEnd
    PROVE  DataInv'
<1>1. flush.todo = <<>> /\ UNCHANGED <<pool, use, want, stored, live, req>>
  BY DEF FlushEnd
<1>2. Range(flush.todo) = {}
  BY <1>1 DEF Range
<1>3. HeldData'
  BY <1>1 DEF DataInv, HeldData, Fits
<1>4. CachedData'
  BY <1>1, <1>2 DEF DataInv, CachedData, IsCopy
<1>5. RequestData'
  BY <1>1 DEF DataInv, RequestData
<1> QED
  BY <1>3, <1>4, <1>5 DEF DataInv

-----------------------------------------------------------------------------
\* Every step keeps the contents right.
LEMMA NextData ==
    ASSUME KeyTellsApart, IInv, DataInv, [Next]_vars
    PROVE  DataInv'
<1>1. ASSUME NEW t \in Threads, Request(t) PROVE DataInv'
  BY <1>1, RequestSegmentData DEF Request
<1>2. ASSUME NEW t \in Threads, Dequeue(t) \/ Evict(t) \/ Contend(t) PROVE DataInv'
  BY <1>2, DequeueData, EvictData, ContendData
<1>3. ASSUME NEW s \in Segments, SubmitEmpty(s) \/ SubmitWrite(s) PROVE DataInv'
  BY <1>3, SubmitEmptyData, SubmitWriteData
<1>4. ASSUME NEW s \in Segments, Complete(s) \/ TakeOver(s) PROVE DataInv'
  <2>1. CASE EncodeFail(s) \/ DecodeFail(s)
    BY <2>1, PurgeData DEF EncodeFail, DecodeFail
  <2>2. CASE EncodeOk(s) \/ DecodeOk(s) \/ TakeOver(s)
    BY <2>2, EncodeOkData, DecodeOkData, TakeOverData
  <2> QED
    BY <1>4, <2>1, <2>2 DEF Complete
<1>5. ASSUME NEW s \in Segments, SubmitRead(s) \/ FreePrefetched(s) PROVE DataInv'
  BY <1>5, CloseReadData
<1>6. ASSUME NEW s \in Segments, FreeScratch(s) PROVE DataInv'
  BY <1>6, PurgeData DEF FreeScratch
<1>7. ASSUME NEW store \in Stores \cup {AllStores}, FlushBegin(store) PROVE DataInv'
  BY <1>7, FlushBeginData
<1>8. CASE FlushStep \/ FlushEnd
  BY <1>8, FlushStepData, FlushEndData
<1>9. CASE UNCHANGED vars
  BY <1>9 DEF vars, DataInv, HeldData, Fits, CachedData, IsCopy, RequestData
<1> QED
  BY <1>1, <1>2, <1>3, <1>4, <1>5, <1>6, <1>7, <1>8, <1>9 DEF Next

\* The contents of the segments are right in every reachable state.
THEOREM DataInvariant == ASSUME KeyTellsApart PROVE Spec => []DataInv
<1>1. IInv /\ DataInv /\ [Next]_vars => DataInv'
  BY NextData
<1> QED
  BY <1>1, Invariant, InitData, PTL DEF Spec

\* The cache holds only complete, read-only copies of what a store holds,
\* and after flushStandbyList nothing of a store that is gone, if LinkHash
\* and the equality of links give every link a key of its own.
THEOREM CacheTrue == ASSUME KeyTellsApart PROVE Spec => []CacheFaithful
<1>1. IInv /\ DataInv => CacheFaithful
  <2> SUFFICES ASSUME IInv, DataInv, NEW s \in Range(pool.standby)
               PROVE  /\ IsCopy(pool, s)
                      /\ StandbyUnlocked => StoreOf(pool.seg[s].link) \in live
    BY DEF CacheFaithful, IsCopy
  <2>1. StandbyUnlocked => s \notin Range(flush.todo)
    BY DEF IInv, FlushListed, Range
  <2> QED
    BY <2>1 DEF DataInv, CachedData
<1> QED
  BY <1>1, Invariant, DataInvariant, PTL

\* Whoever asked for a segment has that segment; what a reader has is
\* complete and no writer has a read-only segment, under the same condition.
THEOREM HolderTrue == ASSUME KeyTellsApart PROVE Spec => []HolderFaithful
<1>1. DataInv => HolderFaithful
  BY DEF DataInv, HeldData, Fits, HolderFaithful
<1> QED
  BY <1>1, DataInvariant, PTL

-----------------------------------------------------------------------------
(***************************************************************************)
(* The free list, for any number of threads and segments: until ABA it     *)
(* loses no segment, gives none to two threads, and implements SegmentSet. *)
(*                                                                         *)
(* The argument: a segment that a thread has read from _freeHead stays on  *)
(* the list, with the segment behind it, until some thread takes a         *)
(* segment; all that the others do before that is to put segments before   *)
(* it.  So a head that looks unchanged is unchanged, or the thread that    *)
(* compares it is one of the history variable stale, and its success is    *)
(* ABA.                                                                    *)
(***************************************************************************)

Pointer == SegmentIds \cup {Null}
NextLinks == [SegmentIds -> Pointer]

\* R holds head and, with a segment, the one after it.
Closed(R, head, after) ==
    /\ head \in R \cup {Null}
    /\ \A q \in R : after[q] \in R \cup {Null}

-----------------------------------------------------------------------------
(* What can be reached                                                     *)

\* The reachable segments are such a set, and the least one.
LEMMA ReachableClosed ==
    ASSUME NEW h \in Pointer, NEW n \in NextLinks
    PROVE  /\ Reachable(h, n) \subseteq SegmentIds
           /\ Closed(Reachable(h, n), h, n)
           /\ \A R \in SUBSET SegmentIds : Closed(R, h, n) => Reachable(h, n) \subseteq R
<1>1. Reachable(h, n) \subseteq SegmentIds
  BY DEF Reachable
<1>2. \A R \in SUBSET SegmentIds : Closed(R, h, n) => Reachable(h, n) \subseteq R
  BY DEF Reachable, Closed
<1>3. h \in Reachable(h, n) \cup {Null}
  BY DEF Reachable, Pointer
<1>4. ASSUME NEW q \in Reachable(h, n), n[q] # Null PROVE n[q] \in Reachable(h, n)
  <2>1. q \in SegmentIds /\ n[q] \in SegmentIds
    BY <1>1, <1>4 DEF NextLinks, Pointer
  <2>2. ASSUME NEW R \in SUBSET SegmentIds, Closed(R, h, n) PROVE n[q] \in R
    <3>1. q \in R
      BY <1>2, <2>2
    <3> QED
      BY <1>4, <2>2, <3>1 DEF Closed
  <2> QED
    BY <2>1, <2>2 DEF Reachable, Closed
<1> QED
  BY <1>1, <1>2, <1>3, <1>4 DEF Closed

\* The link of a segment that is not reachable does not matter.
LEMMA LinkElsewhere ==
    ASSUME NEW h \in Pointer, NEW n \in NextLinks, NEW m \in NextLinks, NEW x \in SegmentIds,
           x \notin Reachable(h, n), \A q \in SegmentIds : q # x => m[q] = n[q]
    PROVE  Reachable(h, m) = Reachable(h, n)
<1>2. PICK A \in SUBSET SegmentIds : A = Reachable(h, n)
  BY DEF Reachable
<1>3. PICK B \in SUBSET SegmentIds : B = Reachable(h, m)
  BY DEF Reachable
<1>4. Closed(A, h, n) /\ \A R \in SUBSET SegmentIds : Closed(R, h, n) => A \subseteq R
  BY <1>2, ReachableClosed
<1>5. Closed(B, h, m) /\ \A R \in SUBSET SegmentIds : Closed(R, h, m) => B \subseteq R
  BY <1>3, ReachableClosed
<1>7. B \subseteq A
  <2>1. Closed(A, h, m)
    BY <1>2, <1>4 DEF Closed
  <2> QED
    BY <1>5, <2>1
<1>8. A \subseteq B
  <2>1. Closed(A \cap B, h, n)
    <3>1. h \in (A \cap B) \cup {Null}
      BY <1>4, <1>5 DEF Closed
    <3>2. ASSUME NEW q \in A \cap B PROVE n[q] \in (A \cap B) \cup {Null}
      <4>1. n[q] = m[q]
        BY <1>2
      <4> QED
        BY <4>1, <1>4, <1>5 DEF Closed
    <3> QED
      BY <3>1, <3>2 DEF Closed
  <2> QED
    BY <1>4, <2>1
<1> QED
  BY <1>2, <1>3, <1>7, <1>8

\* A segment before the head is reached with what was reached from there.
LEMMA Pushed ==
    ASSUME NEW h \in Pointer, NEW n \in NextLinks, NEW x \in SegmentIds, n[x] = h
    PROVE  Reachable(x, n) = Reachable(h, n) \cup {x}
<1>1. PICK A \in SUBSET SegmentIds : A = Reachable(h, n)
  BY DEF Reachable
<1>2. PICK B \in SUBSET SegmentIds : B = Reachable(x, n)
  BY DEF Reachable
<1>3. Closed(A, h, n) /\ \A R \in SUBSET SegmentIds : Closed(R, h, n) => A \subseteq R
  BY <1>1, ReachableClosed
<1>4. Closed(B, x, n) /\ \A R \in SUBSET SegmentIds : Closed(R, x, n) => B \subseteq R
  <2>1. x \in Pointer
    BY DEF Pointer
  <2> QED
    BY <1>2, <2>1, ReachableClosed
<1>5. B \subseteq A \cup {x}
  <2>1. Closed(A \cup {x}, x, n)
    BY <1>3 DEF Closed
  <2> QED
    BY <1>4, <2>1
<1>6. x \in B
  BY <1>4, FreeListAssumption DEF Closed
<1>7. A \subseteq B
  <2>1. Closed(B, h, n)
    BY <1>4, <1>6 DEF Closed
  <2> QED
    BY <1>3, <2>1
<1> QED
  BY <1>1, <1>2, <1>5, <1>6, <1>7

\* r falls along the list.
Falls(r, h, n) ==
    /\ r \in [SegmentIds -> Nat]
    /\ \A q \in Reachable(h, n) : n[q] # Null => r[n[q]] < r[q]

\* What is reached from the segment behind the head is the rest.
LEMMA Popped ==
    ASSUME NEW h \in SegmentIds, NEW n \in NextLinks, NEW r, Falls(r, h, n)
    PROVE  h \in Reachable(h, n) /\ Reachable(n[h], n) = Reachable(h, n) \ {h}
<1>1. PICK A \in SUBSET SegmentIds : A = Reachable(h, n)
  BY DEF Reachable
<1>2. n[h] \in Pointer /\ h \in Pointer /\ h # Null
  BY FreeListAssumption DEF NextLinks, Pointer
<1>3. PICK B \in SUBSET SegmentIds : B = Reachable(n[h], n)
  BY DEF Reachable
<1>4. Closed(A, h, n) /\ \A R \in SUBSET SegmentIds : Closed(R, h, n) => A \subseteq R
  BY <1>1, <1>2, ReachableClosed
<1>5. Closed(B, n[h], n) /\ \A R \in SUBSET SegmentIds : Closed(R, n[h], n) => B \subseteq R
  BY <1>2, <1>3, ReachableClosed
<1>6. h \in A
  BY <1>2, <1>4 DEF Closed
<1>7. \A q \in A : n[q] # Null => r[n[q]] < r[q]
  BY <1>1 DEF Falls
<1>8. \A q \in A : r[q] <= r[h]
  <2>1. PICK T \in SUBSET SegmentIds : T = {q \in A : r[q] <= r[h]}
    OBVIOUS
  <2>2. \A q \in SegmentIds : r[q] \in Nat
    BY DEF Falls
  <2>3. Closed(T, h, n)
    <3>1. h \in T
      BY <1>6, <2>1, <2>2
    <3>2. ASSUME NEW q \in T, n[q] # Null PROVE n[q] \in T
      <4>1. n[q] \in A /\ q \in A /\ r[q] <= r[h] /\ r[n[q]] < r[q]
        BY <1>4, <1>7, <2>1, <3>2 DEF Closed
      <4> QED
        BY <2>1, <2>2, <4>1
    <3> QED
      BY <3>1, <3>2 DEF Closed
  <2> QED
    BY <1>4, <2>1, <2>3
<1>9. ASSUME NEW q \in A, n[q] = h PROVE FALSE
  <2>1. r[h] < r[q] /\ r[q] <= r[h] /\ r[q] \in Nat /\ r[h] \in Nat
    BY <1>2, <1>7, <1>8, <1>9 DEF Falls
  <2> QED
    BY <2>1
<1>10. B \subseteq A \ {h}
  <2>1. Closed(A \ {h}, n[h], n)
    BY <1>4, <1>6, <1>9 DEF Closed
  <2> QED
    BY <1>5, <2>1
<1>11. A \subseteq B \cup {h}
  <2>1. Closed(B \cup {h}, h, n)
    BY <1>5 DEF Closed
  <2> QED
    BY <1>4, <2>1
<1> QED
  BY <1>1, <1>3, <1>6, <1>10, <1>11

-----------------------------------------------------------------------------
(* The invariant                                                           *)

ListedFree == \A s \in OnList : flags[s] = "free"

\* No segment was taken since the thread read the head.
Fresh(t) == pc[t] \in {"load", "swap"} /\ t \notin stale

\* What a thread has just read is still so, and it owns what it changes.
ThreadInv(t) ==
    /\ pc[t] \in {"load", "swap"} => seg[t] \in SegmentIds
    /\ Fresh(t) => seg[t] \in OnList /\ (pc[t] = "swap" => succ[t] = next[seg[t]])
    /\ pc[t] \in {"taken", "link", "publish"} => seg[t] \in held[t] /\ flags[seg[t]] = "free"

\* The list ends.
RankInv == \E r : Falls(r, freeHead, next)

ListInv == ListTypeOK /\ Intact /\ ListedFree /\ (\A t \in Callers : ThreadInv(t)) /\ RankInv

\* What all threads own
Owned == UNION {held[u] : u \in Callers}

Same == OnList' = OnList /\ Owned' = Owned
Takes == \E x \in OnList : OnList' = OnList \ {x} /\ Owned' = Owned \cup {x}
Gives == \E x \in Owned : OnList' = OnList \cup {x} /\ Owned' = Owned \ {x}

\* The head is on the list, and nothing but segments is.
LEMMA ListedTypes ==
    ASSUME ListTypeOK
    PROVE  /\ freeHead \in Pointer /\ next \in NextLinks /\ OnList \subseteq SegmentIds
           /\ freeHead # Null => freeHead \in OnList
<1>1. freeHead \in Pointer /\ next \in NextLinks
  BY DEF ListTypeOK, Pointer, NextLinks
<1>2. Closed(OnList, freeHead, next) /\ OnList \subseteq SegmentIds
  BY <1>1, ReachableClosed DEF OnList
<1> QED
  BY <1>1, <1>2 DEF Closed

\* The head, the links and the owners stay.
LEMMA QuietKeeps ==
    ASSUME ListInv, ListTypeOK', UNCHANGED <<freeHead, next, held, flags>>,
           \A t \in Callers : ThreadInv(t)'
    PROVE  ListInv' /\ Same
<1>1. OnList' = OnList
  BY DEF OnList
<1>2. Intact' /\ Owned' = Owned
  BY <1>1 DEF ListInv, Intact, Owned
<1>3. ListedFree' /\ RankInv'
  BY <1>1 DEF ListInv, ListedFree, RankInv
<1> QED
  BY <1>1, <1>2, <1>3 DEF ListInv, Same

\* The link of a segment that a thread owns is set.
LEMMA Relinked ==
    ASSUME ListInv, NEW t \in Callers, NEW x \in held[t], NEW v \in Pointer,
           next' = [next EXCEPT ![x] = v], freeHead' = freeHead
    PROVE  /\ OnList' = OnList /\ RankInv' /\ next' \in NextLinks
           /\ \A s \in SegmentIds : s # x => next'[s] = next[s]
<1>1. ListTypeOK /\ freeHead \in Pointer /\ next \in NextLinks /\ x \in SegmentIds /\ x \notin OnList
  BY ListedTypes DEF ListInv, ListTypeOK, Intact
<1>2. next' \in NextLinks /\ \A s \in SegmentIds : s # x => next'[s] = next[s]
  BY <1>1 DEF NextLinks, Pointer
<1>4. Reachable(freeHead, next') = Reachable(freeHead, next)
  BY <1>1, <1>2, LinkElsewhere DEF OnList
<1>3. OnList' = OnList
  BY <1>4 DEF OnList
<1>5. PICK r : Falls(r, freeHead, next)
  BY DEF ListInv, RankInv
<1>6. Falls(r, freeHead', next')
  <2>1. \A q \in OnList : q \in SegmentIds /\ q # x
    BY <1>1, ListedTypes
  <2> QED
    BY <2>1, <1>2, <1>4, <1>5 DEF Falls, OnList
<1> QED
  BY <1>2, <1>3, <1>6 DEF RankInv

\* _dequeueFromFreeList: the head and its link are read.
LEMMA ReadKeeps ==
    ASSUME ListInv, NEW t \in Callers, ReadHead(t) \/ ReadNext(t)
    PROVE  ListInv' /\ Same
<1>1. UNCHANGED <<freeHead, next, held, flags>> /\ OnList' = OnList
  BY DEF ReadHead, ReadNext, OnList
<1>2. ListTypeOK'
  <2>1. ListTypeOK
    BY DEF ListInv
  <2>2. CASE ReadHead(t)
    BY <2>1, <2>2 DEF ListTypeOK, ReadHead, RereadsHead
  <2>3. CASE ReadNext(t)
    <3>1. seg[t] \in SegmentIds
      BY <2>3, ListedTypes DEF ListInv, ThreadInv, ReadNext
    <3>2. next[seg[t]] \in SegmentIds \cup {Null}
      BY <2>1, <3>1 DEF ListTypeOK
    <3> QED
      BY <2>1, <2>3, <3>2 DEF ListTypeOK, ReadNext, history
  <2> QED
    BY <2>2, <2>3
<1>3. ASSUME NEW u \in Callers PROVE ThreadInv(u)'
  <2>1. CASE u # t
    <3>1. pc'[u] = pc[u] /\ seg'[u] = seg[u] /\ succ'[u] = succ[u] /\ (u \in stale' <=> u \in stale)
      BY <2>1 DEF ListInv, ListTypeOK, ReadHead, ReadNext, RereadsHead, history
    <3> QED
      BY <1>1, <2>1, <3>1 DEF ListInv, ThreadInv, Fresh
  <2>2. CASE u = t /\ ReadHead(t)
    <3>1. freeHead \in OnList /\ pc'[t] = "load" /\ seg'[t] = freeHead /\ freeHead \in SegmentIds
      BY <2>2, ListedTypes DEF ListInv, ListTypeOK, ReadHead
    <3> QED
      BY <1>1, <2>2, <3>1 DEF ThreadInv
  <2>3. CASE u = t /\ ReadNext(t)
    <3>1. /\ pc[t] = "load" /\ pc'[t] = "swap" /\ seg' = seg /\ succ'[t] = next[seg[t]]
          /\ stale' = stale
      BY <2>3 DEF ListInv, ListTypeOK, ReadNext, history
    <3> QED
      BY <1>1, <2>3, <3>1 DEF ListInv, ThreadInv, Fresh
  <2> QED
    BY <2>1, <2>2, <2>3
<1> QED
  BY <1>1, <1>2, <1>3, QuietKeeps

\* The compare-and-swap of the head
LEMMA SwapKeeps ==
    ASSUME ListInv, NEW t \in Callers, SwapHead(t)
    PROVE  aba' \/ (ListInv' /\ (Same \/ Takes))
<1>1. pc[t] = "swap" /\ UNCHANGED <<next, flags, succ>> /\ ListTypeOK
  BY DEF SwapHead, ListInv
<1>2. /\ seg[t] \in SegmentIds
      /\ t \notin stale => seg[t] \in OnList /\ succ[t] = next[seg[t]]
  BY <1>1 DEF ListInv, ThreadInv, Fresh
<1>3. ListTypeOK'
  <2>1. stale' \subseteq Callers /\ aba' \in BOOLEAN
    BY <1>1 DEF ListTypeOK, SwapHead, TakesHead, RereadsHead, Taking
  <2>2. freeHead' \in SegmentIds \cup {Null}
    BY <1>1 DEF ListTypeOK, SwapHead
  <2>3. held' \in [Callers -> SUBSET SegmentIds]
    BY <1>1, <1>2 DEF ListTypeOK, SwapHead
  <2>4. pc' \in [Callers -> {"idle", "load", "swap", "taken", "link", "publish"}]
    BY <1>1 DEF ListTypeOK, SwapHead
  <2>5. seg' \in [Callers -> SegmentIds \cup {Null}]
    BY <1>1 DEF ListTypeOK, SwapHead
  <2> QED
    BY <1>1, <2>1, <2>2, <2>3, <2>4, <2>5 DEF ListTypeOK
<1>4. CASE freeHead # seg[t]
  <2>1. /\ UNCHANGED <<freeHead, held>> /\ seg' = [seg EXCEPT ![t] = freeHead]
        /\ pc' = [pc EXCEPT ![t] = IF freeHead = Null THEN "idle" ELSE "load"]
        /\ stale' = stale \ {t}
    BY <1>4 DEF SwapHead, RereadsHead
  <2>2. OnList' = OnList
    BY <1>1, <2>1 DEF OnList
  <2>3. ASSUME NEW u \in Callers PROVE ThreadInv(u)'
    <3>1. CASE u # t
      BY <1>1, <2>1, <2>2, <3>1 DEF ListInv, ListTypeOK, ThreadInv, Fresh
    <3>2. CASE u = t
      <4>1. seg'[t] = freeHead /\ pc'[t] = IF freeHead = Null THEN "idle" ELSE "load"
        BY <1>1, <2>1 DEF ListTypeOK
      <4> QED
        BY <1>1, <2>2, <3>2, <4>1, ListedTypes DEF ThreadInv, Fresh
    <3> QED
      BY <3>1, <3>2
  <2> QED
    BY <1>1, <1>3, <2>1, <2>3, QuietKeeps
<1>5. CASE freeHead = seg[t] /\ t \in stale
  BY <1>5 DEF SwapHead, TakesHead
<1>6. CASE freeHead = seg[t] /\ t \notin stale
  <2>1. PICK x \in SegmentIds : x = freeHead /\ x = seg[t] /\ x \in OnList
    BY <1>1, <1>2, <1>6, ListedTypes
  <2>2. /\ freeHead' = next[x] /\ held' = [held EXCEPT ![t] = @ \cup {x}]
        /\ pc' = [pc EXCEPT ![t] = "taken"] /\ seg' = seg
        /\ stale' = (stale \cup Taking) \ {t}
    BY <1>2, <1>6, <2>1 DEF SwapHead, TakesHead
  <2>3. PICK r : Falls(r, freeHead, next)
    BY DEF ListInv, RankInv
  <2>4. Reachable(next[x], next) = Reachable(x, next) \ {x}
    BY <1>1, <2>1, <2>3, ListedTypes, Popped
  <2>5. OnList' = OnList \ {x}
    BY <1>1, <2>1, <2>2, <2>4 DEF OnList
  <2>6. RankInv'
    <3>1. Falls(r, freeHead', next')
      BY <1>1, <2>1, <2>2, <2>3, <2>4 DEF Falls
    <3> QED
      BY <3>1 DEF RankInv
  <2>7. held'[t] = held[t] \cup {x} /\ \A u \in Callers : u # t => held'[u] = held[u]
    BY <1>1, <2>2 DEF ListTypeOK
  <2>8. Owned' = Owned \cup {x}
    BY <2>7 DEF Owned
  <2>9. Intact'
    BY <2>1, <2>5, <2>7, <2>8 DEF ListInv, Intact, Owned
  <2>10. ListedFree'
    BY <1>1, <2>5 DEF ListInv, ListedFree
  <2>11. ASSUME NEW u \in Callers PROVE ThreadInv(u)'
    <3>1. CASE u # t
      <4>1. pc'[u] = pc[u] /\ seg'[u] = seg[u] /\ held'[u] = held[u]
        BY <1>1, <2>2, <2>7, <3>1 DEF ListTypeOK
      <4>2. pc[u] \in {"load", "swap"} => u \in stale'
        BY <2>2, <3>1 DEF Taking
      <4> QED
        BY <1>1, <4>1, <4>2 DEF ListInv, ThreadInv, Fresh
    <3>2. CASE u = t
      <4>1. pc'[t] = "taken" /\ seg'[t] = x /\ flags'[x] = "free"
        BY <1>1, <2>1, <2>2 DEF ListTypeOK, ListInv, ListedFree
      <4> QED
        BY <2>7, <3>2, <4>1 DEF ThreadInv, Fresh
    <3> QED
      BY <3>1, <3>2
  <2> QED
    BY <1>3, <2>1, <2>5, <2>6, <2>8, <2>9, <2>10, <2>11 DEF ListInv, Takes
<1> QED
  BY <1>4, <1>5, <1>6

\* Two threads do not own the same segment.
LEMMA OwnedApart ==
    ASSUME ListInv, NEW t \in Callers, NEW x \in held[t], NEW u \in Callers, u # t
    PROVE  /\ x \notin held[u]
           /\ ThreadInv(u) /\ (Fresh(u) \/ pc[u] \in {"taken", "link", "publish"}) => seg[u] # x
<1>1. x \notin held[u] /\ x \notin OnList
  BY DEF ListInv, Intact
<1> QED
  BY <1>1 DEF ThreadInv

\* The caller marks the segment; _enqueueToFreeList resets its flags and links it.
LEMMA MarkKeeps ==
    ASSUME ListInv, NEW t \in Callers,
           MarkInUse(t) \/ (\E s \in SegmentIds : MarkFree(t, s)) \/ LinkHead(t)
    PROVE  ListInv' /\ Same
<1>1. PICK x \in SegmentIds : x \in held[t] /\ x = IF pc[t] = "idle" THEN seg'[t] ELSE seg[t]
  <2>1. CASE MarkInUse(t) \/ LinkHead(t)
    <3>1. pc[t] \in {"taken", "link"}
      BY <2>1 DEF MarkInUse, LinkHead
    <3>2. seg[t] \in held[t]
      BY <3>1 DEF ListInv, ThreadInv
    <3> QED
      BY <3>1, <3>2 DEF ListInv, ListTypeOK
  <2>2. CASE \E s \in SegmentIds : MarkFree(t, s)
    BY <2>2 DEF MarkFree, ListInv, ListTypeOK
  <2> QED
    BY <2>1, <2>2
<1>2. freeHead' = freeHead /\ held' = held /\ succ' = succ /\ UNCHANGED history /\ ListTypeOK
  BY DEF MarkInUse, MarkFree, LinkHead, ListInv
<1>3. freeHead \in Pointer /\ Null \in Pointer /\ x \notin OnList
  BY <1>1, <1>2, ListedTypes DEF Pointer, ListInv, Intact
<1>4. next' = next \/ (\E v \in Pointer : next' = [next EXCEPT ![x] = v])
  BY <1>1, <1>3 DEF MarkInUse, MarkFree, LinkHead
<1>5. /\ OnList' = OnList /\ RankInv' /\ next' \in NextLinks
      /\ \A s \in SegmentIds : s # x => next'[s] = next[s]
  <2>1. CASE next' = next
    BY <1>2, <2>1, ListedTypes DEF OnList, ListInv, RankInv
  <2> QED
    BY <1>1, <1>2, <1>4, <2>1, Relinked
<1>6. /\ \A s \in SegmentIds : s # x => flags'[s] = flags[s]
      /\ flags' \in [SegmentIds -> {"free", "inuse"}]
  <2>1. flags' = flags \/ \E v \in {"free", "inuse"} : flags' = [flags EXCEPT ![x] = v]
    BY <1>1, <1>2 DEF MarkInUse, MarkFree, LinkHead, ListTypeOK
  <2> QED
    BY <1>2, <2>1 DEF ListTypeOK
<1>7. /\ pc' \in [Callers -> {"idle", "load", "swap", "taken", "link", "publish"}]
      /\ seg' \in [Callers -> SegmentIds \cup {Null}]
      /\ \A u \in Callers : u # t => pc'[u] = pc[u] /\ seg'[u] = seg[u]
  BY <1>2 DEF MarkInUse, MarkFree, LinkHead, ListTypeOK
<1>8. ListTypeOK'
  BY <1>2, <1>5, <1>6, <1>7 DEF ListTypeOK, NextLinks, Pointer, history
<1>9. Intact' /\ Owned' = Owned
  BY <1>2, <1>5 DEF ListInv, Intact, Owned
<1>10. ListedFree'
  BY <1>3, <1>5, <1>6, <1>2, ListedTypes DEF ListInv, ListedFree
<1>11. ASSUME NEW u \in Callers PROVE ThreadInv(u)'
  <2>1. CASE u # t
    <3>1. /\ pc'[u] = pc[u] /\ seg'[u] = seg[u] /\ held'[u] = held[u] /\ succ'[u] = succ[u]
          /\ stale' = stale
      BY <1>2, <1>7, <2>1 DEF history
    <3>2. /\ ThreadInv(u)
          /\ Fresh(u) \/ pc[u] \in {"taken", "link", "publish"} => seg[u] # x
      BY <1>1, <2>1, OwnedApart DEF ListInv
    <3>3. pc[u] \in {"load", "swap", "taken", "link", "publish"} => seg[u] \in SegmentIds
      BY <1>2, <3>2 DEF ListTypeOK, ThreadInv
    <3>4. /\ Fresh(u) => next'[seg[u]] = next[seg[u]]
          /\ pc[u] \in {"taken", "link", "publish"} => flags'[seg[u]] = flags[seg[u]]
      BY <1>5, <1>6, <3>2, <3>3 DEF Fresh
    <3> QED
      BY <1>5, <3>1, <3>2, <3>4 DEF ThreadInv, Fresh
  <2>2. CASE u = t /\ MarkInUse(t)
    <3>1. pc'[t] = "idle"
      BY <1>2, <2>2 DEF MarkInUse, ListTypeOK
    <3> QED
      BY <2>2, <3>1 DEF ThreadInv, Fresh
  <2>3. CASE u = t /\ \E s \in SegmentIds : MarkFree(t, s)
    <3>1. pc'[t] = "link" /\ seg'[t] = x /\ flags'[x] = "free"
      BY <1>1, <1>2, <2>3 DEF MarkFree, ListTypeOK
    <3> QED
      BY <1>1, <1>2, <2>3, <3>1 DEF ThreadInv, Fresh
  <2>4. CASE u = t /\ LinkHead(t)
    <3>1. pc[t] = "link" /\ pc'[t] = "publish" /\ seg'[t] = seg[t] /\ flags' = flags
      BY <1>2, <2>4 DEF LinkHead, ListTypeOK
    <3> QED
      BY <1>2, <2>4, <3>1 DEF ListInv, ThreadInv, Fresh
  <2> QED
    BY <2>1, <2>2, <2>3, <2>4
<1> QED
  BY <1>5, <1>8, <1>9, <1>10, <1>11 DEF ListInv, Same

\* The compare-and-swap that puts a segment on the list
LEMMA PublishKeeps ==
    ASSUME ListInv, NEW t \in Callers, PublishHead(t)
    PROVE  ListInv' /\ (Same \/ Gives)
<1>1. /\ pc[t] = "publish" /\ flags' = flags /\ seg' = seg /\ succ' = succ /\ ListTypeOK
      /\ stale' = stale /\ aba' = aba
  BY DEF PublishHead, ListInv, history
<1>2. PICK x \in SegmentIds : x = seg[t] /\ x \in held[t] /\ flags[x] = "free" /\ x \notin OnList
  BY <1>1 DEF ListInv, ThreadInv, ListTypeOK, Intact
<1>3. freeHead \in Pointer /\ next \in NextLinks
  BY <1>1, ListedTypes
<1>4. CASE freeHead # next[x]
  <2>1. UNCHANGED <<freeHead, held, pc>> /\ next' = [next EXCEPT ![x] = freeHead]
    BY <1>2, <1>4 DEF PublishHead
  <2>2. /\ OnList' = OnList /\ RankInv' /\ next' \in NextLinks
        /\ \A s \in SegmentIds : s # x => next'[s] = next[s]
    BY <1>2, <1>3, <2>1, Relinked
  <2>3. ListTypeOK'
    BY <1>1, <2>1, <2>2 DEF ListTypeOK, NextLinks, Pointer
  <2>4. Intact' /\ Owned' = Owned
    BY <2>1, <2>2 DEF ListInv, Intact, Owned
  <2>5. ListedFree'
    BY <1>1, <2>2 DEF ListInv, ListedFree
  <2>6. ASSUME NEW u \in Callers PROVE ThreadInv(u)'
    <3>1. ThreadInv(u) /\ (Fresh(u) => seg[u] \in OnList)
      BY DEF ListInv, ThreadInv
    <3>2. Fresh(u) => next'[seg[u]] = next[seg[u]]
      BY <1>1, <1>2, <2>2, <3>1, ListedTypes
    <3> QED
      BY <1>1, <2>1, <2>2, <3>1, <3>2 DEF ThreadInv, Fresh
  <2> QED
    BY <2>2, <2>3, <2>4, <2>5, <2>6 DEF ListInv, Same
<1>5. CASE freeHead = next[x]
  <2>1. /\ freeHead' = x /\ held' = [held EXCEPT ![t] = @ \ {x}]
        /\ pc' = [pc EXCEPT ![t] = "idle"] /\ next' = next
    BY <1>2, <1>5 DEF PublishHead
  <2>2. Reachable(x, next) = Reachable(freeHead, next) \cup {x}
    BY <1>2, <1>3, <1>5, Pushed
  <2>3. OnList' = OnList \cup {x}
    BY <2>1, <2>2 DEF OnList
  <2>4. held'[t] = held[t] \ {x} /\ \A u \in Callers : u # t => held'[u] = held[u] /\ x \notin held[u]
    BY <1>1, <1>2, <2>1 DEF ListTypeOK, ListInv, Intact
  <2>5. Owned' = Owned \ {x} /\ x \in Owned
    BY <1>2, <2>4 DEF Owned
  <2>6. ListTypeOK'
    BY <1>1, <1>2, <2>1 DEF ListTypeOK
  <2>7. Intact'
    <3>1. \A u \in Callers : held'[u] \subseteq held[u] /\ x \notin held'[u]
      BY <2>4
    <3>2. OnList' \cup Owned' = SegmentIds
      BY <2>3, <2>5, <1>2 DEF ListInv, Intact, Owned
    <3> QED
      BY <2>3, <3>1, <3>2 DEF ListInv, Intact, Owned
  <2>8. ListedFree'
    BY <1>1, <1>2, <2>3 DEF ListInv, ListedFree
  <2>9. RankInv'
    <3>1. PICK r : Falls(r, freeHead, next)
      BY DEF ListInv, RankInv
    <3>2. \A q \in SegmentIds : r[q] \in Nat
      BY <3>1 DEF Falls
    <3>3. PICK k \in Nat : k = IF freeHead = Null THEN 0 ELSE r[freeHead] + 1
      BY <1>3, <3>2 DEF Pointer
    <3>4. PICK p : p = [r EXCEPT ![x] = k]
      OBVIOUS
    <3>5. p \in [SegmentIds -> Nat] /\ p[x] = k /\ \A q \in SegmentIds : q # x => p[q] = r[q]
      BY <3>1, <3>4 DEF Falls
    <3>6. ASSUME NEW q \in OnList', next[q] # Null PROVE p[next[q]] < p[q]
      <4>1. CASE q = x
        <5>1. freeHead \in SegmentIds /\ freeHead # x /\ k = r[freeHead] + 1
          BY <1>2, <1>3, <1>5, <3>3, <3>6, <4>1, <1>1, ListedTypes DEF Pointer
        <5>2. p[next[q]] = r[freeHead] /\ p[q] = r[freeHead] + 1 /\ r[freeHead] \in Nat
          BY <1>5, <3>2, <3>5, <4>1, <5>1
        <5> QED
          BY <5>2
      <4>2. CASE q # x
        <5>1. q \in OnList /\ q \in SegmentIds
          BY <2>3, <4>2, <1>1, ListedTypes
        <5>2. Closed(OnList, freeHead, next)
          BY <1>3, ReachableClosed DEF OnList
        <5>3. next[q] \in OnList /\ next[q] \in SegmentIds
          BY <3>6, <5>1, <5>2, <1>1, ListedTypes DEF Closed
        <5>4. r[next[q]] < r[q] /\ next[q] # x
          BY <1>2, <3>1, <3>6, <5>1, <5>3 DEF Falls, OnList
        <5> QED
          BY <3>5, <4>2, <5>1, <5>3, <5>4
      <4> QED
        BY <4>1, <4>2
    <3>7. Falls(p, x, next)
      BY <2>1, <3>5, <3>6 DEF Falls, OnList
    <3> QED
      BY <2>1, <3>7 DEF RankInv
  <2>10. ASSUME NEW u \in Callers PROVE ThreadInv(u)'
    <3>1. CASE u # t
      <4>1. pc'[u] = pc[u] /\ held'[u] = held[u]
        BY <1>1, <2>1, <2>4, <3>1 DEF ListTypeOK
      <4> QED
        BY <1>1, <2>1, <2>3, <4>1 DEF ListInv, ThreadInv, Fresh
    <3>2. CASE u = t
      <4>1. pc'[t] = "idle"
        BY <1>1, <2>1 DEF ListTypeOK
      <4> QED
        BY <3>2, <4>1 DEF ThreadInv, Fresh
    <3> QED
      BY <3>1, <3>2
  <2> QED
    BY <2>3, <2>5, <2>6, <2>7, <2>8, <2>9, <2>10 DEF ListInv, Gives
<1> QED
  BY <1>4, <1>5

\* A segment changes hands.
LEMMA HandOverKeeps ==
    ASSUME ListInv, NEW t \in Callers, NEW u \in Callers, NEW s \in SegmentIds, HandOver(t, u, s)
    PROVE  ListInv' /\ Same
<1>1. /\ t # u /\ s \in held[t] /\ pc[t] = "idle" /\ pc[u] = "idle" /\ ListTypeOK
      /\ UNCHANGED <<freeHead, next, flags, pc, seg, succ, stale, aba>>
      /\ held' = [held EXCEPT ![t] = @ \ {s}, ![u] = @ \cup {s}]
  BY DEF HandOver, ListInv, history
<1>2. /\ held'[t] = held[t] \ {s} /\ held'[u] = held[u] \cup {s}
      /\ \A w \in Callers : w # t /\ w # u => held'[w] = held[w]
  BY <1>1 DEF ListTypeOK
<1>3. \A w \in Callers : w # t => s \notin held[w]
  BY <1>1 DEF ListInv, Intact
<1>4. ListTypeOK'
  BY <1>1 DEF ListTypeOK
<1>5. OnList' = OnList
  BY <1>1 DEF OnList
<1>6. Owned' = Owned
  BY <1>1, <1>2, <1>3 DEF Owned
<1>7. Intact'
  <2>1. ASSUME NEW v \in Callers, NEW w \in Callers, v # w PROVE held'[v] \cap held'[w] = {}
    <3>1. held[v] \cap held[w] = {}
      BY <2>1 DEF ListInv, Intact
    <3> QED
      BY <1>1, <1>2, <1>3, <2>1, <3>1
  <2>2. ASSUME NEW v \in Callers PROVE held'[v] \cap OnList = {}
    <3>1. held[v] \cap OnList = {} /\ held[t] \cap OnList = {}
      BY DEF ListInv, Intact
    <3> QED
      BY <1>1, <1>2, <3>1
  <2> QED
    BY <1>5, <1>6, <2>1, <2>2 DEF ListInv, Intact, Owned
<1>8. ListedFree' /\ RankInv'
  BY <1>1, <1>5 DEF ListInv, ListedFree, RankInv
<1>9. ASSUME NEW w \in Callers PROVE ThreadInv(w)'
  <2>1. pc[w] # "idle" => held'[w] = held[w]
    BY <1>1, <1>2
  <2> QED
    BY <1>1, <1>5, <2>1 DEF ListInv, ThreadInv, Fresh
<1> QED
  BY <1>4, <1>5, <1>6, <1>7, <1>8, <1>9 DEF ListInv, Same

-----------------------------------------------------------------------------
(* The list at the start                                                   *)

\* A set of natural numbers that is not empty has a least element.
LEMMA LeastNumber ==
    ASSUME NEW T \in SUBSET Nat, T # {}
    PROVE  \E x \in T : \A y \in T : x <= y
<1> DEFINE R == {p \in Nat \X Nat : p[1] < p[2]}
<1>1. IsWellFoundedOn(R, Nat)
  BY NatLessThanWellFounded DEF OpToRel
<1> HIDE DEF R
<1>2. PICK x \in T : \A y \in T : ~(<<y, x>> \in R)
  BY <1>1, WFMin
<1>3. ASSUME NEW y \in T, y < x PROVE FALSE
  <2>1. <<y, x>> \in R
    BY <1>3 DEF R
  <2> QED
    BY <1>2, <2>1
<1> QED
  BY <1>3

\* The head and the links of _initializeSegments
LEMMA InitialLinks ==
    ASSUME ListInit
    PROVE  /\ freeHead = 0 /\ freeHead \in SegmentIds /\ next \in NextLinks
           /\ \A s \in SegmentIds : next[s] = IF s = NumSegments - 1 THEN Null ELSE s + 1
BY FreeListAssumption DEF ListInit, SegmentIds, NextLinks, Pointer

\* A set that holds the head and what follows its members holds all segments.
LEMMA InitialReach ==
    ASSUME ListInit, NEW R \in SUBSET SegmentIds, Closed(R, freeHead, next)
    PROVE  R = SegmentIds
<1> DEFINE T == SegmentIds \ R
<1>1. SUFFICES ASSUME T # {} PROVE FALSE
  OBVIOUS
<1>2. PICK s \in T : \A q \in T : s <= q
  <2>1. T \in SUBSET Nat
    BY FreeListAssumption DEF SegmentIds
  <2> QED
    BY <1>1, <2>1, LeastNumber
<1>3. s # 0
  BY InitialLinks, FreeListAssumption DEF Closed
<1>4. s - 1 \in R /\ s \in SegmentIds
  BY <1>2, <1>3, FreeListAssumption DEF SegmentIds
<1>5. next[s - 1] = s
  BY <1>4, InitialLinks, FreeListAssumption DEF SegmentIds
<1> QED
  BY <1>4, <1>5, FreeListAssumption DEF Closed

\* The buffer starts with every segment on the list.
LEMMA InitialState ==
    ASSUME ListInit
    PROVE  ListInv /\ OnList = SegmentIds /\ Owned = {}
<1>1. freeHead \in SegmentIds /\ next \in NextLinks /\ freeHead \in Pointer
  BY InitialLinks DEF Pointer
<1>2. OnList = SegmentIds
  <2>1. OnList \in SUBSET SegmentIds /\ Closed(OnList, freeHead, next)
    BY <1>1, ReachableClosed DEF OnList
  <2> QED
    BY <2>1, InitialReach
<1>3. ListTypeOK
  BY <1>1 DEF ListInit, ListTypeOK, NextLinks, Pointer
<1>4. Intact /\ Owned = {}
  BY <1>2 DEF ListInit, Intact, Owned
<1>5. ListedFree /\ \A t \in Callers : ThreadInv(t)
  BY <1>2 DEF ListInit, ListedFree, ThreadInv, Fresh
<1>6. RankInv
  <2>1. PICK r : r = [s \in SegmentIds |-> NumSegments - s]
    OBVIOUS
  <2>2. r \in [SegmentIds -> Nat]
    BY <2>1, FreeListAssumption DEF SegmentIds
  <2>3. ASSUME NEW q \in SegmentIds, next[q] # Null PROVE r[next[q]] < r[q]
    BY <2>1, <2>3, InitialLinks, FreeListAssumption DEF SegmentIds
  <2>4. Falls(r, freeHead, next)
    BY <2>2, <2>3, <1>2 DEF Falls, OnList
  <2> QED
    BY <2>4 DEF RankInv
<1> QED
  BY <1>2, <1>3, <1>4, <1>5, <1>6 DEF ListInv

-----------------------------------------------------------------------------
(* The theorems                                                            *)

\* What a step does to the two sets
Moves == Same \/ Takes \/ Gives

\* History is not undone.
LEMMA OnceBroken ==
    ASSUME aba, [ListNext]_listVars
    PROVE  aba'
BY DEF ListNext, Step, listVars, history, ReadHead, ReadNext, SwapHead, MarkInUse, MarkFree,
       LinkHead, PublishHead, HandOver, TakesHead, RereadsHead

\* Every step moves one segment or none and keeps the invariant, or is ABA.
LEMMA StepKeeps ==
    ASSUME ListInv, [ListNext]_listVars
    PROVE  aba' \/ (ListInv' /\ Moves)
<1>1. CASE UNCHANGED listVars
  <2>1. ListTypeOK' /\ \A t \in Callers : ThreadInv(t)'
    BY <1>1 DEF ListInv, listVars, history, ListTypeOK, ThreadInv, Fresh, OnList
  <2> QED
    BY <1>1, <2>1, QuietKeeps DEF listVars, Moves
<1>2. CASE \E t \in Callers : Step(t)
  <2>1. PICK t \in Callers : Step(t)
    BY <1>2
  <2>2. CASE ReadHead(t) \/ ReadNext(t)
    BY <2>2, ReadKeeps DEF Moves
  <2>3. CASE SwapHead(t)
    BY <2>3, SwapKeeps DEF Moves
  <2>4. CASE MarkInUse(t) \/ (\E s \in SegmentIds : MarkFree(t, s)) \/ LinkHead(t)
    BY <2>4, MarkKeeps DEF Moves
  <2>5. CASE PublishHead(t)
    BY <2>5, PublishKeeps DEF Moves
  <2> QED
    BY <2>1, <2>2, <2>3, <2>4, <2>5 DEF Step
<1>3. CASE \E t, u \in Callers, s \in SegmentIds : HandOver(t, u, s)
  BY <1>3, HandOverKeeps DEF Moves
<1> QED
  BY <1>1, <1>2, <1>3 DEF ListNext

\* What has been read of the list is still so, and the list ends.
LEMMA ListInvariant == ListSpec => [](aba \/ ListInv)
<1>1. ListInit => aba \/ ListInv
  BY InitialState
<1>2. aba /\ [ListNext]_listVars => aba'
  BY OnceBroken
<1>3. (aba \/ ListInv) /\ [ListNext]_listVars => (aba \/ ListInv)'
  BY <1>2, StepKeeps
<1> QED
  BY <1>1, <1>3, PTL DEF ListSpec

\* A thread that is not idle works on a segment.
Busy == \A t \in Callers : pc[t] # "idle" => seg[t] \in SegmentIds

\* The variables have their types however many threads take segments.
THEOREM ListTypes == ListSpec => []ListTypeOK
<1>1. ListInit => ListTypeOK /\ Busy
  BY InitialState DEF ListInv, ListInit, Busy
<1>2. ListTypeOK /\ Busy /\ [ListNext]_listVars => ListTypeOK' /\ Busy'
  <2> SUFFICES ASSUME ListTypeOK, Busy, [ListNext]_listVars PROVE ListTypeOK' /\ Busy'
    OBVIOUS
  <2>1. CASE UNCHANGED listVars
    BY <2>1 DEF listVars, history, ListTypeOK, Busy
  <2>2. ASSUME NEW t \in Callers, Step(t) PROVE ListTypeOK' /\ Busy'
    <3>1. CASE ReadHead(t)
      BY <3>1 DEF ReadHead, RereadsHead, ListTypeOK, Busy
    <3>2. CASE ReadNext(t)
      BY <3>2 DEF ReadNext, history, ListTypeOK, Busy
    <3>3. CASE SwapHead(t)
      <4>1. stale' \subseteq Callers /\ aba' \in BOOLEAN
        BY <3>3 DEF SwapHead, TakesHead, RereadsHead, Taking, ListTypeOK
      <4> QED
        BY <3>3, <4>1 DEF SwapHead, ListTypeOK, Busy
    <3>4. CASE MarkInUse(t)
      BY <3>4, FreeListAssumption DEF MarkInUse, history, ListTypeOK, Busy
    <3>5. CASE \E s \in SegmentIds : MarkFree(t, s)
      BY <3>5 DEF MarkFree, history, ListTypeOK, Busy
    <3>6. CASE LinkHead(t)
      BY <3>6 DEF LinkHead, history, ListTypeOK, Busy
    <3>7. CASE PublishHead(t)
      BY <3>7 DEF PublishHead, history, ListTypeOK, Busy
    <3> QED
      BY <2>2, <3>1, <3>2, <3>3, <3>4, <3>5, <3>6, <3>7 DEF Step
  <2>3. ASSUME NEW t \in Callers, NEW u \in Callers, NEW s \in SegmentIds, HandOver(t, u, s)
        PROVE  ListTypeOK' /\ Busy'
    BY <2>3 DEF HandOver, history, ListTypeOK, Busy
  <2> QED
    BY <2>1, <2>2, <2>3 DEF ListNext
<1>3. ListTypeOK /\ Busy => ListTypeOK
  OBVIOUS
<1> QED
  BY <1>1, <1>2, <1>3, PTL DEF ListSpec

\* Until ABA, no compare-and-swap of _freeHead loses a segment or gives one
\* to two threads, whoever requests segments and gives them back.
THEOREM ListHolds == ListSpec => []NothingLost
<1>1. aba \/ ListInv => NothingLost
  BY DEF ListInv, NothingLost
<1> QED
  BY <1>1, ListInvariant, PTL

\* Until ABA, the assertion of _dequeueFromFreeList on the flags holds.
THEOREM TakenSegmentIsFree == ListSpec => [](~aba => TakenIsFree)
<1>1. aba \/ ListInv => (~aba => TakenIsFree)
  BY DEF ListInv, ThreadInv, TakenIsFree
<1> QED
  BY <1>1, ListInvariant, PTL

\* Until ABA, every step of the free list takes one segment of a set, gives
\* one back, or is not seen.
THEOREM ListRefines == ListSpec => ImplementsSet
<1>1. ListInit => Abstract!Init
  BY InitialState DEF Abstract!Init, Owned
<1>2. (aba \/ ListInv) /\ [ListNext]_listVars =>
        [Abstract!Next \/ aba']_<<OnList, [t \in {"server"} |-> UNION {held[u] : u \in Callers}]>>
  <2> SUFFICES ASSUME aba \/ ListInv, [ListNext]_listVars, ~aba'
               PROVE  [Abstract!Next]_<<OnList, [t \in {"server"} |-> Owned]>>
    BY DEF Owned
  <2>1. Same \/ Takes \/ Gives
    BY OnceBroken, StepKeeps DEF Moves
  <2>2. CASE Same
    BY <2>2 DEF Same
  <2>3. CASE Takes
    BY <2>3 DEF Takes, Abstract!Next, Abstract!Take, Owned
  <2>4. CASE Gives
    <3>1. PICK x \in Owned : OnList' = OnList \cup {x} /\ Owned' = Owned \ {x}
      BY <2>4 DEF Gives
    <3>2. [t \in {"server"} |-> Owned'] = [[t \in {"server"} |-> Owned] EXCEPT !["server"] = @ \ {x}]
      BY <3>1
    <3>3. Abstract!Give("server")
      BY <3>1, <3>2 DEF Abstract!Give, Owned
    <3> QED
      BY <3>3 DEF Abstract!Next
  <2> QED
    BY <2>1, <2>2, <2>3, <2>4
<1> QED
  BY <1>1, <1>2, ListInvariant, PTL DEF ListSpec, ImplementsSet

=============================================================================
