------------------------- MODULE ServerStreamBuffer -------------------------
(***************************************************************************)
(* class ServerStreamBuffer: the pool of segments that all streams of a    *)
(* server (or of a session) share, its free list and its LRU cache of      *)
(* closed segments (the standby list).                                     *)
(*                                                                         *)
(* A call of _requestSegment takes several steps: the look-up in the       *)
(* cache, the free list, the eviction of a victim and the sleep when the   *)
(* buffer is exhausted each run under a lock (or a compare-and-swap) of    *)
(* their own, and other threads run in between.  The calls that give a     *)
(* segment back are one step: the segment is private to the caller until   *)
(* it is linked into a list.  flushStandbyList keeps _standbyLock but lets *)
(* the free list go on.                                                    *)
(*                                                                         *)
(* What the callers (ServerStream, the encoders, ScratchSegment) do with a *)
(* segment they hold is the variable "use".                                *)
(***************************************************************************)
EXTENDS SegmentPool, FiniteSets

CONSTANTS
    Threads,       \* threads that request segments
    Stores,        \* the stores whose streams use this buffer
    NoStore,       \* nobody flushes the standby list
    AllStores,     \* flushStandbyList(INVALID_STORE_ID)
    StoreOf(_),    \* the store of a link
    Existing,      \* the links the stores held when they were opened
    MaxRetry       \* server.memmgmt.retryCount

ASSUME BufferAssumption ==
    /\ NoStore \notin Stores
    /\ AllStores \notin Stores \cup {NoStore}
    /\ \A l \in Links : StoreOf(l) \in Stores
    /\ Existing \subseteq Links
    /\ MaxRetry \in Nat \ {0}

VARIABLES
    pool,      \* the lists and the segments
    use,       \* what the holder of a segment does with it
    want,      \* the link the holder asked for
    stored,    \* the links the encoders have written to their store
    live,      \* the stores that exist
    req,       \* the request a thread is executing
    flush      \* the run of flushStandbyList that holds _standbyLock

vars == <<pool, use, want, stored, live, req, flush>>

Kinds == {"write", "read", "prefetch", "scratch"}

Uses == {"none",
         "writing",       \* mapped to a client or a context that fills it
         "encoding",      \* submitted, an encoder is writing it
         "loading",       \* an encoder decodes it for a caller that waits
         "prefetching",   \* an encoder decodes it ahead of its use
         "reading",       \* mapped to a client, complete
         "prefetched",    \* a read-ahead found it in the cache
         "scratch"}       \* working memory of an encoder

NoRequest == [pc |-> "idle", kind |-> "scratch", link |-> NoLink,
              low |-> FALSE, try |-> 1]

RequestType ==
    [pc : {"idle", "dequeue", "evict", "contend"}, kind : Kinds,
     link : Links \cup {NoLink}, low : BOOLEAN, try : 1..MaxRetry]

NoFlush == [store |-> NoStore, todo |-> <<>>]

TypeOK ==
    /\ pool \in PoolType
    /\ use \in [Segments -> Uses]
    /\ want \in [Segments -> Links \cup {NoLink}]
    /\ stored \in SUBSET Links
    /\ live \in SUBSET Stores
    /\ req \in [Threads -> RequestType]
    /\ flush \in [store : Stores \cup {NoStore, AllStores}, todo : Seq(Segments)]

Init ==
    /\ pool = InitPool
    /\ use = [s \in Segments |-> "none"]
    /\ want = [s \in Segments |-> NoLink]
    /\ stored = Existing
    /\ live = Stores
    /\ req = [t \in Threads |-> NoRequest]
    /\ flush = NoFlush

-----------------------------------------------------------------------------
(* _requestSegment                                                         *)

StandbyUnlocked == flush.store = NoStore

\* Segment s is given to the caller of t's request, with use u.
Grant(t, s, p, r, u) ==
    /\ pool' = p
    /\ use' = [use EXCEPT ![s] = u]
    /\ want' = [want EXCEPT ![s] = r.link]
    /\ req' = [req EXCEPT ![t] = NoRequest]
    /\ UNCHANGED <<stored, live, flush>>

\* A cached segment is complete, so its caller can use it at once.
UseOfHit(kind) ==
    CASE kind = "write"    -> "writing"
      [] kind = "read"     -> "reading"
      [] kind = "prefetch" -> "prefetched"

UseOfNew(kind) ==
    CASE kind = "write"    -> "writing"
      [] kind = "read"     -> "loading"
      [] kind = "prefetch" -> "prefetching"
      [] kind = "scratch"  -> "scratch"

\* What the callers respect: a stream hands out a sequence number for
\* writing once, and opens only what has a storage location.
MayRequest(kind, l) ==
    \/ kind = "scratch" /\ l = NoLink /\ live # {}
    \/ /\ kind \in {"read", "prefetch"}
       /\ l \in stored
    \/ /\ kind = "write"
       /\ l \in Links \ stored
       /\ \A s \in Segments : use[s] \in {"writing", "encoding"} => want[s] # l
       /\ \A t \in Threads : req[t].pc # "idle" => req[t].link # l

\* requestSegment, requestScratchSegment and openSegment up to the look-up
\* in the standby list
RequestSegment(t, kind, l, low) ==
    /\ req[t].pc = "idle"
    /\ MayRequest(kind, l)
    /\ l # NoLink => StoreOf(l) \in live /\ StandbyUnlocked
    /\ low => kind \in {"read", "prefetch"}
    /\ LET r == [pc |-> "dequeue", kind |-> kind, link |-> l,
                 low |-> low, try |-> 1]
           s == IF l = NoLink THEN NoSegment ELSE FindStandbySegment(pool, l)
       IN  IF s # NoSegment
           THEN Grant(t, s, DequeueFromStandbyList(pool, s, l), r, UseOfHit(kind))
           ELSE /\ req' = [req EXCEPT ![t] = r]
                /\ UNCHANGED <<pool, use, want, stored, live, flush>>

\* The pool after the request of t got segment s in pool p
Allocated(p, s, r) == AllocateSegment(p, s, r.kind, r.link, r.low)

\* The first half of the loop of _tryAllocateFreeSegment
Dequeue(t) ==
    /\ req[t].pc = "dequeue"
    /\ \/ \E s \in pool.free :
             Grant(t, s, Allocated(DequeueFromFreeList(pool, s), s, req[t]),
                   req[t], UseOfNew(req[t].kind))
       \/ /\ pool.free = {}
          /\ req' = [req EXCEPT ![t].pc = "evict"]
          /\ UNCHANGED <<pool, use, want, stored, live, flush>>

\* The second half: the least recently used cached segment
Evict(t) ==
    /\ req[t].pc = "evict"
    /\ \/ /\ pool.standby # <<>>
          /\ StandbyUnlocked
          /\ LET s == Last(pool.standby)
             IN  Grant(t, s, Allocated(EvictFromStandbyList(pool), s, req[t]),
                       req[t], UseOfNew(req[t].kind))
       \/ /\ pool.standby = <<>>
          /\ req' = [req EXCEPT ![t].pc = "contend"]
          /\ UNCHANGED <<pool, use, want, stored, live, flush>>

\* Variant: the attempts are not limited.
ContendUnlimited(t) ==
    /\ req[t].pc = "contend"
    /\ req' = [req EXCEPT ![t].pc = "dequeue", ![t].try = @ + 1]
    /\ UNCHANGED <<pool, use, want, stored, live, flush>>

\* _handleContention: the request sleeps and tries again, or gives up and
\* returns INVALID_SEGMENT_ID.
Contend(t) ==
    /\ req[t].pc = "contend"
    /\ req' = IF req[t].kind = "prefetch" \/ req[t].try >= MaxRetry
              THEN [req EXCEPT ![t] = NoRequest]
              ELSE [req EXCEPT ![t].pc = "dequeue", ![t].try = @ + 1]
    /\ UNCHANGED <<pool, use, want, stored, live, flush>>

-----------------------------------------------------------------------------
(* The segment is given back.                                              *)

Release(s, p) ==
    /\ pool' = p
    /\ use' = [use EXCEPT ![s] = "none"]
    /\ want' = [want EXCEPT ![s] = NoLink]
    /\ UNCHANGED <<live, req, flush>>

\* _freeSegment may need _standbyLock
Free(s, prefetch) ==
    /\ StandbyUnlocked
    /\ Release(s, FreeSegment(pool, s, prefetch))

\* submitSegment of a segment without entries: the encoder drops it.
SubmitEmpty(s) ==
    /\ use[s] = "writing"
    /\ Release(s, PurgeSegment(SubmitWritten(pool, s), s))
    /\ UNCHANGED stored

\* submitSegment of a written segment: the encoder works asynchronously.
\* (A submit that throws leaves everything as it was.)
SubmitWrite(s) ==
    /\ use[s] = "writing"
    /\ pool' = MarkReady(SubmitWritten(pool, s), s)
    /\ use' = [use EXCEPT ![s] = "encoding"]
    /\ UNCHANGED <<want, stored, live, req, flush>>

\* The encoder reports the storage location: freeSegment.
EncodeOk(s) ==
    /\ use[s] = "encoding"
    /\ Free(s, FALSE)
    /\ stored' = stored \cup {want[s]}

\* The encoder reports a failure, or the submit is forced: purgeSegment.
EncodeFail(s) ==
    /\ use[s] = "encoding"
    /\ Release(s, PurgeSegment(pool, s))
    /\ UNCHANGED stored

\* encoder.read returned, or an asynchronous read completed that a caller
\* waits for.
DecodeOk(s) ==
    /\ use[s] \in {"loading", "prefetching"}
    /\ pool' = MarkReady(pool, s)
    /\ use' = [use EXCEPT ![s] = IF @ = "loading" THEN "reading" ELSE "prefetched"]
    /\ UNCHANGED <<want, stored, live, req, flush>>

\* encoder.read threw: _requestSegment purges the segment.
DecodeFail(s) ==
    /\ use[s] = "loading"
    /\ Release(s, PurgeSegment(pool, s))
    /\ UNCHANGED stored

\* An open finds a read-ahead of the same segment and takes it over.
TakeOver(s) ==
    /\ use[s] \in {"prefetching", "prefetched"}
    /\ use' = [use EXCEPT ![s] = IF @ = "prefetching" THEN "loading" ELSE "reading"]
    /\ UNCHANGED <<pool, want, stored, live, req, flush>>

\* submitSegment of a segment that was opened for reading
SubmitRead(s) ==
    /\ use[s] = "reading"
    /\ Free(s, FALSE)
    /\ UNCHANGED stored

\* freeSegment at the end of a read-ahead that nobody took over
FreePrefetched(s) ==
    /\ use[s] = "prefetched"
    /\ Free(s, TRUE)
    /\ UNCHANGED stored

\* purgeSegment in ~ScratchSegment
FreeScratch(s) ==
    /\ use[s] = "scratch"
    /\ Release(s, PurgeSegment(pool, s))
    /\ UNCHANGED stored

-----------------------------------------------------------------------------
(* flushStandbyList                                                        *)

\* A store is destroyed after its last segment was closed, the buffer after
\* its last user is gone.
Concerns(l, store) == store = AllStores \/ (l # NoLink /\ StoreOf(l) = store)

Unused(store) ==
    /\ \A s \in Segments : use[s] # "none" => ~Concerns(want[s], store)
    /\ \A t \in Threads : req[t].pc # "idle" => ~Concerns(req[t].link, store)

\* flushStandbyList takes _standbyLock; it looks at the list as it is then.
FlushBegin(store) ==
    /\ StandbyUnlocked
    /\ IF store = AllStores THEN live # {} ELSE store \in live
    /\ Unused(store)
    /\ flush' = [store |-> store, todo |-> pool.standby]
    /\ live' = IF store = AllStores THEN {} ELSE live \ {store}
    /\ UNCHANGED <<pool, use, want, stored, req>>

\* Variant: the last segment of the list is skipped.
FlushStepNotLast ==
    /\ ~StandbyUnlocked
    /\ flush.todo # <<>>
    /\ LET s == Head(flush.todo)
       IN  pool' = IF /\ flush.store \in {AllStores, StoreOf(pool.seg[s].link)}
                      /\ Tail(flush.todo) # <<>>
                   THEN FlushSegment(pool, s)
                   ELSE pool
    /\ flush' = [flush EXCEPT !.todo = Tail(@)]
    /\ UNCHANGED <<use, want, stored, live, req>>

\* One turn of the loop, for the next segment of the list
FlushStep ==
    /\ ~StandbyUnlocked
    /\ flush.todo # <<>>
    /\ LET s == Head(flush.todo)
       IN  pool' = IF flush.store \in {AllStores, StoreOf(pool.seg[s].link)}
                   THEN FlushSegment(pool, s)
                   ELSE pool
    /\ flush' = [flush EXCEPT !.todo = Tail(@)]
    /\ UNCHANGED <<use, want, stored, live, req>>

FlushEnd ==
    /\ ~StandbyUnlocked
    /\ flush.todo = <<>>
    /\ flush' = NoFlush
    /\ UNCHANGED <<pool, use, want, stored, live, req>>

-----------------------------------------------------------------------------
Request(t) ==
    \E kind \in Kinds, l \in Links \cup {NoLink}, low \in BOOLEAN :
        RequestSegment(t, kind, l, low)

Complete(s) == EncodeOk(s) \/ EncodeFail(s) \/ DecodeOk(s) \/ DecodeFail(s)

Next ==
    \/ \E t \in Threads : Request(t) \/ Dequeue(t) \/ Evict(t) \/ Contend(t)
    \/ \E s \in Segments :
          \/ SubmitEmpty(s) \/ SubmitWrite(s) \/ Complete(s) \/ TakeOver(s)
          \/ SubmitRead(s) \/ FreePrefetched(s) \/ FreeScratch(s)
    \/ \E store \in Stores \cup {AllStores} : FlushBegin(store)
    \/ FlushStep \/ FlushEnd

Spec == Init /\ [][Next]_vars

\* Threads keep running: a thread inside _requestSegment or inside
\* flushStandbyList takes its next step when it can.  Nothing is assumed
\* about clients and encoders.
Fairness ==
    /\ \A t \in Threads : WF_vars(Dequeue(t) \/ Evict(t) \/ Contend(t))
    /\ WF_vars(FlushStep \/ FlushEnd)

FairSpec == Spec /\ Fairness

-----------------------------------------------------------------------------
(* Properties                                                              *)

\* No segment is lost and none is in two places: it is on the free list, in
\* the cache (once) or with exactly one holder.  The lists of
\* ServerStreamBuffer share the pointers next and prev of a segment, so a
\* segment on two lists corrupts both.
SegmentPartition ==
    /\ \A s \in Segments :
          IF use[s] # "none"
          THEN s \notin pool.free /\ s \notin Range(pool.standby)
          ELSE s \in pool.free <=> s \notin Range(pool.standby)
    /\ \A i, j \in DOMAIN pool.standby :
          pool.standby[i] = pool.standby[j] => i = j

\* _standbyIndex and the LRU list hold the same segments, and a link leads
\* to the segment that caches it: assert(fseg == seg) in
\* _evictFromStandbyList and flushStandbyList.
StandbyIndexed ==
    /\ \A s \in Range(pool.standby) :
          /\ pool.seg[s].link # NoLink
          /\ pool.index[KeyOf(pool.seg[s].link)] = s
    /\ \A k \in Keys : pool.index[k] # NoSegment =>
          /\ pool.index[k] \in Range(pool.standby)
          /\ KeyOf(pool.seg[pool.index[k]].link) = k

\* A free segment kept nothing of its last owner: the assertions of
\* _dequeueFromFreeList.
FreeIsClean ==
    \A s \in pool.free : pool.seg[s].flags = {} /\ pool.seg[s].link = NoLink

\* The cache holds only complete, read-only copies of data that is in a
\* store, and after flushStandbyList nothing of a store that is gone: the
\* segments point to the streams of the store.
CacheFaithful ==
    \A s \in Range(pool.standby) :
        /\ {"InUse", "ReadOnly", "Cacheable"} \subseteq pool.seg[s].flags
        /\ pool.seg[s].ready
        /\ pool.seg[s].link \in stored
        /\ StandbyUnlocked => StoreOf(pool.seg[s].link) \in live

\* Whoever asked for a link has a segment of that link; a reader has a
\* complete one, and no writer got a read-only segment (from the cache).
HolderFaithful ==
    \A s \in Segments : use[s] # "none" =>
        /\ pool.seg[s].link = want[s]
        /\ use[s] \in {"reading", "prefetched"} =>
              pool.seg[s].ready /\ "ReadOnly" \in pool.seg[s].flags
        /\ use[s] \in {"writing", "encoding"} =>
              "ReadOnly" \notin pool.seg[s].flags

\* A request ends, with a segment or with INVALID_SEGMENT_ID, whatever the
\* other threads, the clients and the encoders do: _handleContention bounds
\* the number of attempts.
RequestReturns ==
    \A t \in Threads : req[t].pc # "idle" ~> req[t].pc = "idle"

\* "Segment will be placed at the head of the standby list at first free"
\* (SgfPrefetch): once a caller has read a prefetched segment of low
\* priority, its close puts the segment at the tail.
PrefetchOnlyOnce ==
    [][\A s \in Segments :
          /\ use[s] = "reading" /\ use'[s] = "none"
          /\ "LowPriority" \in pool.seg[s].flags
          /\ s \in Range(pool'.standby)
          => Last(pool'.standby) = s]_vars

=============================================================================
