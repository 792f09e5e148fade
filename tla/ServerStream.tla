---------------------------- MODULE ServerStream ----------------------------
(***************************************************************************)
(* class ServerStream: one stream of a store.  Sessions append segments to *)
(* it, open stored segments for reading and close them; the workers of the *)
(* encoder write and read the data in the background and report back       *)
(* through completeSegment.  The segments come from the buffer of          *)
(* SegmentPool; the link of a segment is its sequence number.              *)
(*                                                                         *)
(* Locks: append and addSegment hold _appendLock, open holds _openLock     *)
(* (while it waits for the data, too), and everything that touches the     *)
(* locations does so under _lock.  An action is one section under _lock,   *)
(* or what a thread does between two of them; only close(session) keeps    *)
(* _lock over several steps here.  The requests to the buffer are atomic:  *)
(* their interleavings are the subject of ServerStreamBuffer.              *)
(*                                                                         *)
(* The model is the release build: an assert is a property, not a guard.   *)
(***************************************************************************)
EXTENDS SegmentPool, FiniteSets, FiniteSetsExt

CONSTANTS
    Sessions,        \* each is driven by one thread
    AsyncSessions,   \* those that open without waiting (SERVER_SESSION_ID:
                     \* the contexts of Simtrace3MemoryEncoder)
    NoSession,
    MaxSqn,          \* bound: sequence numbers are 0..MaxSqn
    MaxRefs,         \* bound: references of a session to a segment
    ReadAheadAmount, \* server.memmgmt.readAhead
    NoLoc,           \* nullptr in _segments
    Existing,        \* the sequence numbers the store holds when opened
    SharedAppend,    \* several sessions append to the stream
    CancelLoads,     \* asynchronous opens are closed while they load
    DecodeMayFail,   \* the data in the store may be unreadable
    WritesMayFail,   \* clients close empty segments, encoders fail to write
    WithScan         \* clients open with SafSequentialScan

Sqns == 0..MaxSqn
NoSqn == -1   \* INVALID_STREAM_SEGMENT_ID, whose successor is 0

ASSUME StreamAssumption ==
    /\ MaxSqn \in Nat
    /\ Links = Sqns
    /\ \A n \in Sqns : KeyOf(n) = n
    /\ AsyncSessions \subseteq Sessions
    /\ IsFiniteSet(Sessions)
    /\ NoSession \notin Sessions
    /\ Existing \subseteq Sqns
    /\ MaxRefs \in Nat \ {0}
    /\ ReadAheadAmount \in Nat

VARIABLES
    pool,        \* the stream buffer
    loc,         \* _segments
    openList,    \* _openList
    lastSqn,     \* _lastSequenceNumber
    lastAppend,  \* _lastAppendSequenceNumber
    tasks,       \* work items of the encoder: <<"read" or "write", sqn>>;
                 \* <<"failed", sqn>> records a read that failed
    openLock, appendLock, lock,   \* who holds them
    th,          \* what the thread of a session is doing
    view,        \* the segment a session was given for a sequence number
    crashed,     \* a thread followed a null pointer
    missed       \* the sessions that sleep although their wait is over

streamVars == <<pool, loc, openList, lastSqn, lastAppend, tasks,
                openLock, appendLock, lock, th, view, crashed>>

vars == <<streamVars, missed>>

-----------------------------------------------------------------------------
(* struct SegmentLocation.  location # nullptr is "stored".                *)

NoRefs == [c \in Sessions |-> 0]

NewLoc(c, s) ==
    [stored |-> FALSE, id |-> s, sideId |-> NoSegment, cancel |-> FALSE,
     prefetched |-> FALSE, count |-> 1, refs |-> [NoRefs EXCEPT ![c] = 1],
     waits |-> {}]

StoredLoc ==
    [stored |-> TRUE, id |-> NoSegment, sideId |-> NoSegment, cancel |-> FALSE,
     prefetched |-> FALSE, count |-> 0, refs |-> NoRefs, waits |-> {}]

LocType ==
    [stored : BOOLEAN, id : Segments \cup {NoSegment},
     sideId : Segments \cup {NoSegment}, cancel : BOOLEAN,
     prefetched : BOOLEAN, count : 0..(MaxRefs * Cardinality(Sessions)),
     refs : [Sessions -> 0..MaxRefs], waits : SUBSET Sessions]

ASSUME LocationAssumption == NoLoc \notin LocType

\* The open reference of c is taken (in _open and in open).
Reference(l, c) ==
    [l EXCEPT !.count = @ + 1, !.refs[c] = @ + 1]

\* The last reference is gone.
Unreferenced(l) ==
    [l EXCEPT !.id = NoSegment, !.sideId = NoSegment, !.cancel = FALSE,
              !.count = 0, !.refs = NoRefs]

Idle == [pc |-> "idle", sqn |-> NoSqn, seg |-> NoSegment, ahead |-> <<>>,
         handled |-> FALSE, complete |-> FALSE, todo |-> {}]

Pcs == {"idle", "append", "add", "ahead", "aheadEnd", "open", "openEnd",
        "wait", "detach", "drain", "gone"}

ThreadType ==
    [pc : Pcs, sqn : Sqns \cup {NoSqn}, seg : Segments \cup {NoSegment},
     ahead : UNION {[1..k -> Sqns] : k \in 0..ReadAheadAmount},
     handled : BOOLEAN, complete : BOOLEAN, todo : SUBSET Sqns]

TypeOK ==
    /\ pool \in PoolType
    /\ loc \in [Sqns -> LocType \cup {NoLoc}]
    /\ openList \in SUBSET Sqns
    /\ lastSqn \in Sqns \cup {NoSqn}
    /\ lastAppend \in Sqns \cup {NoSqn}
    /\ tasks \in SUBSET ({"read", "write", "failed"} \X Sqns)
    /\ {openLock, appendLock, lock} \subseteq Sessions \cup {NoSession}
    /\ th \in [Sessions -> ThreadType]
    /\ view \in [Sessions -> [Sqns -> Segments \cup {NoSegment}]]
    /\ crashed \in BOOLEAN
    /\ missed \in SUBSET Sessions

\* The store adds the segments it finds with addSegment(sqn, location).
Init ==
    /\ pool = InitPool
    /\ loc = [n \in Sqns |-> IF n \in Existing THEN StoredLoc ELSE NoLoc]
    /\ openList = {}
    /\ lastSqn = IF Existing = {} THEN NoSqn ELSE Max(Existing)
    /\ lastAppend = NoSqn
    /\ tasks = {}
    /\ openLock = NoSession /\ appendLock = NoSession /\ lock = NoSession
    /\ th = [c \in Sessions |-> Idle]
    /\ view = [c \in Sessions |-> [n \in Sqns |-> NoSegment]]
    /\ crashed = FALSE
    /\ missed = {}

-----------------------------------------------------------------------------
(* Requests to the buffer: the results <<pool, segment, found in cache>>   *)

Request(kind, n) ==
    LET hit == FindStandbySegment(pool, n)
        new(p, s) == <<AllocateSegment(p, s, kind, n, FALSE), s, FALSE>>
    IN  IF hit # NoSegment
        THEN {<<DequeueFromStandbyList(pool, hit, n), hit, TRUE>>}
        ELSE IF pool.free # {}
        THEN {new(DequeueFromFreeList(pool, s), s) : s \in pool.free}
        ELSE IF pool.standby # <<>>
        THEN {new(EvictFromStandbyList(pool), Last(pool.standby))}
        ELSE {<<pool, NoSegment, FALSE>>}

\* Nobody is in a section under _lock.
Unlocked == lock = NoSession /\ ~crashed

Goto(c, pc) == th' = [th EXCEPT ![c].pc = pc]

-----------------------------------------------------------------------------
(* _close, for a caller c that holds _lock.  The wait of the caller is     *)
(* put into the location if "waiter" is {c}.                               *)

\* The append state after location n was submitted
AppendStateAfter(n) == IF n = lastAppend THEN NoSqn ELSE lastAppend

\* Variant: the caller's wait is not put into the location.
CloseInProgressNoWait(n, waiter) ==
    /\ loc[n].id = NoSegment
    /\ loc' = [loc EXCEPT ![n].cancel = TRUE]
    /\ UNCHANGED <<pool, openList, tasks, lastAppend>>

\* The segment is in progress: wait for it, and cancel a load.
CloseInProgress(n, waiter) ==
    /\ loc[n].id = NoSegment
    /\ loc' = [loc EXCEPT ![n].cancel = TRUE, ![n].waits = @ \cup waiter]
    /\ UNCHANGED <<pool, openList, tasks, lastAppend>>

\* A read-only segment: the buffer frees it, _completeSegment resets the
\* location.
CloseRead(n) ==
    /\ loc[n].id # NoSegment
    /\ loc[n].stored
    /\ pool' = FreeSegment(pool, loc[n].id, FALSE)
    /\ loc' = [loc EXCEPT ![n] = Unreferenced(@)]
    /\ openList' = openList \ {n}
    /\ UNCHANGED <<tasks, lastAppend>>

\* Variant: the mapping of the submitted segment stays valid.
CloseWriteKeepsId(n, waiter) ==
    /\ loc[n].id # NoSegment
    /\ ~loc[n].stored
    /\ pool' = MarkReady(SubmitWritten(pool, loc[n].id), loc[n].id)
    /\ loc' = [loc EXCEPT ![n].sideId = loc[n].id, ![n].waits = @ \cup waiter]
    /\ tasks' = tasks \cup {<<"write", n>>}
    /\ lastAppend' = AppendStateAfter(n)
    /\ UNCHANGED openList

\* A written segment goes to the encoder.
CloseWrite(n, waiter) ==
    /\ loc[n].id # NoSegment
    /\ ~loc[n].stored
    /\ pool' = MarkReady(SubmitWritten(pool, loc[n].id), loc[n].id)
    /\ loc' = [loc EXCEPT ![n].sideId = loc[n].id, ![n].id = NoSegment,
                          ![n].waits = @ \cup waiter]
    /\ tasks' = tasks \cup {<<"write", n>>}
    /\ lastAppend' = AppendStateAfter(n)
    /\ UNCHANGED openList

\* A written segment without entries, or one whose submit throws while the
\* close is forced: the segment is purged and the location deleted.
CloseDrop(n) ==
    /\ WritesMayFail
    /\ loc[n].id # NoSegment
    /\ ~loc[n].stored
    /\ pool' = PurgeSegment(pool, loc[n].id)
    /\ loc' = [loc EXCEPT ![n] = NoLoc]
    /\ openList' = openList \ {n}
    /\ lastAppend' = AppendStateAfter(n)
    /\ UNCHANGED tasks

CloseLocation(n, waiter) ==
    \/ CloseInProgress(n, waiter)
    \/ CloseRead(n)
    \/ CloseWrite(n, waiter)
    \/ CloseDrop(n)

-----------------------------------------------------------------------------
(* append and addSegment                                                   *)

\* append, first section: the last appended segment is submitted.  (If the
\* submit throws, append throws and nothing has changed.)
AppendBegin(c) ==
    /\ Unlocked
    /\ th[c].pc = "idle"
    /\ appendLock = NoSession
    /\ lastSqn < MaxSqn
    /\ lastAppend # NoSqn /\ ~SharedAppend => view[c][lastAppend] # NoSegment
    /\ IF lastAppend # NoSqn
       THEN /\ CloseLocation(lastAppend, {})
            /\ view' = [view EXCEPT ![c][lastAppend] = NoSegment]
       ELSE UNCHANGED <<pool, loc, openList, tasks, lastAppend, view>>
    /\ appendLock' = c
    /\ th' = [th EXCEPT ![c].pc = "append"]
    /\ UNCHANGED <<lastSqn, openLock, lock, crashed>>

\* requestSegment, without _lock
AppendRequest(c) ==
    /\ ~crashed
    /\ th[c].pc = "append" /\ th[c].seg = NoSegment
    /\ \E r \in Request("write", lastSqn + 1) :
          /\ pool' = r[1]
          /\ IF r[2] = NoSegment
             THEN /\ appendLock' = NoSession
                  /\ th' = [th EXCEPT ![c] = Idle]
             ELSE /\ th' = [th EXCEPT ![c].seg = r[2], ![c].sqn = lastSqn + 1]
                  /\ UNCHANGED appendLock
    /\ UNCHANGED <<loc, openList, lastSqn, lastAppend, tasks, openLock, lock,
                   view, crashed>>

\* _addSegmentLocation
AddSegmentLocation(c) ==
    LET n == th[c].sqn
    IN  /\ loc' = [loc EXCEPT ![n] = NewLoc(c, th[c].seg)]
        /\ openList' = openList \cup {n}
        /\ lastSqn' = IF n > lastSqn THEN n ELSE lastSqn
        /\ view' = [view EXCEPT ![c][n] = th[c].seg]
        /\ appendLock' = NoSession
        /\ th' = [th EXCEPT ![c] = Idle]
        /\ UNCHANGED <<pool, tasks, openLock, lock, crashed>>

\* append, second section
AppendEnd(c) ==
    /\ Unlocked
    /\ th[c].pc = "append" /\ th[c].seg # NoSegment
    /\ AddSegmentLocation(c)
    /\ lastAppend' = th[c].sqn

\* addSegment(session, sqn) up to the request
AddRequest(c, n) ==
    /\ ~crashed
    /\ th[c].pc = "idle"
    /\ appendLock = NoSession
    /\ loc[n] = NoLoc
    /\ \E r \in Request("write", n) :
          /\ r[2] # NoSegment
          /\ pool' = r[1]
          /\ th' = [th EXCEPT ![c] = [Idle EXCEPT !.pc = "add", !.sqn = n, !.seg = r[2]]]
    /\ appendLock' = c
    /\ UNCHANGED <<loc, openList, lastSqn, lastAppend, tasks, openLock, lock,
                   view, crashed>>

AddEnd(c) ==
    /\ Unlocked
    /\ th[c].pc = "add"
    /\ AddSegmentLocation(c)
    /\ UNCHANGED lastAppend

-----------------------------------------------------------------------------
(* open                                                                    *)

\* _findSequenceNumber(QNextValidSequenceNumber)
NextSegment(n) ==
    LET later == {m \in Sqns : m > n /\ loc[m] # NoLoc}
    IN  IF later = {} THEN NoSqn ELSE Min(later)

\* Variant: the end of the stream is not recognized.
ReadAheadListUnchecked(n) ==
    LET nth[k \in 0..ReadAheadAmount] ==
            IF k = 0 THEN n
            ELSE IF nth[k - 1] = NoSqn THEN NoSqn ELSE NextSegment(nth[k - 1])
    IN  [k \in 1..ReadAheadAmount |-> nth[k]]

\* _readAheadList: up to ReadAheadAmount segments that follow n
ReadAheadList(n) ==
    LET nth[k \in 0..ReadAheadAmount] ==
            IF k = 0 THEN n
            ELSE IF nth[k - 1] = NoSqn THEN NoSqn ELSE NextSegment(nth[k - 1])
        found == {k \in 1..ReadAheadAmount : nth[k] # NoSqn}
    IN  [k \in 1..Cardinality(found) |-> nth[k]]

\* Variant: a read-ahead is taken over with a reference of its own.
SharedLocCountsTwice(l, c) ==
    IF l.prefetched
    THEN [l EXCEPT !.refs = [NoRefs EXCEPT ![c] = 1], !.count = @ + 1,
                   !.prefetched = FALSE, !.cancel = FALSE]
    ELSE [Reference(l, c) EXCEPT !.cancel = FALSE]

\* Variant: the session that started the read-ahead keeps its reference.
SharedLocKeepsOld(l, c) ==
    IF l.prefetched
    THEN [l EXCEPT !.refs[c] = 1, !.prefetched = FALSE, !.cancel = FALSE]
    ELSE [Reference(l, c) EXCEPT !.cancel = FALSE]

\* A segment that is open already gets another reference; a read-ahead in
\* progress is taken over from the session that started it.
SharedLoc(l, c) ==
    IF l.prefetched
    THEN [l EXCEPT !.refs = [NoRefs EXCEPT ![c] = 1],
                   !.prefetched = FALSE, !.cancel = FALSE]
    ELSE [Reference(l, c) EXCEPT !.cancel = FALSE]

\* open, section under _lock: a segment that is open already is shared, and
\* a read-ahead in progress is taken over.
OpenBegin(c, n, scan) ==
    LET l == loc[n]
    IN  /\ Unlocked
        /\ th[c].pc = "idle"
        /\ openLock = NoSession
        /\ l # NoLoc /\ l.stored
        /\ l.refs[c] < MaxRefs
        /\ scan => WithScan
        /\ openLock' = c
        /\ th' = [th EXCEPT ![c] =
                    [Idle EXCEPT !.pc = "ahead", !.sqn = n,
                                 !.handled = l.count > 0,
                                 !.ahead = IF scan THEN ReadAheadList(n) ELSE <<>>]]
        /\ loc' = IF l.count = 0 THEN loc
                  ELSE [loc EXCEPT ![n] =
                          [SharedLoc(l, c) EXCEPT
                             !.waits = IF l.id = NoSegment THEN @ \cup {c} ELSE @]]
        /\ UNCHANGED <<pool, openList, lastSqn, lastAppend, tasks, appendLock,
                       lock, view, crashed>>

\* The next segment to read ahead, without _lock: nothing to do if it has
\* not been stored yet, is open or was prefetched before.
AheadSkip(c) ==
    LET m == Head(th[c].ahead)
    IN  /\ ~crashed
        /\ th[c].pc = "ahead" /\ th[c].ahead # <<>>
        /\ loc[m] # NoLoc
        /\ ~loc[m].stored \/ loc[m].count > 0 \/ loc[m].prefetched
        /\ th' = [th EXCEPT ![c].ahead = Tail(@)]
        /\ UNCHANGED <<pool, loc, openList, lastSqn, lastAppend, tasks, openLock,
                       appendLock, lock, view, crashed>>

\* The location was deleted since _lock was released: raloc is nullptr.
AheadCrash(c) ==
    /\ ~crashed
    /\ th[c].pc = "ahead" /\ th[c].ahead # <<>>
    /\ loc[Head(th[c].ahead)] = NoLoc
    /\ crashed' = TRUE
    /\ UNCHANGED <<pool, loc, openList, lastSqn, lastAppend, tasks, openLock,
                   appendLock, lock, th, view>>

\* _open up to the return of openSegment, for location m.  A load that is
\* not synchronous is a work item for the encoder.
OpenSegment(c, m, prefetch, async, pc) ==
    \E r \in Request(IF prefetch THEN "prefetch" ELSE "read", m) :
        LET load == r[2] # NoSegment /\ ~r[3]
        IN  /\ pool' = IF load /\ ~async THEN MarkReady(r[1], r[2]) ELSE r[1]
            /\ loc' = [loc EXCEPT ![m].prefetched = prefetch,
                                  ![m].cancel = prefetch,
                                  ![m].sideId = r[2]]
            /\ tasks' = IF load /\ async THEN tasks \cup {<<"read", m>>} ELSE tasks
            /\ th' = [th EXCEPT ![c].pc = pc, ![c].complete = ~(load /\ async)]
            /\ UNCHANGED <<openList, lastSqn, lastAppend, openLock, appendLock,
                           lock, view, crashed>>

AheadBegin(c) ==
    LET m == Head(th[c].ahead)
    IN  /\ ~crashed
        /\ th[c].pc = "ahead" /\ th[c].ahead # <<>>
        /\ loc[m] # NoLoc
        /\ loc[m].stored /\ loc[m].count = 0 /\ ~loc[m].prefetched
        /\ OpenSegment(c, m, TRUE, TRUE, "aheadEnd")

\* The end of _open under _lock when the buffer gave no segment, or when the
\* load was over before: nothing is opened.
OpenNothing(m) == [loc EXCEPT ![m].cancel = FALSE, ![m].prefetched = FALSE]

\* Variant: the waiters of the load are forgotten.
LoadedLocNoWake(l) ==
    IF l.cancel
    THEN Unreferenced(l)
    ELSE [l EXCEPT !.id = l.sideId, !.sideId = NoSegment]

\* _completeSegment of a load that is over, for location l
LoadedLoc(l) ==
    IF l.cancel
    THEN [Unreferenced(l) EXCEPT !.waits = {}]
    ELSE [l EXCEPT !.id = l.sideId, !.sideId = NoSegment, !.waits = {}]

\* A canceled load gives its segment to the cache.
LoadedPool(l) ==
    IF l.cancel THEN FreeSegment(pool, l.sideId, l.prefetched) ELSE pool

\* The end of _open for a read-ahead: read-ahead stops if it got no segment.
AheadEnd(c) ==
    LET m == Head(th[c].ahead)
        l == Reference(loc[m], c)
    IN  /\ Unlocked
        /\ th[c].pc = "aheadEnd"
        /\ IF loc[m].id = NoSegment /\ loc[m].sideId = NoSegment
           THEN /\ loc' = OpenNothing(m)
                /\ th' = [th EXCEPT ![c].pc = "ahead", ![c].ahead = <<>>]
                /\ UNCHANGED <<pool, openList>>
           ELSE /\ th' = [th EXCEPT ![c].pc = "ahead", ![c].ahead = Tail(@)]
                /\ IF th[c].complete
                   THEN /\ loc' = [loc EXCEPT ![m] = LoadedLoc(l)]
                        /\ pool' = LoadedPool(l)
                        /\ openList' = IF l.cancel THEN openList ELSE openList \cup {m}
                   ELSE /\ loc' = [loc EXCEPT ![m] = l]
                        /\ openList' = openList \cup {m}
                        /\ UNCHANGED pool
        /\ UNCHANGED <<lastSqn, lastAppend, tasks, openLock, appendLock, lock,
                       view, crashed>>

\* Read-ahead is over; a segment that was open already is all there is to do.
AheadDone(c) ==
    /\ ~crashed
    /\ th[c].pc = "ahead" /\ th[c].ahead = <<>>
    /\ th[c].handled
    /\ Goto(c, "wait")
    /\ openLock' = IF c \in AsyncSessions THEN NoSession ELSE openLock
    /\ UNCHANGED <<pool, loc, openList, lastSqn, lastAppend, tasks,
                   appendLock, lock, view, crashed>>

\* _open for the segment itself
OpenRead(c) ==
    /\ ~crashed
    /\ th[c].pc = "ahead" /\ th[c].ahead = <<>>
    /\ ~th[c].handled
    /\ OpenSegment(c, th[c].sqn, FALSE, c \in AsyncSessions, "openEnd")

\* A synchronous read throws: openSegment purged the segment, open throws.
\* The cached copy cannot fail.
OpenFail(c) ==
    LET n == th[c].sqn
    IN  /\ ~crashed
        /\ DecodeMayFail
        /\ th[c].pc = "ahead" /\ th[c].ahead = <<>>
        /\ ~th[c].handled
        /\ c \notin AsyncSessions
        /\ \E r \in Request("read", n) :
              /\ r[2] # NoSegment /\ ~r[3]
              /\ pool' = PurgeSegment(r[1], r[2])
        /\ loc' = [loc EXCEPT ![n].prefetched = FALSE, ![n].cancel = FALSE]
        /\ th' = [th EXCEPT ![c] = Idle]
        /\ openLock' = NoSession
        /\ UNCHANGED <<openList, lastSqn, lastAppend, tasks, appendLock, lock,
                       view, crashed>>

OpenEnd(c) ==
    LET n == th[c].sqn
        l == Reference(loc[n], c)
    IN  /\ Unlocked
        /\ th[c].pc = "openEnd"
        /\ IF loc[n].id = NoSegment /\ loc[n].sideId = NoSegment
           THEN /\ loc' = OpenNothing(n)
                /\ th' = [th EXCEPT ![c] = Idle]
                /\ openLock' = NoSession
                /\ UNCHANGED openList
           ELSE /\ loc' = [loc EXCEPT ![n] =
                             IF th[c].complete THEN LoadedLoc(l)
                             ELSE IF l.id = NoSegment
                             THEN [l EXCEPT !.waits = @ \cup {c}]
                             ELSE l]
                /\ openList' = openList \cup {n}
                /\ Goto(c, "wait")
                /\ openLock' = IF c \in AsyncSessions THEN NoSession ELSE openLock
        /\ UNCHANGED <<pool, lastSqn, lastAppend, tasks, appendLock, lock, view,
                       crashed>>

\* The count of the wait of c is not zero.
Waiting(c) == \E n \in Sqns : loc[n] # NoLoc /\ c \in loc[n].waits

\* The count goes to zero and the wake-up is sent without the lock of the
\* wait: a thread that has tested the count and does not sleep yet misses it
\* (module WaitContext).
MissWakeup ==
    \E S \in SUBSET {c \in Sessions : /\ th[c].pc \in {"wait", "drain"}
                                      /\ Waiting(c) /\ ~Waiting(c)'} :
        missed' = missed \cup S

\* A spurious wake-up, which nobody may count on
Spurious(c) ==
    /\ c \in missed
    /\ missed' = missed \ {c}
    /\ UNCHANGED streamVars

OpenReturn(c) ==
    LET n == th[c].sqn
    IN  /\ ~crashed
        /\ th[c].pc = "wait"
        /\ ~Waiting(c) /\ c \notin missed
        /\ view' = [view EXCEPT ![c][n] = loc[n].id]
        /\ th' = [th EXCEPT ![c] = Idle]
        /\ openLock' = IF openLock = c THEN NoSession ELSE openLock
        /\ UNCHANGED <<pool, loc, openList, lastSqn, lastAppend, tasks,
                       appendLock, lock, crashed>>

-----------------------------------------------------------------------------
(* close(session, sqn)                                                     *)

\* Variant: the segment is closed although other references are left.
CloseSqnAlways(c, n) ==
    /\ Unlocked
    /\ loc[n] # NoLoc /\ loc[n].refs[c] > 0
    /\ CloseLocation(n, {})
    /\ UNCHANGED <<lastSqn, appendLock, lock, crashed>>

CloseSqn(c, n) ==
    /\ Unlocked
    /\ loc[n] # NoLoc /\ loc[n].refs[c] > 0
    /\ IF loc[n].count = 1
       THEN CloseLocation(n, {})
       ELSE /\ loc' = [loc EXCEPT ![n].count = @ - 1, ![n].refs[c] = @ - 1]
            /\ UNCHANGED <<pool, openList, tasks, lastAppend>>
    /\ UNCHANGED <<lastSqn, appendLock, lock, crashed>>

\* A session closes a segment it was given.
Close(c, n) ==
    /\ th[c].pc = "idle"
    /\ view[c][n] # NoSegment
    /\ CloseSqn(c, n)
    /\ view' = [view EXCEPT ![c][n] =
                  IF loc[n].refs[c] > 1 THEN @ ELSE NoSegment]
    /\ UNCHANGED <<openLock, th>>

\* An asynchronous open is closed before its data has arrived.
CloseLoading(c) ==
    /\ CancelLoads
    /\ th[c].pc = "wait" /\ c \in AsyncSessions
    /\ Waiting(c)
    /\ CloseSqn(c, th[c].sqn)
    /\ th' = [th EXCEPT ![c] = Idle]
    /\ UNCHANGED <<openLock, view>>

-----------------------------------------------------------------------------
(* close(session) with a wait, when a session detaches from its store      *)

DetachBegin(c) ==
    /\ Unlocked
    /\ th[c].pc = "idle"
    /\ lock' = c
    /\ th' = [th EXCEPT ![c] = [Idle EXCEPT !.pc = "detach", !.todo = openList]]
    /\ view' = [view EXCEPT ![c] = [n \in Sqns |-> NoSegment]]
    /\ UNCHANGED <<pool, loc, openList, lastSqn, lastAppend, tasks, openLock,
                   appendLock, crashed>>

\* One turn of the loop over _openList
DetachStep(c) ==
    /\ th[c].pc = "detach"
    /\ \E n \in th[c].todo :
          /\ th' = [th EXCEPT ![c].todo = @ \ {n}]
          /\ IF loc[n].refs[c] = 0
             THEN UNCHANGED <<pool, loc, openList, tasks, lastAppend>>
             ELSE IF loc[n].count = loc[n].refs[c]
             THEN CloseLocation(n, {c})
             ELSE /\ loc' = [loc EXCEPT ![n].count = @ - loc[n].refs[c],
                                        ![n].refs[c] = 0]
                  /\ UNCHANGED <<pool, openList, tasks, lastAppend>>
    /\ UNCHANGED <<lastSqn, openLock, appendLock, lock, view, crashed>>

DetachEnd(c) ==
    /\ th[c].pc = "detach" /\ th[c].todo = {}
    /\ lock' = NoSession
    /\ Goto(c, "drain")
    /\ UNCHANGED <<pool, loc, openList, lastSqn, lastAppend, tasks, openLock,
                   appendLock, view, crashed>>

\* ServerStore::detach waits for everything the session has in progress.
DetachDone(c) ==
    /\ ~crashed
    /\ th[c].pc = "drain"
    /\ ~Waiting(c) /\ c \notin missed
    /\ Goto(c, "gone")
    /\ UNCHANGED <<pool, loc, openList, lastSqn, lastAppend, tasks, openLock,
                   appendLock, lock, view, crashed>>

-----------------------------------------------------------------------------
(* The workers of the encoder: completeSegment                             *)

TaskDone(kind, n) ==
    /\ Unlocked
    /\ <<kind, n>> \in tasks
    /\ tasks' = tasks \ {<<kind, n>>}
    /\ UNCHANGED <<lastSqn, lastAppend, openLock, appendLock, lock, th, view,
                   crashed>>

\* Variant: the session that waits for the write is not told.
WriteOkNoWake(n) ==
    /\ TaskDone("write", n)
    /\ pool' = FreeSegment(pool, loc[n].sideId, FALSE)
    /\ loc' = [loc EXCEPT ![n] = [Unreferenced(@) EXCEPT !.stored = TRUE]]
    /\ openList' = openList \ {n}

\* The segment was written: the location is added to the indices.
WriteOk(n) ==
    /\ TaskDone("write", n)
    /\ pool' = FreeSegment(pool, loc[n].sideId, FALSE)
    /\ loc' = [loc EXCEPT ![n] = [Unreferenced(@) EXCEPT !.stored = TRUE,
                                                        !.waits = {}]]
    /\ openList' = openList \ {n}

\* The encoder failed, or _addSegment refused the range.
WriteFail(n) ==
    /\ WritesMayFail
    /\ TaskDone("write", n)
    /\ pool' = PurgeSegment(pool, loc[n].sideId)
    /\ loc' = [loc EXCEPT ![n] = NoLoc]
    /\ openList' = openList \ {n}

\* Variant: the segment of a canceled load is not given back.
ReadOkLeaks(n) ==
    /\ TaskDone("read", n)
    /\ pool' = MarkReady(pool, loc[n].sideId)
    /\ loc' = [loc EXCEPT ![n] = LoadedLoc(@)]
    /\ openList' = IF loc[n].cancel THEN openList \ {n} ELSE openList

\* Variant: a canceled load becomes a mapping nobody asked for.
ReadOkIgnoresCancel(n) ==
    /\ TaskDone("read", n)
    /\ pool' = MarkReady(pool, loc[n].sideId)
    /\ loc' = [loc EXCEPT ![n] = LoadedLoc([@ EXCEPT !.cancel = FALSE])]
    /\ UNCHANGED openList

ReadOk(n) ==
    LET l == loc[n]
        p == MarkReady(pool, l.sideId)
    IN  /\ TaskDone("read", n)
        /\ pool' = IF l.cancel THEN FreeSegment(p, l.sideId, l.prefetched) ELSE p
        /\ loc' = [loc EXCEPT ![n] = LoadedLoc(l)]
        /\ openList' = IF l.cancel THEN openList \ {n} ELSE openList

\* _readerMain reports a failed read with completeSegment(sqn, nullptr),
\* which throws because the location is set; the work item just ends.
ReadFail(n) ==
    /\ DecodeMayFail
    /\ Unlocked
    /\ <<"read", n>> \in tasks
    /\ tasks' = (tasks \ {<<"read", n>>}) \cup {<<"failed", n>>}
    /\ UNCHANGED <<pool, loc, openList, lastSqn, lastAppend, openLock,
                   appendLock, lock, th, view, crashed>>

-----------------------------------------------------------------------------
ThreadStep(c) ==
    /\ \/ AppendRequest(c) \/ AppendEnd(c) \/ AddEnd(c)
       \/ AheadSkip(c) \/ AheadCrash(c) \/ AheadBegin(c) \/ AheadEnd(c) \/ AheadDone(c)
       \/ OpenRead(c) \/ OpenFail(c) \/ OpenEnd(c) \/ OpenReturn(c)
       \/ DetachStep(c) \/ DetachEnd(c) \/ DetachDone(c)
    /\ UNCHANGED missed

Call(c) ==
    /\ \/ AppendBegin(c)
       \/ \E n \in Sqns : AddRequest(c, n) \/ Close(c, n)
       \/ \E n \in Sqns, scan \in BOOLEAN : OpenBegin(c, n, scan)
       \/ CloseLoading(c)
       \/ DetachBegin(c)
    /\ UNCHANGED missed

Worker(n) ==
    /\ WriteOk(n) \/ WriteFail(n) \/ ReadOk(n) \/ ReadFail(n)
    /\ MissWakeup

Next ==
    \/ \E c \in Sessions : Call(c) \/ ThreadStep(c) \/ Spurious(c)
    \/ \E n \in Sqns : Worker(n)

Spec == Init /\ [][Next]_vars

\* A thread inside a call goes on, and the workers of the encoder finish
\* their work items.  Nothing makes a session call, close or detach, and
\* nothing wakes a thread that missed its wake-up.
Fairness ==
    /\ \A c \in Sessions : WF_vars(ThreadStep(c))
    /\ \A n \in Sqns : WF_vars(Worker(n))

FairSpec == Spec /\ Fairness

-----------------------------------------------------------------------------
(* Properties                                                              *)

Allocated(n) == loc[n] # NoLoc

\* The ways a segment of the buffer can be owned by the stream
Owners(s) ==
    {<<"id", n>> : n \in {n \in Sqns : Allocated(n) /\ loc[n].id = s}} \cup
    {<<"sideId", n>> : n \in {n \in Sqns : Allocated(n) /\ loc[n].sideId = s}} \cup
    {<<"call", c>> : c \in {c \in Sessions : th[c].seg = s}}

\* Every segment is free, cached or owned, and never owned twice: no failed,
\* canceled, dropped or repeated operation loses a segment or gives it back
\* twice.
SegmentOwnership ==
    \A s \in Segments :
        Cardinality(Owners(s)) =
            IF s \in pool.free \/ s \in Range(pool.standby) THEN 0 ELSE 1

\* The reads that failed: the code never takes such a location up again.
Abandoned == {n \in Sqns : <<"failed", n>> \in tasks}

InProgress(n) ==
    \/ {<<"read", n>>, <<"write", n>>} \cap tasks # {}
    \/ \E c \in Sessions :
          \/ th[c].pc = "openEnd" /\ th[c].sqn = n
          \/ th[c].pc = "aheadEnd" /\ Head(th[c].ahead) = n

\* A location is either mapped (id) or being processed (sideId).  Unless its
\* read failed, it is processed only as long as a work item or an open is
\* under way; after a failed read it keeps its segment, and no work item and
\* no open comes back to it, whoever opens, closes or detaches: the
\* assertions at the head of _completeSegment, _open and _close.
OneOperation ==
    \A n \in Sqns : Allocated(n) =>
        /\ loc[n].id = NoSegment \/ loc[n].sideId = NoSegment
        /\ loc[n].sideId # NoSegment => InProgress(n) \/ n \in Abandoned
        /\ <<"write", n>> \in tasks => ~loc[n].stored /\ loc[n].sideId # NoSegment
        /\ <<"read", n>> \in tasks => loc[n].stored /\ loc[n].sideId # NoSegment
        /\ n \in Abandoned =>
              /\ loc[n].stored /\ loc[n].sideId # NoSegment
              /\ {<<"read", n>>, <<"write", n>>} \cap tasks = {}

\* referenceCount is the sum of the referenceMap, and _openList has exactly
\* the referenced locations: "assert(totalRef = loc->referenceCount)", which
\* assigns in the code, as it was meant.
ReferencesCounted ==
    \A n \in Sqns :
        IF Allocated(n)
        THEN /\ loc[n].count = MapThenSumSet(LAMBDA c : loc[n].refs[c], Sessions)
             /\ n \in openList <=> loc[n].count > 0
        ELSE n \notin openList

\* As long as a session has not closed a segment it was given, the segment
\* stays mapped to that sequence number and, if it was opened for reading,
\* holds its data - whatever other sessions, read-ahead and workers do.
MappingStable ==
    \A c \in Sessions, n \in Sqns : view[c][n] # NoSegment =>
        /\ Allocated(n)
        /\ loc[n].id = view[c][n]
        /\ loc[n].refs[c] > 0
        /\ pool.seg[view[c][n]].link = n
        /\ InUse(pool, view[c][n])
        /\ loc[n].stored => pool.seg[view[c][n]].ready

\* A reference to a loaded segment belongs to a session that knows of it:
\* nothing keeps a segment open that nobody will close, and
\* "assert(_openList.empty())" holds in _finalize.
NoLeakedReference ==
    \A c \in Sessions, n \in Sqns :
        Allocated(n) /\ loc[n].id # NoSegment /\ loc[n].refs[c] > 0 =>
            \/ view[c][n] # NoSegment
            \/ th[c].pc \in {"ahead", "aheadEnd", "wait"} /\ th[c].sqn = n
            \/ th[c].pc = "detach"

\* When detach returns, nothing of the session is open or in progress.
DetachedClean ==
    \A c \in Sessions : th[c].pc = "gone" =>
        \A n \in Sqns : Allocated(n) => loc[n].refs[c] = 0 /\ c \notin loc[n].waits

\* assert(raloc != nullptr) in open: "Since we cannot delete finished segments
\* the collected sequence numbers must still be valid for read ahead!"
ReadAheadValid == ~crashed

\* assert(loc->referenceCount == 1) in _close, which close(session) calls
\* for all references of the session at once.
CloseOfOneReference ==
    \A c \in Sessions : th[c].pc = "detach" =>
        \A n \in th[c].todo :
            loc[n].refs[c] > 0 /\ loc[n].count = loc[n].refs[c] => loc[n].count = 1

\* The stream implements TraceStream: with read-ahead, the cache and the
\* workers in between, a segment has one writer, is immutable and readable
\* once it is stored, and is never mapped while it is neither.
PhaseOf(n) ==
    IF ~Allocated(n) THEN "absent"
    ELSE IF loc[n].stored THEN "stored"
    ELSE IF loc[n].id # NoSegment THEN "writing" ELSE "encoding"

Abstract == INSTANCE TraceStream WITH
    phase <- [n \in Sqns |-> PhaseOf(n)],
    mapped <- {m \in Sessions \X Sqns : view[m[1]][m[2]] # NoSegment}

ImplementsTraceStream == Abstract!Spec

\* What keeps a waiting thread for good: it missed its wake-up, or it waits
\* for a read that failed
Stuck(c) == c \in missed \/ \E n \in Abandoned : c \in loc[n].waits

\* open returns: the data arrives or the caller learns that it does not.
\* Nothing but a missed wake-up or a failed asynchronous read keeps it.
OpenReturns ==
    \A c \in Sessions : th[c].pc = "wait" ~> (th[c].pc = "idle" \/ []Stuck(c))

\* detach returns, with the same exceptions.
DetachReturns ==
    \A c \in Sessions : th[c].pc = "detach" ~> (th[c].pc = "gone" \/ []Stuck(c))

\* open returns even if the read it joined fails: the branch of _readerMain
\* that reports the failure to the stream.
FailedReadReturns ==
    \A c \in Sessions : th[c].pc = "wait" ~> (th[c].pc = "idle" \/ c \in missed)

=============================================================================
