------------------------- MODULE ServerStoreManager -------------------------
(***************************************************************************)
(* class ServerStoreManager: the map of open stores.  A store that its     *)
(* last session has closed stays in the map as a dormant, read-only store  *)
(* (up to store.persistentCache of them) and wakes up when it is opened    *)
(* again.                                                                  *)
(*                                                                         *)
(* _createOrOpenStore runs in two sections.  Under _lock it finds or       *)
(* inserts the reference of the path; then, with _lock released, it takes  *)
(* the lock of the reference and creates, opens or wakes the store.  Other *)
(* sessions run in between and may hold the same reference (a shared_ptr,  *)
(* so it outlives its entry in the map).  The section under the lock of    *)
(* the reference and closeStore, which holds both locks, are one step.     *)
(***************************************************************************)
EXTENDS Integers, FiniteSets, FiniteSetsExt

CONSTANTS
    Sessions,
    Paths,            \* the files the specifiers name
    PersistentCache,  \* store.persistentCache
    MaxStores,        \* bound: ids the allocator gives out
    MaxClock          \* bound: dormant time stamps

ASSUME ManagerAssumption ==
    /\ Paths # {}
    /\ PersistentCache \in Nat
    /\ MaxStores \in Nat \ {0}
    /\ MaxClock \in Nat

Ids == 1..MaxStores
NoId == 0          \* INVALID_STORE_ID
NoStore == -1      \* a reference whose store is nullptr
NoTime == MaxClock + 1   \* INVALID_TIME_STAMP

VARIABLES
    refs,      \* the references, by the id they were inserted with
    nextId,    \* _storeIdAllocator
    clock,     \* Clock::getTimestamp
    ses        \* what a session is doing

vars == <<refs, nextId, clock, ses>>

(***************************************************************************)
(* struct ServerStoreReference.  "store" is the id of the store object;    *)
(* users are the sessions attached to it (besides SERVER_SESSION_ID).      *)
(***************************************************************************)
RefType ==
    [path : Paths, inMap : BOOLEAN, store : Ids \cup {NoId, NoStore},
     dormant : BOOLEAN, time : 0..NoTime, users : SUBSET Sessions]

SessionType ==
    [pc : {"idle", "search", "ref", "attached"}, path : Paths, open : BOOLEAN,
     ref : Ids \cup {NoId}, id : Ids \cup {NoId}, made : BOOLEAN]

\* The references that exist
Refs == 1..(nextId - 1)

TypeOK ==
    /\ nextId \in 1..(MaxStores + 1)
    /\ refs \in [Refs -> RefType]
    /\ clock \in 0..MaxClock
    /\ ses \in [Sessions -> SessionType]

Init ==
    /\ refs = <<>>
    /\ nextId = 1
    /\ clock = 0
    /\ ses = [c \in Sessions |->
                [pc |-> "idle", path |-> CHOOSE p \in Paths : TRUE, open |-> TRUE,
                 ref |-> NoId, id |-> NoId, made |-> FALSE]]

-----------------------------------------------------------------------------
(* Under _lock                                                             *)

\* A reference whose creation failed: it is removed by the next search.
Invalid(r) == refs[r].store = NoStore /\ refs[r].dormant

\* Variant: the reference looks as if its store had yet to be created.
ReleaseStoreAwake(rs, r) ==
    [rs EXCEPT ![r].inMap = FALSE, ![r].store = NoStore, ![r].dormant = FALSE]

\* _releaseStore: the store is destroyed and its entry erased.  The
\* reference lives on in the threads that hold it.
ReleaseStore(rs, r) == [rs EXCEPT ![r].inMap = FALSE, ![r].store = NoStore]

\* Variant: stores in use are candidates, too.
EvictableAny(rs, r) ==
    /\ rs[r].inMap /\ rs[r].store # NoStore
    /\ \A c \in Sessions : ses[c].pc = "ref" => ses[c].ref # r

\* Dormant stores that no thread is about to use (use_count)
Evictable(rs, r) ==
    /\ rs[r].inMap /\ rs[r].dormant /\ rs[r].store # NoStore
    /\ \A c \in Sessions : ses[c].pc = "ref" => ses[c].ref # r

\* _evictStore: the loop counts the candidates that are older than all
\* candidates before them.
EvictStore(rs) ==
    LET cand  == {r \in DOMAIN rs : Evictable(rs, r)}
        older == {r \in cand : \A q \in cand : q < r => rs[r].time < rs[q].time}
    IN  IF Cardinality(older) > PersistentCache
        THEN ReleaseStore(rs, Max(older))
        ELSE rs

\* The search loop: the first valid reference with the path, or NoId
Match(path) ==
    LET m == {r \in Refs : refs[r].inMap /\ ~Invalid(r) /\ refs[r].path = path}
    IN  IF m = {} THEN NoId ELSE Min(m)

\* It removes the invalid references it walks over.
Swept(path) ==
    LET last == IF Match(path) = NoId THEN nextId ELSE Match(path)
    IN  [r \in Refs |-> IF Invalid(r) /\ r < last
                        THEN [refs[r] EXCEPT !.inMap = FALSE] ELSE refs[r]]

NewRef(path) ==
    [path |-> path, inMap |-> TRUE, store |-> NoStore, dormant |-> FALSE,
     time |-> NoTime, users |-> {}]

\* createStore or openStore is called.
Call(c, path, open) ==
    /\ ses[c].pc = "idle"
    /\ ses' = [ses EXCEPT ![c] = [pc |-> "search", path |-> path, open |-> open,
                                  ref |-> NoId, id |-> NoId, made |-> FALSE]]
    /\ UNCHANGED <<refs, nextId, clock>>

\* The path is open, or dormant and to be opened: share the reference.
SearchFound(c) ==
    LET r == Match(ses[c].path)
    IN  /\ ses[c].pc = "search"
        /\ r # NoId
        /\ refs[r].dormant => ses[c].open
        /\ refs' = Swept(ses[c].path)
        /\ ses' = [ses EXCEPT ![c].pc = "ref", ![c].ref = r, ![c].id = NoId]
        /\ UNCHANGED <<nextId, clock>>

\* A new reference is inserted; a dormant store of the path that is to be
\* created anew is released.
SearchNew(c) ==
    LET r     == Match(ses[c].path)
        swept == Swept(ses[c].path)
        freed == IF r = NoId THEN swept ELSE ReleaseStore(swept, r)
    IN  /\ ses[c].pc = "search"
        /\ r # NoId => refs[r].dormant /\ ~ses[c].open
        /\ nextId <= MaxStores
        /\ refs' = EvictStore([i \in 1..nextId |->
                        IF i = nextId THEN NewRef(ses[c].path) ELSE freed[i]])
        /\ ses' = [ses EXCEPT ![c].pc = "ref", ![c].ref = nextId, ![c].id = nextId]
        /\ nextId' = nextId + 1
        /\ UNCHANGED clock

-----------------------------------------------------------------------------
(* Under the lock of the reference                                         *)

Attach(c, r, ref, made) ==
    /\ refs' = [refs EXCEPT ![r] = [ref EXCEPT !.users = @ \cup {c}]]
    /\ ses' = [ses EXCEPT ![c].pc = "attached", ![c].made = made]

\* The call throws.
Fail(c) == ses' = [ses EXCEPT ![c].pc = "idle", ![c].ref = NoId, ![c].id = NoId]

\* case a): the store is created or opened with the id of this call, which
\* is valid only if the call inserted the reference.
CreateStore(c) ==
    LET r == ses[c].ref
    IN  /\ ses[c].pc = "ref"
        /\ refs[r].store = NoStore /\ ~refs[r].dormant
        /\ Attach(c, r, [refs[r] EXCEPT !.store = ses[c].id], ~ses[c].open)
        /\ UNCHANGED <<nextId, clock>>

\* The factory throws: the reference is marked invalid.
CreateFails(c) ==
    LET r == ses[c].ref
    IN  /\ ses[c].pc = "ref"
        /\ refs[r].store = NoStore /\ ~refs[r].dormant
        /\ refs' = [refs EXCEPT ![r].dormant = TRUE]
        /\ Fail(c)
        /\ UNCHANGED <<nextId, clock>>

\* case b): the store was released in the meantime.
Retry(c) ==
    /\ ses[c].pc = "ref"
    /\ Invalid(ses[c].ref)
    /\ ses' = [ses EXCEPT ![c].pc = "search", ![c].ref = NoId, ![c].id = NoId]
    /\ UNCHANGED <<refs, nextId, clock>>

\* A dormant store wakes up.
Wake(c) ==
    LET r == ses[c].ref
    IN  /\ ses[c].pc = "ref"
        /\ refs[r].store # NoStore /\ refs[r].dormant
        /\ Attach(c, r, [refs[r] EXCEPT !.dormant = FALSE], FALSE)
        /\ UNCHANGED <<nextId, clock>>

\* cases c) and d)
Join(c) ==
    LET r == ses[c].ref
    IN  /\ ses[c].pc = "ref"
        /\ refs[r].store # NoStore /\ ~refs[r].dormant
        /\ IF ses[c].open
           THEN Attach(c, r, refs[r], FALSE)
           ELSE Fail(c) /\ UNCHANGED refs
        /\ UNCHANGED <<nextId, clock>>

\* closeStore finds the store by its id; the last session leaves it dormant
\* or, without a cache, destroys it.
CloseStore(c) ==
    LET r    == refs[ses[c].ref].store
        left == [refs EXCEPT ![r].users = @ \ {c}]
    IN  /\ ses[c].pc = "attached"
        /\ r # NoId /\ refs[r].inMap
        /\ IF left[r].users # {}
           THEN refs' = left /\ UNCHANGED clock
           ELSE IF PersistentCache = 0
           THEN refs' = ReleaseStore(left, r) /\ UNCHANGED clock
           ELSE /\ clock < MaxClock
                /\ refs' = [left EXCEPT ![r].dormant = TRUE, ![r].time = clock]
                /\ clock' = clock + 1
        /\ ses' = [ses EXCEPT ![c].pc = "idle", ![c].ref = NoId, ![c].id = NoId,
                              ![c].made = FALSE]
        /\ UNCHANGED nextId

-----------------------------------------------------------------------------
Next ==
    \E c \in Sessions :
        \/ \E path \in Paths, open \in BOOLEAN : Call(c, path, open)
        \/ SearchFound(c) \/ SearchNew(c)
        \/ CreateStore(c) \/ CreateFails(c) \/ Retry(c) \/ Wake(c) \/ Join(c)
        \/ CloseStore(c)

Spec == Init /\ [][Next]_vars

-----------------------------------------------------------------------------
(* Properties                                                              *)

\* There is never more than one store object for a file: two would write
\* the same file without knowing of each other.
OneStorePerPath ==
    \A q, r \in Refs :
        q # r /\ refs[q].store # NoStore /\ refs[r].store # NoStore =>
            refs[q].path # refs[r].path

\* A session stays attached to a store that exists, is in the map and is
\* not dormant, and the store knows of the session: eviction, overwriting
\* and the sessions that fail never take the store away from it.
AttachedStoreLives ==
    \A c \in Sessions : ses[c].pc = "attached" =>
        LET r == ses[c].ref
        IN  /\ refs[r].store # NoStore /\ refs[r].inMap /\ ~refs[r].dormant
            /\ c \in refs[r].users
            /\ refs[r].path = ses[c].path

\* assert(id != INVALID_STORE_ID) and assert(ustore->getId() == id): a store
\* has the id under which the map finds it.  "It is not relevant if another
\* thread created the entry and we are now creating the store".
StoreHasItsId == \A r \in Refs : refs[r].store # NoStore => refs[r].store = r

\* assert(open) where a dormant store wakes up: a session that asked to
\* create a store does not end up with an old one.
CreateCreates ==
    \A c \in Sessions : ses[c].pc = "attached" /\ ~ses[c].open => ses[c].made

\* "The eviction policy is lru, which is applied when the number of dormant
\* stores exceeds the configured cache limit": when a reference is added and
\* more stores are dormant than the limit allows, one of them goes.
Dormant == {r \in Refs : Evictable(refs, r)}

EvictsWhenFull ==
    [][nextId' # nextId /\ Cardinality(Dormant) > PersistentCache =>
          \E r \in Dormant : ~refs'[r].inMap]_vars

=============================================================================
