---------------------- MODULE ServerStoreManagerProofs -----------------------
(***************************************************************************)
(* With a cache for dormant stores there is never more than one store      *)
(* object for a file, for any number of sessions, paths and stores.        *)
(*                                                                         *)
(* The argument: a reference leaves the map only when it is invalid, so    *)
(* the threads that still hold it search again; and the map never holds    *)
(* two valid references of one path.                                       *)
(***************************************************************************)
EXTENDS ServerStoreManager, TLAPS, WellFoundedInduction, FiniteSetTheorems

\* A reference that is not in the map any more creates no store.
MapInv == \A r \in Refs : ~refs[r].inMap => Invalid(r)

PathInv ==
    \A q, r \in Refs :
        q # r /\ refs[q].inMap /\ refs[r].inMap /\ ~Invalid(q) /\ ~Invalid(r) =>
            refs[q].path # refs[r].path

\* A store has the id of its reference, or none.
IdInv == \A r \in Refs : refs[r].store \in {NoStore, NoId, r}

\* A session holds a reference of its path.
HeldInv ==
    \A c \in Sessions : ses[c].pc \in {"ref", "attached"} =>
        /\ ses[c].ref \in Refs
        /\ refs[ses[c].ref].path = ses[c].path
        /\ ses[c].id \in {NoId, ses[c].ref}

IInv == TypeOK /\ MapInv /\ PathInv /\ IdInv /\ HeldInv /\ AttachedStoreLives

-----------------------------------------------------------------------------
(* The smallest and the largest of some references                         *)

Less == {p \in Nat \X Nat : p[1] < p[2]}

\* Some numbers have a smallest one ...
LEMMA Least ==
    ASSUME NEW S, S \subseteq Nat, S # {}
    PROVE  \E x \in S : \A y \in S : x <= y
<1>1. OpToRel(<, Nat) = Less
  BY DEF OpToRel, Less
<1>2. IsWellFoundedOn(Less, Nat)
  BY <1>1, NatLessThanWellFounded
<1>3. PICK x \in S : \A y \in S : ~(<<y, x>> \in Less)
  BY <1>2, WFMin
<1>4. ASSUME NEW y \in S PROVE x <= y
  <2>1. x \in Nat /\ y \in Nat
    OBVIOUS
  <2>2. ~(y < x)
    <3> DEFINE p == <<y, x>>
    <3>1. p \in Nat \X Nat /\ p[1] = y /\ p[2] = x
      BY <2>1
    <3>2. p \notin Less
      BY <1>3
    <3> HIDE DEF p
    <3> QED
      BY <3>1, <3>2 DEF Less
  <2> QED
    BY <2>1, <2>2
<1> QED
  BY <1>4

\* The module's Min of a set of numbers is one of them ...
LEMMA Smallest ==
    ASSUME NEW S, S \subseteq Nat, S # {}
    PROVE  Min(S) \in S
BY Least DEF Min

\* ... and, if they are bounded, a largest one.
LEMMA Largest ==
    ASSUME NEW n \in Nat, NEW S, S \subseteq 1..n, S # {}
    PROVE  Max(S) \in S
<1> DEFINE T == {n - x : x \in S}
<1>1. \A x \in S : n - x \in Nat
  OBVIOUS
<1>2. T \subseteq Nat /\ T # {}
  BY <1>1
<1>3. \E m \in T : \A y \in T : m <= y
  <2> HIDE DEF T
  <2> QED
    BY <1>2, Least
<1>4. PICK x \in S : \A y \in T : n - x <= y
  BY <1>3
<1>5. \A y \in S : n - x <= n - y
  BY <1>4
<1>6. \A y \in S : x >= y
  BY <1>5
<1> QED
  BY <1>6 DEF Max

-----------------------------------------------------------------------------
(* What becomes of the references while _lock is held                      *)

\* A reference is as it was, or it is dormant, was released, and is invalid.
Kept(old, new) ==
    \/ new = old
    \/ /\ old.dormant /\ new.dormant
       /\ ~new.inMap /\ new.store = NoStore /\ new.path = old.path

\* The fields of a reference that the manager sets
LEMMA RefFields ==
    ASSUME NEW x \in RefType
    PROVE  /\ \A b \in BOOLEAN : [x EXCEPT !.inMap = b] \in RefType
           /\ \A s \in Ids \cup {NoId, NoStore} : [x EXCEPT !.store = s] \in RefType
           /\ \A b \in BOOLEAN : [x EXCEPT !.dormant = b] \in RefType
           /\ \A t \in 0..NoTime : [x EXCEPT !.time = t] \in RefType
           /\ \A u \in SUBSET Sessions : [x EXCEPT !.users = u] \in RefType
<1>1. \A b \in BOOLEAN : [x EXCEPT !.inMap = b] \in RefType
  BY DEF RefType
<1>2. \A s \in Ids \cup {NoId, NoStore} : [x EXCEPT !.store = s] \in RefType
  BY DEF RefType
<1>3. \A b \in BOOLEAN : [x EXCEPT !.dormant = b] \in RefType
  BY DEF RefType
<1>4. \A t \in 0..NoTime : [x EXCEPT !.time = t] \in RefType
  BY DEF RefType
<1>5. \A u \in SUBSET Sessions : [x EXCEPT !.users = u] \in RefType
  BY DEF RefType
<1> QED
  BY <1>1, <1>2, <1>3, <1>4, <1>5

\* _releaseStore of a dormant store
LEMMA Released ==
    ASSUME NEW n \in Nat, NEW rs \in [1..n -> RefType], NEW r \in 1..n, rs[r].dormant
    PROVE  /\ ReleaseStore(rs, r) \in [1..n -> RefType]
           /\ \A q \in 1..n : Kept(rs[q], ReleaseStore(rs, r)[q])
           /\ ~ReleaseStore(rs, r)[r].inMap
<1> DEFINE a == [rs[r] EXCEPT !.inMap = FALSE]
           b == [a EXCEPT !.store = NoStore]
<1>1. a \in RefType /\ a.dormant /\ ~a.inMap /\ a.path = rs[r].path
  <2>1. rs[r] \in RefType
    OBVIOUS
  <2> QED
    BY <2>1 DEF RefType
<1>2. b \in RefType /\ b.dormant /\ ~b.inMap /\ b.store = NoStore /\ b.path = rs[r].path
  <2> HIDE DEF a
  <2>1. b \in RefType
    BY <1>1, RefFields
  <2> QED
    BY <1>1, <2>1 DEF RefType
<1>3. ReleaseStore(rs, r) = [rs EXCEPT ![r] = b]
  BY DEF ReleaseStore
<1> HIDE DEF b
<1> QED
  BY <1>2, <1>3 DEF Kept

\* _evictStore
LEMMA Evicted ==
    ASSUME PersistentCache > 0, NEW n \in Nat, NEW rs \in [1..n -> RefType]
    PROVE  /\ EvictStore(rs) \in [1..n -> RefType]
           /\ \A q \in 1..n : Kept(rs[q], EvictStore(rs)[q])
<1> DEFINE cand  == {r \in DOMAIN rs : Evictable(rs, r)}
           older == {r \in cand : \A q \in cand : q < r => rs[r].time < rs[q].time}
<1>1. CASE Cardinality(older) > PersistentCache
  <2>1. older # {}
    <3>1. Cardinality({}) = 0
      BY FS_EmptySet
    <3> HIDE DEF older
    <3> QED
      BY <1>1, <3>1, ManagerAssumption
  <2>2. Max(older) \in older
    BY <2>1, Largest
  <2>3. Max(older) \in 1..n /\ rs[Max(older)].dormant
    BY <2>2 DEF Evictable
  <2>4. EvictStore(rs) = ReleaseStore(rs, Max(older))
    BY <1>1 DEF EvictStore
  <2> HIDE DEF older
  <2> QED
    BY <2>3, <2>4, Released
<1>2. CASE ~(Cardinality(older) > PersistentCache)
  <2>1. EvictStore(rs) = rs
    BY <1>2 DEF EvictStore
  <2> QED
    BY <2>1 DEF Kept
<1> QED
  BY <1>1, <1>2

\* What the search finds is a valid reference of the path in the map.
LEMMA Matched ==
    ASSUME TypeOK, NEW path, Match(path) # NoId
    PROVE  /\ Match(path) \in Refs /\ refs[Match(path)].inMap
           /\ ~Invalid(Match(path)) /\ refs[Match(path)].path = path
<1> DEFINE m == {r \in Refs : refs[r].inMap /\ ~Invalid(r) /\ refs[r].path = path}
<1>1. m # {} /\ Match(path) = Min(m)
  BY DEF Match
<1>2. m \subseteq Nat
  BY DEF Refs, TypeOK
<1>3. Min(m) \in m
  <2> HIDE DEF m
  <2> QED
    BY <1>1, <1>2, Smallest
<1> QED
  BY <1>1, <1>3

\* ... and there is none of the path if nothing is found.
LEMMA Unmatched ==
    ASSUME TypeOK, NEW path, Match(path) = NoId
    PROVE  \A r \in Refs : refs[r].inMap /\ ~Invalid(r) => refs[r].path # path
<1> DEFINE m == {r \in Refs : refs[r].inMap /\ ~Invalid(r) /\ refs[r].path = path}
<1>1. m \subseteq Nat /\ \A x \in m : x # NoId
  BY DEF Refs, TypeOK, NoId
<1>2. CASE m # {}
  <2>1. Min(m) \in m
    <3> HIDE DEF m
    <3> QED
      BY <1>1, <1>2, Smallest
  <2>2. Match(path) = Min(m)
    BY <1>2 DEF Match
  <2> QED
    BY <1>1, <2>1, <2>2
<1>3. CASE m = {}
  BY <1>3
<1> QED
  BY <1>2, <1>3

\* Cleaning the map of invalid references leaves each as it was, or released.
LEMMA SweptKeeps ==
    ASSUME TypeOK, NEW path
    PROVE  /\ Swept(path) \in [Refs -> RefType]
           /\ \A r \in Refs : Kept(refs[r], Swept(path)[r])
           /\ \A r \in Refs : ~Invalid(r) => Swept(path)[r] = refs[r]
<1>1. ASSUME NEW r \in Refs, Invalid(r)
      PROVE  /\ [refs[r] EXCEPT !.inMap = FALSE] \in RefType
             /\ Kept(refs[r], [refs[r] EXCEPT !.inMap = FALSE])
  <2>1. refs[r] \in RefType
    BY DEF TypeOK
  <2> QED
    BY <1>1, <2>1 DEF RefType, Kept, Invalid
<1>2. \A r \in Refs : refs[r] \in RefType /\ Kept(refs[r], refs[r])
  BY DEF TypeOK, Kept
<1>3. \A r \in Refs : \/ Swept(path)[r] = refs[r]
                      \/ Invalid(r) /\ Swept(path)[r] = [refs[r] EXCEPT !.inMap = FALSE]
  BY DEF Swept
<1>4. \A r \in Refs : Swept(path)[r] \in RefType /\ Kept(refs[r], Swept(path)[r])
  BY <1>1, <1>2, <1>3
<1>5. Swept(path) \in [Refs -> RefType]
  BY <1>4 DEF Swept
<1> QED
  BY <1>3, <1>4, <1>5

\* Releasing dormant stores disturbs no session and nothing in the map.
LEMMA KeptInv ==
    ASSUME IInv, NEW r \in Refs, NEW x, Kept(refs[r], x)
    PROVE  /\ x.path = refs[r].path
           /\ x.store \in {NoStore, NoId, r}
           /\ ~x.inMap => x.store = NoStore /\ x.dormant
           /\ x.inMap /\ ~(x.store = NoStore /\ x.dormant) =>
                 refs[r].inMap /\ ~Invalid(r)
           /\ ~refs[r].dormant => x = refs[r]
BY DEF IInv, MapInv, IdInv, Kept, Invalid

-----------------------------------------------------------------------------
(* One lemma per action                                                    *)

\* A session moves.
LEMMA SessionMoves ==
    ASSUME IInv, NEW c \in Sessions, NEW y \in SessionType, ses' = [ses EXCEPT ![c] = y],
           y.pc \notin {"ref", "attached"}, UNCHANGED <<refs, nextId, clock>>
    PROVE  IInv'
<1>1. \A d \in Sessions : ses'[d].pc \in {"ref", "attached"} => ses'[d] = ses[d]
  BY DEF IInv, TypeOK
<1>2. TypeOK'
  BY DEF IInv, TypeOK, Refs
<1>3. MapInv' /\ PathInv' /\ IdInv'
  BY DEF IInv, MapInv, PathInv, IdInv, Invalid, Refs
<1>4. HeldInv' /\ AttachedStoreLives'
  BY <1>1 DEF IInv, HeldInv, AttachedStoreLives, Refs
<1> QED
  BY <1>2, <1>3, <1>4 DEF IInv

\* The fields of a session that the manager sets
With(y, pc, ref, id) == [y EXCEPT !.pc = pc, !.ref = ref, !.id = id]

\* A session finds a reference of its path.
LEMMA SessionSearches ==
    ASSUME NEW y \in SessionType, NEW pc \in {"idle", "search", "ref", "attached"},
           NEW ref \in Ids \cup {NoId}, NEW id \in Ids \cup {NoId}
    PROVE  LET z == With(y, pc, ref, id)
           IN  z \in SessionType /\ z.pc = pc /\ z.ref = ref /\ z.id = id /\ z.path = y.path
<1> DEFINE a == [y EXCEPT !.pc = pc]
           b == [a EXCEPT !.ref = ref]
           d == [b EXCEPT !.id = id]
<1>1. /\ a \in SessionType /\ a.pc = pc /\ a.path = y.path
  BY DEF SessionType
<1>2. /\ b \in SessionType /\ b.pc = pc /\ b.path = y.path /\ b.ref = ref
  <2> HIDE DEF a
  <2> QED
    BY <1>1 DEF SessionType
<1>3. /\ d \in SessionType /\ d.pc = pc /\ d.path = y.path /\ d.ref = ref /\ d.id = id
  <2> HIDE DEF b
  <2> QED
    BY <1>2 DEF SessionType
<1>4. With(y, pc, ref, id) = d
  BY DEF With
<1> HIDE DEF d
<1> QED
  BY <1>3, <1>4

\* A session throws or leaves.
LEMMA SessionLeaves ==
    ASSUME NEW x \in SessionType
    PROVE  LET w == [With(x, "idle", NoId, NoId) EXCEPT !.made = FALSE]
           IN  w \in SessionType /\ w.pc = "idle"
<1> DEFINE v == With(x, "idle", NoId, NoId)
<1>1. v \in SessionType /\ v.pc = "idle"
  BY SessionSearches
<1>2. [v EXCEPT !.made = FALSE] \in SessionType /\ [v EXCEPT !.made = FALSE].pc = "idle"
  <2> HIDE DEF v
  <2> QED
    BY <1>1 DEF SessionType
<1> QED
  BY <1>2

\* A session is attached to the store of its reference.
LEMMA SessionAttaches ==
    ASSUME NEW y \in SessionType, NEW made \in BOOLEAN
    PROVE  LET z == [y EXCEPT !.pc = "attached", !.made = made]
           IN  /\ z \in SessionType /\ z.pc = "attached"
               /\ z.ref = y.ref /\ z.id = y.id /\ z.path = y.path
<1> DEFINE a == [y EXCEPT !.pc = "attached"]
           f == [a EXCEPT !.made = made]
<1>1. /\ a \in SessionType /\ a.pc = "attached" /\ a.path = y.path /\ a.ref = y.ref /\ a.id = y.id
  BY DEF SessionType
<1>2. /\ f \in SessionType /\ f.pc = "attached" /\ f.path = y.path /\ f.ref = y.ref /\ f.id = y.id
  <2> HIDE DEF a
  <2> QED
    BY <1>1 DEF SessionType
<1>3. [y EXCEPT !.pc = "attached", !.made = made] = f
  OBVIOUS
<1> HIDE DEF f
<1> QED
  BY <1>2, <1>3

\* A session changes; the others do not.
LEMMA SessionSet ==
    ASSUME TypeOK, NEW c \in Sessions, NEW y \in SessionType, ses' = [ses EXCEPT ![c] = y]
    PROVE  /\ ses' \in [Sessions -> SessionType]
           /\ ses'[c] = y
           /\ \A d \in Sessions : d # c => ses'[d] = ses[d]
BY DEF TypeOK

\* createStore or openStore is called.
LEMMA CallKeeps ==
    ASSUME IInv, NEW c \in Sessions, NEW path \in Paths, NEW open \in BOOLEAN,
           Call(c, path, open)
    PROVE  IInv'
<1> DEFINE y == [pc |-> "search", path |-> path, open |-> open,
                 ref |-> NoId, id |-> NoId, made |-> FALSE]
<1>1. y \in SessionType /\ y.pc = "search"
  BY DEF SessionType
<1>2. ses' = [ses EXCEPT ![c] = y] /\ UNCHANGED <<refs, nextId, clock>>
  BY DEF Call
<1> HIDE DEF y
<1> QED
  BY <1>1, <1>2, SessionMoves

\* The reference turns out to be invalid, and the session searches again.
LEMMA RetryKeeps ==
    ASSUME IInv, NEW c \in Sessions, Retry(c) PROVE IInv'
<1> DEFINE y == With(ses[c], "search", NoId, NoId)
<1>1. ses[c] \in SessionType
  BY DEF IInv, TypeOK
<1>2. y \in SessionType /\ y.pc = "search"
  BY <1>1, SessionSearches
<1>3. ses' = [ses EXCEPT ![c] = y]
  BY DEF Retry, With
<1> HIDE DEF y
<1> QED
  BY <1>2, <1>3, SessionMoves DEF Retry

\* The search under _lock finds a reference of the path.
LEMMA SearchFoundKeeps ==
    ASSUME IInv, NEW c \in Sessions, SearchFound(c) PROVE IInv'
<1> DEFINE r == Match(ses[c].path)
           y == With(ses[c], "ref", r, NoId)
<1>1. TypeOK /\ ses[c] \in SessionType /\ nextId \in 1..(MaxStores + 1)
  BY DEF IInv, TypeOK
<1>2. r \in Refs /\ refs[r].path = ses[c].path
  BY <1>1, Matched DEF SearchFound
<1>3. r \in Ids
  BY <1>1, <1>2, ManagerAssumption DEF Refs, Ids
<1>4. /\ y \in SessionType /\ y.pc = "ref" /\ y.ref = r /\ y.id = NoId
      /\ y.path = ses[c].path
  <2> HIDE DEF r
  <2> QED
    BY <1>1, <1>3, SessionSearches
<1>5. ses' = [ses EXCEPT ![c] = y]
  BY DEF SearchFound, With
<1>6. /\ ses' \in [Sessions -> SessionType] /\ ses'[c] = y
      /\ \A d \in Sessions : d # c => ses'[d] = ses[d]
  <2> HIDE DEF y
  <2> QED
    BY <1>1, <1>4, <1>5, SessionSet
<1>7. /\ refs' \in [Refs -> RefType] /\ nextId' = nextId /\ clock' = clock /\ Refs' = Refs
      /\ \A q \in Refs : Kept(refs[q], refs'[q])
  BY <1>1, SweptKeeps DEF SearchFound, Refs
<1> HIDE DEF r, y
<1>8. TypeOK'
  BY <1>1, <1>6, <1>7 DEF TypeOK
<1>9. MapInv' /\ PathInv' /\ IdInv'
  BY <1>7, KeptInv DEF IInv, MapInv, PathInv, IdInv, Invalid
<1>10. HeldInv'
  BY <1>2, <1>4, <1>6, <1>7, KeptInv DEF IInv, HeldInv
<1>11. AttachedStoreLives'
  BY <1>4, <1>6, <1>7, KeptInv DEF IInv, HeldInv, AttachedStoreLives
<1> QED
  BY <1>8, <1>9, <1>10, <1>11 DEF IInv

\* What is left of the references of the path when a new one is inserted
LEMMA Freed ==
    ASSUME IInv, NEW c \in Sessions, SearchNew(c)
    PROVE  LET r     == Match(ses[c].path)
               swept == Swept(ses[c].path)
               freed == IF r = NoId THEN swept ELSE ReleaseStore(swept, r)
           IN  /\ freed \in [Refs -> RefType]
               /\ \A q \in Refs : Kept(refs[q], freed[q])
               /\ \A q \in Refs : freed[q].inMap /\ ~Invalid(q) =>
                                     refs[q].path # ses[c].path
<1> DEFINE r     == Match(ses[c].path)
           swept == Swept(ses[c].path)
<1>1. TypeOK /\ nextId \in Nat
  BY DEF IInv, TypeOK
<1>2. /\ swept \in [Refs -> RefType]
      /\ \A q \in Refs : Kept(refs[q], swept[q])
      /\ \A q \in Refs : ~Invalid(q) => swept[q] = refs[q]
  BY <1>1, SweptKeeps
<1>3. CASE r = NoId
  <2>1. \A q \in Refs : refs[q].inMap /\ ~Invalid(q) => refs[q].path # ses[c].path
    BY <1>1, <1>3, Unmatched
  <2> HIDE DEF r, swept
  <2>2. \A q \in Refs : swept[q].inMap /\ ~Invalid(q) => refs[q].path # ses[c].path
    BY <1>2, <2>1
  <2> QED
    BY <1>2, <1>3, <2>2 DEF r, swept
<1>4. CASE r # NoId
  <2>1. r \in Refs /\ refs[r].inMap /\ ~Invalid(r) /\ refs[r].path = ses[c].path
    BY <1>1, <1>4, Matched
  <2>2. refs[r].dormant
    BY <1>4 DEF SearchNew
  <2> DEFINE freed == ReleaseStore(swept, r)
  <2> HIDE DEF r, swept
  <2>3. swept[r] = refs[r]
    BY <1>2, <2>1
  <2>4. /\ freed \in [Refs -> RefType] /\ ~freed[r].inMap
        /\ \A q \in Refs : Kept(swept[q], freed[q])
    <3>1. nextId - 1 \in Nat /\ Refs = 1..(nextId - 1)
      BY <1>1 DEF IInv, TypeOK, Refs
    <3> QED
      BY <1>2, <2>1, <2>2, <2>3, <3>1, Released
  <2>5. \A q \in Refs : Kept(refs[q], freed[q])
    BY <1>2, <2>4 DEF Kept
  <2>6. ASSUME NEW q \in Refs, freed[q].inMap, ~Invalid(q)
        PROVE  refs[q].path # ses[c].path
    <3>1. q # r
      BY <2>4, <2>6
    <3>2. refs[q].inMap
      BY <1>2, <2>4, <2>6 DEF Kept
    <3> QED
      BY <2>1, <2>6, <3>1, <3>2 DEF IInv, PathInv
  <2> HIDE DEF freed
  <2> QED
    BY <1>4, <2>4, <2>5, <2>6 DEF freed, r, swept
<1> QED
  BY <1>3, <1>4

\* The search finds none and inserts a new one.
LEMMA SearchNewKeeps ==
    ASSUME IInv, PersistentCache > 0, NEW c \in Sessions, SearchNew(c) PROVE IInv'
<1> DEFINE r     == Match(ses[c].path)
           swept == Swept(ses[c].path)
           freed == IF r = NoId THEN swept ELSE ReleaseStore(swept, r)
           base  == [i \in 1..nextId |-> IF i = nextId THEN NewRef(ses[c].path) ELSE freed[i]]
           y     == With(ses[c], "ref", nextId, nextId)
<1>1. /\ nextId \in Ids /\ nextId \in Nat /\ nextId >= 1 /\ ses[c] \in SessionType
      /\ Refs = 1..(nextId - 1) /\ clock' = clock
  BY ManagerAssumption DEF IInv, TypeOK, SearchNew, Ids, Refs
<1>2. /\ y \in SessionType /\ y.pc = "ref" /\ y.ref = nextId /\ y.id = nextId
      /\ y.path = ses[c].path /\ y.path \in Paths
  <2>1. ses[c].path \in Paths
    BY <1>1 DEF SessionType
  <2> QED
    BY <1>1, <2>1, SessionSearches
<1>3. ses' = [ses EXCEPT ![c] = y]
  BY DEF SearchNew, With
<1>4. /\ ses' \in [Sessions -> SessionType] /\ ses'[c] = y
      /\ \A d \in Sessions : d # c => ses'[d] = ses[d]
  <2> HIDE DEF y
  <2> QED
    BY <1>2, <1>3, SessionSet DEF IInv
<1>5. /\ freed \in [Refs -> RefType]
      /\ \A q \in Refs : Kept(refs[q], freed[q])
      /\ \A q \in Refs : freed[q].inMap /\ ~Invalid(q) => refs[q].path # ses[c].path
  BY Freed
<1> DEFINE new == NewRef(ses[c].path)
<1>6. /\ new \in RefType /\ new.path = y.path /\ new.inMap /\ ~new.dormant
      /\ new.store = NoStore
  BY <1>1, <1>2, ManagerAssumption DEF NewRef, RefType, NoTime
<1>7. refs' = EvictStore(base) /\ nextId' = nextId + 1 /\ Refs' = 1..nextId
  BY <1>1 DEF SearchNew, Refs
<1> HIDE DEF new, freed, y, r, swept
<1>8. /\ base \in [1..nextId -> RefType] /\ base[nextId] = new
      /\ \A q \in Refs : base[q] = freed[q]
  <2>1. /\ nextId \in 1..nextId
        /\ \A q \in 1..nextId : q # nextId => q \in Refs
        /\ \A q \in Refs : q \in 1..nextId /\ q # nextId
    BY <1>1
  <2>2. \A q \in 1..nextId : base[q] = IF q = nextId THEN new ELSE freed[q]
    BY DEF new
  <2> QED
    BY <1>5, <1>6, <2>1, <2>2
<1>9. /\ refs' \in [1..nextId -> RefType]
      /\ \A q \in 1..nextId : Kept(base[q], refs'[q])
  <2> HIDE DEF base
  <2> QED
    BY <1>1, <1>7, <1>8, Evicted
<1> HIDE DEF base
<1>10. refs'[nextId] = new /\ \A q \in Refs : Kept(refs[q], refs'[q])
  <2>1. nextId \in 1..nextId /\ \A q \in Refs : q \in 1..nextId
    BY <1>1
  <2> QED
    BY <1>5, <1>6, <1>8, <1>9, <2>1 DEF Kept
<1>11. \A q \in Refs : refs'[q].inMap /\ ~Invalid(q) => refs'[q].path # y.path
  <2>1. \A q \in Refs : refs'[q].inMap => freed[q].inMap
    BY <1>1, <1>8, <1>9 DEF Kept
  <2> QED
    BY <1>2, <1>5, <1>10, <2>1 DEF Kept
<1>12. \A q \in 1..nextId : q \in Refs \/ q = nextId
  BY <1>1
<1>13. TypeOK'
  <2>1. nextId' \in 1..(MaxStores + 1)
    BY <1>1, <1>7, ManagerAssumption DEF Ids
  <2> QED
    BY <1>1, <1>4, <1>7, <1>9, <2>1 DEF IInv, TypeOK
<1>14. MapInv'
  BY <1>6, <1>7, <1>10, <1>12, KeptInv DEF MapInv, Invalid
<1>15. PathInv'
  <2>1. ASSUME NEW p \in Refs, NEW q \in Refs, p # q, refs'[p].inMap, refs'[q].inMap,
               ~Invalid(p)', ~Invalid(q)'
        PROVE  refs'[p].path # refs'[q].path
    BY <1>10, <2>1, KeptInv DEF IInv, PathInv, Invalid
  <2>2. ASSUME NEW q \in Refs, refs'[q].inMap, ~Invalid(q)'
        PROVE  refs'[q].path # refs'[nextId].path
    BY <1>6, <1>10, <1>11, <2>2, KeptInv DEF Invalid
  <2> QED
    BY <1>7, <1>12, <2>1, <2>2 DEF PathInv
<1>16. IdInv'
  BY <1>6, <1>7, <1>10, <1>12, KeptInv DEF IdInv
<1>17. HeldInv'
  <2>1. nextId \in 1..nextId /\ \A q \in Refs : q \in 1..nextId
    BY <1>1
  <2> QED
    BY <1>2, <1>4, <1>6, <1>7, <1>10, <2>1, KeptInv DEF IInv, HeldInv
<1>18. AttachedStoreLives'
  BY <1>2, <1>4, <1>10, KeptInv DEF IInv, HeldInv, AttachedStoreLives
<1> QED
  BY <1>13, <1>14, <1>15, <1>16, <1>17, <1>18 DEF IInv

\* A session attaches to the store of its reference.
LEMMA AttachKeeps ==
    ASSUME IInv, NEW c \in Sessions, ses[c].pc = "ref", NEW ref \in RefType,
           NEW made \in BOOLEAN, Attach(c, ses[c].ref, ref, made),
           ref.path = refs[ses[c].ref].path, ref.users = refs[ses[c].ref].users,
           ref.inMap, ref.store \in {NoId, ses[c].ref}, ~ref.dormant,
           refs[ses[c].ref].inMap, ~Invalid(ses[c].ref),
           UNCHANGED <<nextId, clock>>
    PROVE  IInv'
<1> DEFINE r == ses[c].ref
           x == [ref EXCEPT !.users = ref.users \cup {c}]
           y == [ses[c] EXCEPT !.pc = "attached", !.made = made]
<1>1. /\ ses[c] \in SessionType /\ Refs' = Refs
      /\ r \in Refs /\ refs[r].path = ses[c].path /\ ses[c].id \in {NoId, r}
  BY DEF IInv, TypeOK, HeldInv, Refs
<1>2. r # NoStore /\ NoId # NoStore
  BY <1>1 DEF IInv, TypeOK, Refs, NoStore, NoId
<1>3. /\ x \in RefType /\ x.path = ref.path /\ x.inMap /\ ~x.dormant
      /\ x.store = ref.store /\ x.users = ref.users \cup {c}
  BY DEF RefType
<1>4. /\ y \in SessionType /\ y.pc = "attached" /\ y.ref = r /\ y.id = ses[c].id
      /\ y.path = ses[c].path
  BY <1>1, SessionAttaches
<1>5. refs' = [refs EXCEPT ![r] = x] /\ ses' = [ses EXCEPT ![c] = y]
  BY DEF Attach
<1> HIDE DEF x, y, r
<1>6. /\ ses' \in [Sessions -> SessionType] /\ ses'[c] = y
      /\ \A d \in Sessions : d # c => ses'[d] = ses[d]
  BY <1>4, <1>5, SessionSet DEF IInv
<1>7. /\ refs' \in [Refs -> RefType] /\ refs'[r] = x
      /\ \A q \in Refs : q # r => refs'[q] = refs[q]
  BY <1>1, <1>3, <1>5 DEF IInv, TypeOK
<1>8. TypeOK'
  BY <1>1, <1>6, <1>7 DEF IInv, TypeOK
<1>9. MapInv'
  BY <1>1, <1>3, <1>7 DEF IInv, MapInv, Invalid
<1>10. PathInv'
  <2>1. refs'[r].path = refs[r].path /\ refs[r].inMap /\ ~Invalid(r)
    BY <1>3, <1>7 DEF r
  <2>2. \A q \in Refs : refs'[q].path = refs[q].path
    BY <1>7, <2>1
  <2>3. \A q \in Refs : refs'[q].inMap /\ ~Invalid(q)' => refs[q].inMap /\ ~Invalid(q)
    BY <1>7, <2>1 DEF Invalid
  <2> QED
    BY <1>1, <2>2, <2>3 DEF IInv, PathInv
<1>11. IdInv'
  BY <1>1, <1>3, <1>7 DEF IInv, IdInv, r
<1>12. \A q \in Refs : refs'[q].path = refs[q].path
  BY <1>3, <1>7 DEF r
<1>13. HeldInv'
  BY <1>1, <1>4, <1>6, <1>12 DEF IInv, HeldInv
<1>14. ASSUME NEW d \in Sessions, ses'[d].pc = "attached"
       PROVE  LET q == ses'[d].ref
              IN  /\ refs'[q].store # NoStore /\ refs'[q].inMap /\ ~refs'[q].dormant
                  /\ d \in refs'[q].users
                  /\ refs'[q].path = ses'[d].path
  <2>1. CASE d = c
    BY <1>1, <1>2, <1>3, <1>4, <1>6, <1>7, <2>1 DEF r
  <2>2. CASE d # c /\ ses[d].ref = r
    <3>1. d \in refs[r].users /\ refs[r].path = ses[d].path
      BY <1>6, <1>14, <2>2 DEF IInv, AttachedStoreLives
    <3> QED
      BY <1>2, <1>3, <1>6, <1>7, <2>2, <3>1 DEF r
  <2>3. CASE d # c /\ ses[d].ref # r
    BY <1>6, <1>7, <1>14, <2>3 DEF IInv, HeldInv, AttachedStoreLives
  <2> QED
    BY <2>1, <2>2, <2>3
<1>15. AttachedStoreLives'
  BY <1>14 DEF AttachedStoreLives
<1> QED
  BY <1>8, <1>9, <1>10, <1>11, <1>13, <1>15 DEF IInv

\* The reference of a session that is about to use it
LEMMA Held ==
    ASSUME IInv, NEW c \in Sessions, ses[c].pc = "ref"
    PROVE  /\ ses[c].ref \in Refs /\ refs[ses[c].ref] \in RefType
           /\ ses[c].id \in {NoId, ses[c].ref} /\ ses[c].id \in Ids \cup {NoId}
           /\ ses[c] \in SessionType
           /\ ~Invalid(ses[c].ref) => refs[ses[c].ref].inMap
<1>1. ses[c] \in SessionType
  BY DEF IInv, TypeOK
<1>2. ses[c].id \in Ids \cup {NoId}
  BY <1>1 DEF SessionType
<1> QED
  BY <1>1, <1>2 DEF IInv, TypeOK, HeldInv, MapInv

\* The store is created or opened under the lock of its reference.
LEMMA CreateStoreKeeps ==
    ASSUME IInv, NEW c \in Sessions, CreateStore(c) PROVE IInv'
<1> DEFINE ref == [refs[ses[c].ref] EXCEPT !.store = ses[c].id]
<1>1. /\ ses[c].pc = "ref" /\ ~refs[ses[c].ref].dormant /\ UNCHANGED <<nextId, clock>>
      /\ Attach(c, ses[c].ref, ref, ~ses[c].open)
  BY DEF CreateStore
<1>2. /\ refs[ses[c].ref] \in RefType /\ ~Invalid(ses[c].ref) /\ refs[ses[c].ref].inMap
      /\ ses[c].id \in Ids \cup {NoId} /\ ses[c].id \in {NoId, ses[c].ref}
  BY <1>1, Held DEF Invalid
<1>3. /\ ref \in RefType /\ ref.store = ses[c].id /\ ref.path = refs[ses[c].ref].path
      /\ ref.users = refs[ses[c].ref].users /\ ref.inMap /\ ~ref.dormant
  BY <1>1, <1>2 DEF RefType
<1>4. (~ses[c].open) \in BOOLEAN
  OBVIOUS
<1> HIDE DEF ref
<1> QED
  BY <1>1, <1>2, <1>3, <1>4, AttachKeeps

\* A dormant store is attached to again.
LEMMA WakeKeeps ==
    ASSUME IInv, NEW c \in Sessions, Wake(c) PROVE IInv'
<1> DEFINE ref == [refs[ses[c].ref] EXCEPT !.dormant = FALSE]
<1>1. /\ ses[c].pc = "ref" /\ refs[ses[c].ref].store # NoStore
      /\ UNCHANGED <<nextId, clock>>
      /\ Attach(c, ses[c].ref, ref, FALSE)
  BY DEF Wake
<1>2. /\ refs[ses[c].ref] \in RefType /\ ~Invalid(ses[c].ref) /\ refs[ses[c].ref].inMap
      /\ refs[ses[c].ref].store \in {NoId, ses[c].ref}
  BY <1>1, Held DEF Invalid, IInv, IdInv
<1>3. /\ ref \in RefType /\ ref.store = refs[ses[c].ref].store
      /\ ref.path = refs[ses[c].ref].path
      /\ ref.users = refs[ses[c].ref].users /\ ref.inMap /\ ~ref.dormant
  BY <1>1, <1>2 DEF RefType
<1> HIDE DEF ref
<1> QED
  BY <1>1, <1>2, <1>3, AttachKeeps

\* The call throws; the reference may become invalid.
LEMMA FailKeeps ==
    ASSUME IInv, NEW c \in Sessions, ses[c].pc = "ref", Fail(c),
           UNCHANGED <<nextId, clock>>,
           \/ UNCHANGED refs
           \/ /\ refs[ses[c].ref].store = NoStore
              /\ refs' = [refs EXCEPT ![ses[c].ref].dormant = TRUE]
    PROVE  IInv'
<1> DEFINE r == ses[c].ref
           x == [refs[r] EXCEPT !.dormant = TRUE]
           y == With(ses[c], "idle", NoId, NoId)
<1>1. ses[c] \in SessionType /\ r \in Refs /\ refs[r] \in RefType
  BY Held
<1>2. y \in SessionType /\ y.pc = "idle"
  BY <1>1, SessionSearches
<1>3. ses' = [ses EXCEPT ![c] = y]
  BY DEF Fail, With
<1>4. CASE UNCHANGED refs
  <2> HIDE DEF y
  <2> QED
    BY <1>2, <1>3, <1>4, SessionMoves
<1>5. CASE /\ refs[r].store = NoStore
           /\ refs' = [refs EXCEPT ![r].dormant = TRUE]
  <2>1. /\ ses' \in [Sessions -> SessionType] /\ ses'[c] = y
        /\ \A d \in Sessions : d # c => ses'[d] = ses[d]
    <3> HIDE DEF y
    <3> QED
      BY <1>2, <1>3, SessionSet DEF IInv
  <2>2. /\ x \in RefType /\ x.path = refs[r].path /\ x.store = NoStore /\ x.dormant
    BY <1>1, <1>5 DEF RefType
  <2>3. refs' = [refs EXCEPT ![r] = x]
    BY <1>5
  <2> HIDE DEF x, y, r
  <2>4. /\ refs' \in [Refs -> RefType] /\ refs'[r] = x /\ Refs' = Refs
        /\ \A q \in Refs : q # r => refs'[q] = refs[q]
    BY <1>1, <2>2, <2>3 DEF IInv, TypeOK, Refs
  <2>5. TypeOK'
    BY <2>1, <2>4 DEF IInv, TypeOK
  <2>6. MapInv' /\ PathInv' /\ IdInv'
    BY <1>1, <2>2, <2>4 DEF IInv, MapInv, PathInv, IdInv, Invalid
  <2>7. HeldInv'
    BY <1>1, <1>2, <2>1, <2>2, <2>4 DEF IInv, HeldInv
  <2>8. AttachedStoreLives'
    BY <1>1, <1>2, <1>5, <2>1, <2>4 DEF IInv, HeldInv, AttachedStoreLives
  <2> QED
    BY <2>5, <2>6, <2>7, <2>8 DEF IInv
<1> QED
  BY <1>4, <1>5

\* An open store is attached to.
LEMMA JoinKeeps ==
    ASSUME IInv, NEW c \in Sessions, Join(c) PROVE IInv'
<1>1. /\ ses[c].pc = "ref" /\ refs[ses[c].ref].store # NoStore
      /\ ~refs[ses[c].ref].dormant /\ UNCHANGED <<nextId, clock>>
  BY DEF Join
<1>2. /\ refs[ses[c].ref] \in RefType /\ ~Invalid(ses[c].ref) /\ refs[ses[c].ref].inMap
      /\ refs[ses[c].ref].store \in {NoId, ses[c].ref}
  BY <1>1, Held DEF Invalid, IInv, IdInv
<1>3. CASE Attach(c, ses[c].ref, refs[ses[c].ref], FALSE)
  BY <1>1, <1>2, <1>3, AttachKeeps
<1>4. CASE Fail(c) /\ UNCHANGED refs
  BY <1>1, <1>4, FailKeeps
<1> QED
  BY <1>3, <1>4 DEF Join

\* A session leaves; the store may become dormant if no other one is attached.
LEMMA CloseStoreKeeps ==
    ASSUME IInv, PersistentCache > 0, NEW c \in Sessions, CloseStore(c) PROVE IInv'
<1> DEFINE r == ses[c].ref
           a == [refs[r] EXCEPT !.users = @ \ {c}]
           left == [refs EXCEPT ![r].users = @ \ {c}]
           b == [a EXCEPT !.dormant = TRUE]
           d == [b EXCEPT !.time = clock]
           y == [With(ses[c], "idle", NoId, NoId) EXCEPT !.made = FALSE]
<1>1. /\ ses[c] \in SessionType /\ ses[c].pc = "attached" /\ r \in Refs
      /\ refs[r] \in RefType /\ refs[r].store = r /\ refs[r].inMap
      /\ Refs' = Refs /\ nextId' = nextId
  BY DEF IInv, TypeOK, HeldInv, IdInv, AttachedStoreLives, CloseStore, Refs
<1>2. y \in SessionType /\ y.pc = "idle"
  BY <1>1, SessionLeaves
<1>3. ses' = [ses EXCEPT ![c] = y]
  BY DEF CloseStore, With
<1>4. /\ ses' \in [Sessions -> SessionType] /\ ses'[c] = y
      /\ \A e \in Sessions : e # c => ses'[e] = ses[e]
  <2> HIDE DEF y
  <2> QED
    BY <1>2, <1>3, SessionSet DEF IInv
<1>5. /\ a \in RefType /\ a.path = refs[r].path /\ a.store = refs[r].store
      /\ a.inMap = refs[r].inMap /\ a.dormant = refs[r].dormant
      /\ a.users = refs[r].users \ {c}
  BY <1>1 DEF RefType
<1>6. left = [refs EXCEPT ![r] = a]
  OBVIOUS
<1>7. /\ clock \in 0..MaxClock /\ clock' \in 0..MaxClock
      /\ \/ refs' = left
         \/ /\ left[r].users = {}
            /\ refs' = [left EXCEPT ![r].dormant = TRUE, ![r].time = clock]
  <2>1. PersistentCache # 0 /\ clock \in 0..MaxClock
    BY DEF IInv, TypeOK
  <2> QED
    BY <1>1, <2>1, ManagerAssumption DEF CloseStore
<1> HIDE DEF y
<1>8. left \in [Refs -> RefType] /\ left[r] = a /\ \A q \in Refs : q # r => left[q] = refs[q]
  <2> HIDE DEF left, a, r
  <2> QED
    BY <1>1, <1>5, <1>6 DEF IInv, TypeOK
<1>9. /\ b \in RefType /\ b.path = a.path /\ b.store = a.store /\ b.inMap = a.inMap
      /\ b.users = a.users
  <2> HIDE DEF a
  <2> QED
    BY <1>5 DEF RefType
<1>10. /\ d \in RefType /\ d.path = a.path /\ d.store = a.store /\ d.inMap = a.inMap
       /\ d.users = a.users
  <2>1. clock \in 0..NoTime
    BY <1>7, ManagerAssumption DEF NoTime
  <2> HIDE DEF b
  <2> QED
    BY <1>9, <2>1 DEF RefType
<1>11. [left EXCEPT ![r].dormant = TRUE, ![r].time = clock] = [left EXCEPT ![r] = d]
  <2>1. left[r] = a
    BY <1>8
  <2> HIDE DEF left, a
  <2> QED
    BY <1>1, <1>8, <2>1
<1> HIDE DEF left, a, b, d, r
<1>12. \E x \in RefType :
         /\ refs' \in [Refs -> RefType] /\ refs'[r] = x
         /\ \A q \in Refs : q # r => refs'[q] = refs[q]
         /\ x.path = refs[r].path /\ x.store = r /\ x.inMap
         /\ x.users = refs[r].users \ {c}
         /\ x.dormant = refs[r].dormant \/ x.users = {}
  <2>1. CASE refs' = left
    BY <1>1, <1>5, <1>8, <2>1
  <2>2. CASE left[r].users = {} /\ refs' = [left EXCEPT ![r] = d]
    BY <1>1, <1>5, <1>8, <1>10, <2>2
  <2> QED
    BY <1>7, <1>11, <2>1, <2>2
<1>13. r # NoStore
  BY <1>1 DEF IInv, TypeOK, Refs, NoStore
<1>14. TypeOK'
  BY <1>1, <1>4, <1>7, <1>12 DEF IInv, TypeOK
<1>15. MapInv' /\ PathInv' /\ IdInv'
  BY <1>1, <1>12, <1>13 DEF IInv, MapInv, PathInv, IdInv, Invalid
<1>16. HeldInv'
  BY <1>1, <1>2, <1>4, <1>12 DEF IInv, HeldInv
<1>17. AttachedStoreLives'
  BY <1>1, <1>2, <1>4, <1>12, <1>13 DEF IInv, HeldInv, AttachedStoreLives
<1> QED
  BY <1>14, <1>15, <1>16, <1>17 DEF IInv

-----------------------------------------------------------------------------
\* The inductive invariant of the manager, for a cache of any size but zero.
THEOREM Inductive == ASSUME PersistentCache > 0 PROVE Spec => []IInv
<1>1. Init => IInv
  <2> SUFFICES ASSUME Init PROVE IInv
    OBVIOUS
  <2>1. Refs = {} /\ refs \in [Refs -> RefType]
    BY DEF Init, Refs
  <2>2. nextId \in 1..(MaxStores + 1) /\ clock \in 0..MaxClock
    BY ManagerAssumption DEF Init
  <2>3. ses \in [Sessions -> SessionType] /\ \A c \in Sessions : ses[c].pc = "idle"
    <3>1. (CHOOSE p \in Paths : TRUE) \in Paths
      BY ManagerAssumption
    <3> QED
      BY <3>1 DEF Init, SessionType
  <2>4. TypeOK
    BY <2>1, <2>2, <2>3 DEF TypeOK
  <2> QED
    BY <2>1, <2>3, <2>4 DEF IInv, MapInv, PathInv, IdInv, HeldInv, AttachedStoreLives
<1>2. IInv /\ [Next]_vars => IInv'
  <2>1. ASSUME IInv, UNCHANGED vars PROVE IInv'
    <3>1. TypeOK'
      BY <2>1 DEF vars, IInv, TypeOK, Refs
    <3>2. MapInv' /\ PathInv' /\ IdInv' /\ HeldInv' /\ AttachedStoreLives'
      BY <2>1 DEF vars, IInv, MapInv, PathInv, IdInv, HeldInv,
                  AttachedStoreLives, Invalid, Refs
    <3> QED
      BY <3>1, <3>2 DEF IInv
  <2>2. ASSUME IInv, NEW c \in Sessions, CreateFails(c) PROVE IInv'
    BY <2>2, FailKeeps DEF CreateFails
  <2> QED
    BY <2>1, <2>2, CallKeeps, SearchFoundKeeps, SearchNewKeeps, CreateStoreKeeps,
       RetryKeeps, WakeKeeps, JoinKeeps, CloseStoreKeeps DEF Next
<1> QED
  BY <1>1, <1>2, PTL DEF Spec

\* OneStorePerPath: with a cache for dormant stores, createStore, openStore
\* and closeStore never make two store objects for one file, whatever the
\* threads do between the two sections of _createOrOpenStore.
THEOREM OneStore == ASSUME PersistentCache > 0 PROVE Spec => []OneStorePerPath
<1>1. IInv => OneStorePerPath
  BY DEF IInv, MapInv, PathInv, OneStorePerPath, Invalid
<1> QED
  BY <1>1, Inductive, PTL

\* AttachedStoreLives: no eviction, no overwriting and no failed call takes a
\* store away from a session that is attached to it.
THEOREM AttachedLives == ASSUME PersistentCache > 0 PROVE Spec => []AttachedStoreLives
<1>1. IInv => AttachedStoreLives
  BY DEF IInv
<1> QED
  BY <1>1, Inductive, PTL

=============================================================================
