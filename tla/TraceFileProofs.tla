-------------------------- MODULE TraceFileProofs ---------------------------
(***************************************************************************)
(* What a trace file keeps, for any number of threads, streams, segments   *)
(* and directories.                                                        *)
(*                                                                         *)
(* The argument: a frame is complete before it gets an entry, entries are  *)
(* only added behind all others, and only to a directory that the links of *)
(* all earlier ones lead to.                                               *)
(***************************************************************************)
EXTENDS TraceFile, FiniteSetTheorems, TLAPS

\* A store that threads commit to, or may begin to commit to
Writing == (mode = "open" /\ ~readMode) \/ \E t \in Threads : pc[t] # "idle"

\* From the reservation of a directory to its mapping
Adding == {"table", "marker", "link", "map"}

\* The thread has space for its frame.
Placed(t) == pc[t] \notin {"idle", "reserve"}

Linked(d) == \A e \in 1..(d - 1) : dirs[e].link = "next"

LockInv ==
    /\ \A t \in Threads : pc[t] \in Locked => holder = {t}
    /\ \A t \in Threads : pc[t] # "idle" => mode = "open"
    /\ mode \in {"absent", "created"} => dirs = <<>> /\ mapped = 0

\* Space belongs to one thread until the frame is committed, and the frame is
\* complete when the thread waits for the lock.
WorkInv ==
    /\ \A t \in Threads : pc[t] = "reserve" => \E f \in Frames : work[t] = {f}
    /\ \A t \in Threads : Placed(t) =>
         /\ offset[t] \in 1..Len(frames)
         /\ work[t] = {frames[offset[t]].frame}
         /\ frames[offset[t]].written = IF pc[t] = "header" THEN "none"
                                        ELSE IF pc[t] = "data" THEN "header" ELSE "all"
    /\ \A t, u \in Threads : Placed(t) /\ Placed(u) /\ t # u => offset[t] # offset[u]

\* The current directory is the last one and can be reached, except while the
\* next one is added.
DirInv ==
    /\ \A d \in 1..Len(dirs) :
         dirs[d].entries # <<>> => Linked(d) /\ header.directoryCount > 0
    /\ Writing /\ (\A t \in Threads : pc[t] \notin Adding) =>
         /\ mapped = Len(dirs) /\ Linked(Len(dirs))
         /\ Len(dirs) > 0 => header.directoryCount > 0
    /\ \A t \in Threads :
         /\ pc[t] \in Adding =>
              Len(dirs) > 0 /\ mapped = Len(dirs) - 1 /\ dirs[Len(dirs)].entries = <<>>
         /\ pc[t] \in {"marker", "link", "map"} => header.directoryCount > 0
         /\ pc[t] \in {"table", "marker", "link"} => Linked(Len(dirs) - 1)
         /\ pc[t] = "map" => Linked(Len(dirs))
         /\ pc[t] = "entry" => mapped > 0 /\ Len(dirs[mapped].entries) < Capacity - 1
         /\ pc[t] \in {"offset", "account"} => mapped > 0 /\ dirs[mapped].entries # <<>>

\* The entry i of directory d has no offset, and nothing follows it.
Torn(d, i) ==
    /\ dirs[d].entries[i].offset = 0
    /\ i = Len(dirs[d].entries)
    /\ \A c \in 1..Len(dirs) : c > d => dirs[c].entries = <<>>

LastEntry == dirs[mapped].entries[Len(dirs[mapped].entries)]

EntryInv ==
    /\ \A d \in 1..Len(dirs) : \A i \in 1..Len(dirs[d].entries) :
         Readable(dirs[d].entries[i]) \/ Torn(d, i)
    /\ Writing /\ (\A t \in Threads : pc[t] # "offset") =>
         \A d \in 1..Len(dirs) : \A i \in 1..Len(dirs[d].entries) :
            Readable(dirs[d].entries[i])
    /\ \A t \in Threads : pc[t] \in {"offset", "account"} =>
         /\ LastEntry.frame = frames[offset[t]].frame
         /\ LastEntry.offset = IF pc[t] = "offset" THEN 0 ELSE offset[t]

ReturnInv ==
    \A e \in returned :
        /\ Readable(e)
        /\ \E d \in 1..Len(dirs) : \E i \in 1..Len(dirs[d].entries) : dirs[d].entries[i] = e

IInv == TypeOK /\ LockInv /\ WorkInv /\ DirInv /\ EntryInv /\ ReturnInv

-----------------------------------------------------------------------------
\* The counters and the flag of the header can be set one by one.
LEMMA HeaderFields ==
    ASSUME NEW h \in Header
    PROVE  /\ \A b \in BOOLEAN : [h EXCEPT !.dirty = b] \in Header
           /\ [h EXCEPT !.signed = TRUE] \in Header
           /\ [h EXCEPT !.frameCount = @ + 1] \in Header
           /\ \A b \in BOOLEAN :
                [h EXCEPT !.directoryCount = @ + 1, !.dirty = b] \in Header
<1>1. \A b \in BOOLEAN : [h EXCEPT !.dirty = b] \in Header
  BY DEF Header
<1>2. [h EXCEPT !.signed = TRUE] \in Header
  BY DEF Header
<1>3. [h EXCEPT !.frameCount = @ + 1] \in Header
  BY DEF Header
<1>4. ASSUME NEW b \in BOOLEAN
      PROVE  [h EXCEPT !.directoryCount = @ + 1, !.dirty = b] \in Header
  <2> DEFINE g == [h EXCEPT !.directoryCount = @ + 1]
  <2>1. g \in Header
    BY DEF Header
  <2>2. [h EXCEPT !.directoryCount = @ + 1, !.dirty = b] = [g EXCEPT !.dirty = b]
    OBVIOUS
  <2>3. [g EXCEPT !.dirty = b] \in Header
    <3> HIDE DEF g
    <3> QED
      BY <2>1 DEF Header
  <2> QED
    BY <2>2, <2>3
<1> QED
  BY <1>1, <1>2, <1>3, <1>4

\* The parts of a directory have their types.
LEMMA DirectoryParts ==
    ASSUME TypeOK
    PROVE  \A d \in 1..Len(dirs) : /\ dirs[d] \in Directory
                                   /\ dirs[d].entries \in Seq(Entry)
                                   /\ Len(dirs[d].entries) < Capacity
<1>1. \A d \in 1..Len(dirs) : dirs[d] \in Directory /\ Len(dirs[d].entries) < Capacity
  BY DEF TypeOK
<1> QED
  BY <1>1 DEF Directory

\* A directory whose entries or whose link change is a directory.
LEMMA DirectoryChanged ==
    ASSUME NEW d \in Directory, NEW es \in Seq(Entry)
    PROVE  LET new == [d EXCEPT !.entries = es]
           IN  new \in Directory /\ new.link = d.link /\ new.entries = es
BY DEF Directory

\* A step of a thread moves that thread alone.
LEMMA Moved ==
    ASSUME TypeOK, NEW t \in Threads, NEW s \in Steps, Goto(t, s)
    PROVE  /\ pc' \in [Threads -> Steps]
           /\ pc'[t] = s
           /\ \A u \in Threads : u # t => pc'[u] = pc[u]
BY DEF TypeOK, Goto

\* The thread that has the lock is the only one.
LEMMA Alone ==
    ASSUME LockInv, NEW t \in Threads, pc[t] \in Locked
    PROVE  \A u \in Threads : u # t => pc[u] \notin Locked
BY DEF LockInv

\* A directory whose last entry is not used for a link is changed in place.
LEMMA Replaced ==
    ASSUME dirs \in Seq(Directory), NEW m \in 1..Len(dirs), NEW new \in Directory,
           dirs' = [dirs EXCEPT ![m] = new]
    PROVE  /\ dirs' \in Seq(Directory)
           /\ Len(dirs') = Len(dirs)
           /\ dirs'[m] = new
           /\ \A d \in 1..Len(dirs) : d # m => dirs'[d] = dirs[d]
OBVIOUS

\* The link of the current directory is set.
LEMMA LinkSet ==
    ASSUME TypeOK, NEW l \in {"torn", "next"}, SetLink(l)
    PROVE  /\ dirs' \in Seq(Directory)
           /\ Len(dirs') = Len(dirs)
           /\ \A d \in 1..Len(dirs) : dirs'[d].entries = dirs[d].entries
           /\ \A d \in 1..Len(dirs) : d # mapped => dirs'[d].link = dirs[d].link
           /\ mapped # 0 => dirs'[mapped].link = l
<1>1. CASE mapped = 0
  BY <1>1 DEF TypeOK, SetLink
<1>2. CASE mapped # 0
  <2>1. mapped \in 1..Len(dirs) /\ dirs[mapped] \in Directory
    BY <1>2 DEF TypeOK
  <2> DEFINE new == [dirs[mapped] EXCEPT !.link = l]
  <2>2. new \in Directory /\ new.entries = dirs[mapped].entries /\ new.link = l
    BY <2>1 DEF Directory
  <2>3. dirs' = [dirs EXCEPT ![mapped] = new]
    BY <1>2 DEF SetLink
  <2> QED
    BY <2>1, <2>2, <2>3, Replaced DEF TypeOK
<1> QED
  BY <1>1, <1>2

\* The entry of a frame is added behind the others.
LEMMA EntryCopied ==
    ASSUME IInv, NEW t \in Threads, CopyHeader(t)
    PROVE  LET n == Len(dirs[mapped].entries) IN
           /\ mapped \in 1..Len(dirs) /\ n \in Nat /\ n < Capacity - 1
           /\ dirs' \in Seq(Directory)
           /\ Len(dirs') = Len(dirs)
           /\ \A d \in 1..Len(dirs) : d # mapped => dirs'[d] = dirs[d]
           /\ dirs'[mapped].link = dirs[mapped].link
           /\ Len(dirs'[mapped].entries) = n + 1
           /\ \A i \in 1..n : dirs'[mapped].entries[i] = dirs[mapped].entries[i]
           /\ dirs'[mapped].entries[n + 1].frame = frames[offset[t]].frame
           /\ dirs'[mapped].entries[n + 1].offset = 0
<1>1. mapped \in 1..Len(dirs) /\ Len(dirs[mapped].entries) < Capacity - 1
  BY DEF IInv, TypeOK, DirInv, CopyHeader
<1>2. dirs[mapped] \in Directory /\ dirs[mapped].entries \in Seq(Entry)
  BY <1>1, DirectoryParts DEF IInv
<1>3. offset[t] \in 1..Len(frames) /\ work[t] = {frames[offset[t]].frame}
  BY DEF IInv, WorkInv, Placed, CopyHeader
<1> DEFINE f == frames[offset[t]].frame
           e == [frame |-> f, offset |-> 0]
           new == [dirs[mapped] EXCEPT !.entries = Append(dirs[mapped].entries, e)]
<1>4. f \in Frames
  BY <1>3 DEF IInv, TypeOK
<1>5. e \in Entry /\ e.frame = f /\ e.offset = 0
  BY <1>4 DEF Entry
<1>6. dirs' = [dirs EXCEPT ![mapped] = new]
  BY <1>3 DEF CopyHeader
<1>7. new \in Directory /\ new.link = dirs[mapped].link
      /\ new.entries = Append(dirs[mapped].entries, e)
  <2> HIDE DEF e
  <2>1. Append(dirs[mapped].entries, e) \in Seq(Entry)
    BY <1>2, <1>5
  <2> QED
    BY <1>2, <2>1, DirectoryChanged
<1>8. /\ Len(new.entries) = Len(dirs[mapped].entries) + 1
      /\ \A i \in 1..Len(dirs[mapped].entries) : new.entries[i] = dirs[mapped].entries[i]
      /\ new.entries[Len(dirs[mapped].entries) + 1] = e
  BY <1>2, <1>5, <1>7
<1>9. Len(dirs[mapped].entries) \in Nat
  BY <1>2
<1>10. /\ dirs' \in Seq(Directory) /\ Len(dirs') = Len(dirs) /\ dirs'[mapped] = new
       /\ \A d \in 1..Len(dirs) : d # mapped => dirs'[d] = dirs[d]
  <2> HIDE DEF new
  <2> QED
    BY <1>1, <1>6, <1>7, Replaced DEF IInv, TypeOK
<1> HIDE DEF new, e
<1> QED
  BY <1>1, <1>5, <1>7, <1>8, <1>9, <1>10

\* The last entry of the current directory gets its offset.
LEMMA OffsetSet ==
    ASSUME IInv, NEW t \in Threads, SetOffset(t)
    PROVE  LET n == Len(dirs[mapped].entries) IN
           /\ mapped \in 1..Len(dirs) /\ n \in Nat \ {0}
           /\ dirs' \in Seq(Directory)
           /\ Len(dirs') = Len(dirs)
           /\ \A d \in 1..Len(dirs) : d # mapped => dirs'[d] = dirs[d]
           /\ dirs'[mapped].link = dirs[mapped].link
           /\ Len(dirs'[mapped].entries) = n
           /\ \A i \in 1..n : i # n => dirs'[mapped].entries[i] = dirs[mapped].entries[i]
           /\ dirs'[mapped].entries[n].frame = dirs[mapped].entries[n].frame
           /\ dirs'[mapped].entries[n].offset = offset[t]
<1>1. mapped \in 1..Len(dirs) /\ dirs[mapped].entries # <<>>
  BY DEF IInv, TypeOK, DirInv, SetOffset
<1>2. dirs[mapped] \in Directory /\ dirs[mapped].entries \in Seq(Entry)
  BY <1>1, DirectoryParts DEF IInv
<1> DEFINE n == Len(dirs[mapped].entries)
           e == [dirs[mapped].entries[n] EXCEPT !.offset = offset[t]]
           es == [dirs[mapped].entries EXCEPT ![n] = e]
           new == [dirs[mapped] EXCEPT !.entries = es]
<1>3. n \in Nat \ {0} /\ n \in 1..n
  BY <1>1, <1>2
<1>4. dirs[mapped].entries[n] \in Entry /\ offset[t] \in Nat
  BY <1>2, <1>3 DEF IInv, TypeOK
<1>5. e \in Entry /\ e.frame = dirs[mapped].entries[n].frame /\ e.offset = offset[t]
  BY <1>4 DEF Entry
<1>6. es \in Seq(Entry) /\ Len(es) = n /\ es[n] = e
      /\ \A i \in 1..n : i # n => es[i] = dirs[mapped].entries[i]
  <2> HIDE DEF e
  <2> QED
    BY <1>2, <1>3, <1>5
<1>7. dirs' = [dirs EXCEPT ![mapped] = new]
  BY DEF SetOffset
<1>8. new \in Directory /\ new.link = dirs[mapped].link /\ new.entries = es
  <2> HIDE DEF es
  <2> QED
    BY <1>2, <1>6 DEF Directory
<1>9. /\ dirs' \in Seq(Directory) /\ Len(dirs') = Len(dirs) /\ dirs'[mapped] = new
      /\ \A d \in 1..Len(dirs) : d # mapped => dirs'[d] = dirs[d]
  <2> HIDE DEF new
  <2> QED
    BY <1>1, <1>7, <1>8, Replaced DEF IInv, TypeOK
<1> HIDE DEF new, es, e
<1> QED
  BY <1>1, <1>3, <1>5, <1>6, <1>8, <1>9

\* A new directory is put behind the others.
LEMMA DirectoryAdded ==
    ASSUME TypeOK, NEW t \in Threads, ReserveDirectory(t)
    PROVE  /\ dirs' \in Seq(Directory)
           /\ Len(dirs') = Len(dirs) + 1 /\ Len(dirs) \in Nat
           /\ \A d \in 1..Len(dirs) : dirs'[d] = dirs[d]
           /\ dirs'[Len(dirs) + 1].entries = <<>>
<1> DEFINE new == [entries |-> <<>>, link |-> "none"]
<1>1. new \in Directory /\ new.entries = <<>>
  BY DEF Directory
<1>2. dirs' = Append(dirs, new)
  BY DEF ReserveDirectory
<1> HIDE DEF new
<1> QED
  BY <1>1, <1>2 DEF TypeOK

\* A frame that can be read stays as it is when space is reserved ...
LEMMA FrameAdded ==
    ASSUME IInv, NEW t \in Threads, Reserve(t)
    PROVE  /\ Len(frames') = Len(frames) + 1 /\ Len(frames) \in Nat
           /\ \A o \in 1..Len(frames) : frames'[o] = frames[o]
BY DEF IInv, TypeOK, WorkInv, Reserve

\* ... and when another frame is written.
LEMMA FrameWritten ==
    ASSUME IInv, NEW t \in Threads, WriteHeader(t) \/ WriteData(t)
    PROVE  /\ frames' \in Seq([frame : Frames, written : {"none", "header", "all"}])
           /\ Len(frames') = Len(frames)
           /\ \A o \in 1..Len(frames) :
                /\ frames'[o].frame = frames[o].frame
                /\ frames[o].written = "all" => frames'[o].written = "all"
<1>1. offset[t] \in 1..Len(frames) /\ frames[offset[t]].written # "all"
  BY DEF IInv, WorkInv, Placed, WriteHeader, WriteData
<1>2. ASSUME NEW w \in {"header", "all"},
             frames' = [frames EXCEPT ![offset[t]].written = w]
      PROVE  /\ frames' \in Seq([frame : Frames, written : {"none", "header", "all"}])
             /\ Len(frames') = Len(frames)
             /\ \A o \in 1..Len(frames) :
                  /\ frames'[o].frame = frames[o].frame
                  /\ frames[o].written = "all" => frames'[o].written = "all"
  <2>1. frames \in Seq([frame : Frames, written : {"none", "header", "all"}])
    BY DEF IInv, TypeOK
  <2> DEFINE new == [frames[offset[t]] EXCEPT !.written = w]
  <2>2. /\ new \in [frame : Frames, written : {"none", "header", "all"}]
        /\ new.frame = frames[offset[t]].frame /\ new.written = w
    <3> DEFINE S == [frame : Frames, written : {"none", "header", "all"}]
    <3>1. frames[offset[t]] \in S
      <4> HIDE DEF S
      <4>1. frames \in Seq(S)
        BY <2>1 DEF S
      <4> QED
        BY <1>1, <4>1
    <3> QED
      BY <3>1
  <2>3. frames' = [frames EXCEPT ![offset[t]] = new]
    BY <1>2
  <2> HIDE DEF new
  <2> QED
    BY <1>1, <2>1, <2>2, <2>3
<1> QED
  BY <1>2 DEF WriteHeader, WriteData

\* The entries stay as they were unless directories, offsets or the threads
\* at the entry change.
LEMMA EntriesStay ==
    ASSUME EntryInv, dirs' = dirs,
           \A e : Readable(e) => Readable(e)',
           Writing' /\ (\A u \in Threads : pc'[u] # "offset") =>
               Writing /\ (\A u \in Threads : pc[u] # "offset"),
           \A u \in Threads : pc'[u] \in {"offset", "account"} =>
               /\ pc'[u] = pc[u] /\ offset'[u] = offset[u] /\ mapped' = mapped
               /\ frames'[offset[u]].frame = frames[offset[u]].frame
    PROVE  EntryInv'
<1>1. ASSUME NEW d \in 1..Len(dirs), NEW i \in 1..Len(dirs[d].entries)
      PROVE  Torn(d, i) => Torn(d, i)'
  BY DEF Torn
<1>2. \A d \in 1..Len(dirs) : \A i \in 1..Len(dirs[d].entries) :
         Readable(dirs[d].entries[i])' \/ Torn(d, i)'
  BY <1>1 DEF EntryInv
<1>3. ASSUME Writing' /\ (\A u \in Threads : pc'[u] # "offset"),
             NEW d \in 1..Len(dirs), NEW i \in 1..Len(dirs[d].entries)
      PROVE  Readable(dirs[d].entries[i])'
  BY <1>3 DEF EntryInv
<1>4. ASSUME NEW u \in Threads, pc'[u] \in {"offset", "account"}
      PROVE  /\ LastEntry'.frame = frames'[offset'[u]].frame
             /\ LastEntry'.offset = IF pc'[u] = "offset" THEN 0 ELSE offset'[u]
  BY <1>4 DEF EntryInv, LastEntry
<1> QED
  BY <1>2, <1>3, <1>4 DEF EntryInv

-----------------------------------------------------------------------------
\* The file is created: nothing of it can be found yet.
LEMMA CreateFileKeeps ==
    ASSUME IInv, CreateFile PROVE IInv'
<1>1. TypeOK'
  BY DEF CreateFile, IInv, TypeOK
<1>2. LockInv'
  BY DEF CreateFile, IInv, LockInv
<1>3. WorkInv'
  BY DEF CreateFile, IInv, WorkInv, Placed
<1>4. DirInv'
  BY DEF CreateFile, IInv, DirInv, Writing, Linked
<1>5. EntryInv'
  BY DEF CreateFile, IInv, EntryInv, Torn, LastEntry, Writing, Readable
<1>6. ReturnInv'
  BY DEF CreateFile, IInv, ReturnInv, Readable
<1> QED
  BY <1>1, <1>2, <1>3, <1>4, <1>5, <1>6 DEF IInv

\* The flag in the header says nothing of the frames.
LEMMA InitializeHeaderKeeps ==
    ASSUME IInv, InitializeHeader PROVE IInv'
<1>1. TypeOK'
  BY DEF InitializeHeader, IInv, TypeOK, Header
<1>2. LockInv'
  BY DEF InitializeHeader, IInv, LockInv
<1>3. WorkInv'
  BY DEF InitializeHeader, IInv, WorkInv, Placed
<1>4. DirInv'
  BY DEF InitializeHeader, IInv, DirInv, Writing, Linked
<1>5. EntryInv'
  BY DEF InitializeHeader, IInv, EntryInv, Torn, LastEntry, Writing, Readable
<1>6. ReturnInv'
  BY DEF InitializeHeader, IInv, ReturnInv, Readable
<1> QED
  BY <1>1, <1>2, <1>3, <1>4, <1>5, <1>6 DEF IInv

\* The store is open for writing and has no directory.
LEMMA SignHeaderKeeps ==
    ASSUME IInv, SignHeader PROVE IInv'
<1>1. TypeOK'
  BY DEF SignHeader, IInv, TypeOK, Header
<1>2. LockInv'
  BY DEF SignHeader, IInv, LockInv
<1>3. WorkInv'
  BY DEF SignHeader, IInv, WorkInv, Placed
<1>4. DirInv'
  BY DEF SignHeader, IInv, DirInv, Linked, LockInv
<1>5. EntryInv'
  BY DEF SignHeader, IInv, EntryInv, LockInv
<1>6. ReturnInv'
  BY DEF SignHeader, IInv, ReturnInv, Readable
<1> QED
  BY <1>1, <1>2, <1>3, <1>4, <1>5, <1>6 DEF IInv

\* An opened store is read only and changes nothing in the file.
LEMMA OpenStoreKeeps ==
    ASSUME IInv, OpenStore PROVE IInv'
<1>1. TypeOK'
  <2>1. ASSUME NEW p \in Walked
        PROVE  EntryAt(p) \in Entry
    <3>1. /\ p[1] \in 1..Len(dirs) /\ p[2] \in 1..Capacity
          /\ p[2] <= Len(dirs[p[1]].entries)
      BY DEF Walked
    <3>2. dirs[p[1]].entries \in Seq(Entry)
      BY <3>1, DirectoryParts DEF IInv
    <3> QED
      BY <3>1, <3>2 DEF EntryAt
  <2>2. streams' \in SUBSET Streams
    BY <2>1 DEF OpenStore, Entry, Frames
  <2>3. view' \in SUBSET Entry
    BY <2>1 DEF OpenStore
  <2> QED
    BY <2>2, <2>3 DEF OpenStore, IInv, TypeOK, file
<1>2. LockInv'
  BY DEF OpenStore, IInv, LockInv
<1>3. WorkInv'
  BY DEF OpenStore, file, IInv, WorkInv, Placed
<1>4. DirInv'
  BY DEF OpenStore, file, IInv, DirInv, Writing, Adding, Linked, LockInv
<1>5. EntryInv'
  BY DEF OpenStore, file, IInv, EntryInv, Torn, Writing, Readable, LockInv
<1>6. ReturnInv'
  BY DEF OpenStore, file, IInv, ReturnInv, Readable
<1> QED
  BY <1>1, <1>2, <1>3, <1>4, <1>5, <1>6 DEF IInv

\* Nobody is inside of commitFrame, so no entry is torn.
LEMMA CloseStoreKeeps ==
    ASSUME IInv, CloseStore PROVE IInv'
<1>1. TypeOK'
  <2>1. header' \in Header
    BY HeaderFields DEF IInv, TypeOK, CloseStore, FinalizeHeader
  <2>2. mapped' \in 0..Len(dirs')
    BY DEF IInv, TypeOK, CloseStore
  <2>3. view' \in SUBSET Entry /\ streams' \in SUBSET Streams /\ readMode' \in BOOLEAN
    BY DEF CloseStore
  <2> QED
    BY <2>1, <2>2, <2>3 DEF CloseStore, IInv, TypeOK
<1>2. LockInv'
  BY DEF CloseStore, FinalizeHeader, IInv, LockInv
<1>3. WorkInv'
  BY DEF CloseStore, FinalizeHeader, WorkInv, Placed
<1>4. DirInv'
  BY DEF CloseStore, FinalizeHeader, IInv, DirInv, Writing, Adding, Linked
<1>5. EntryInv'
  BY DEF CloseStore, FinalizeHeader, IInv, EntryInv, Torn, Writing, Readable
<1>6. ReturnInv'
  BY DEF CloseStore, IInv, ReturnInv, Readable
<1> QED
  BY <1>1, <1>2, <1>3, <1>4, <1>5, <1>6 DEF IInv

\* What a thread had begun stays as it is: at most the last entry is torn.
LEMMA CrashKeeps ==
    ASSUME IInv, Crash PROVE IInv'
<1>1. TypeOK'
  <2>1. /\ pc' \in [Threads -> Steps] /\ work' \in [Threads -> SUBSET Frames]
        /\ offset' \in [Threads -> Nat]
    BY DEF Crash, Steps
  <2>2. crashed' \in BOOLEAN
    BY DEF IInv, TypeOK, Header, Crash
  <2>3. mapped' \in 0..Len(dirs')
    BY DEF IInv, TypeOK, Crash, file
  <2>4. /\ view' \in SUBSET Entry /\ streams' \in SUBSET Streams /\ readMode' \in BOOLEAN
        /\ holder' \in SUBSET Threads
    BY DEF Crash
  <2> QED
    BY <2>1, <2>2, <2>3, <2>4 DEF Crash, IInv, TypeOK, file
<1>2. LockInv'
  BY DEF Crash, LockInv, Locked
<1>3. WorkInv'
  BY DEF Crash, WorkInv, Placed
<1>4. DirInv'
  BY DEF Crash, file, IInv, DirInv, Writing, Adding, Linked
<1>5. EntryInv'
  BY DEF Crash, file, IInv, EntryInv, Torn, Writing, Readable
<1>6. ReturnInv'
  BY DEF Crash, file, IInv, ReturnInv, Readable
<1> QED
  BY <1>1, <1>2, <1>3, <1>4, <1>5, <1>6 DEF IInv

\* A call begins without space of its own.
LEMMA BeginKeeps ==
    ASSUME IInv, NEW t \in Threads, NEW f \in Frames, Begin(t, f) PROVE IInv'
<1>1. TypeOK'
  <2>1. header' \in Header
    BY HeaderFields DEF IInv, TypeOK, Begin, MarkDirty
  <2>2. pc' \in [Threads -> Steps]
    BY Moved DEF IInv, Begin, Steps
  <2>3. work' \in [Threads -> SUBSET Frames]
    BY DEF IInv, TypeOK, Begin
  <2> QED
    BY <2>1, <2>2, <2>3 DEF Begin, IInv, TypeOK
<1>2. LockInv'
  BY DEF Begin, Goto, IInv, LockInv, Locked
<1>3. WorkInv'
  BY DEF Begin, Goto, IInv, WorkInv, Placed, TypeOK
<1>4. DirInv'
  BY DEF Begin, MarkDirty, Goto, IInv, DirInv, Writing, Adding, Linked
<1>5. EntryInv'
  BY SMTT(30) DEF Begin, Goto, IInv, EntryInv, Torn, LastEntry, Writing, Readable
<1>6. ReturnInv'
  BY DEF Begin, IInv, ReturnInv, Readable
<1> QED
  BY <1>1, <1>2, <1>3, <1>4, <1>5, <1>6 DEF IInv

\* The space is behind that of all other frames.
LEMMA ReserveKeeps ==
    ASSUME IInv, NEW t \in Threads, Reserve(t) PROVE IInv'
<1>1. TypeOK'
  <2>1. header' \in Header
    BY HeaderFields DEF IInv, TypeOK, Reserve, MarkDirty
  <2>2. pc' \in [Threads -> Steps]
    BY Moved DEF IInv, Reserve, Steps
  <2>3. frames' \in Seq([frame : Frames, written : {"none", "header", "all"}])
    BY DEF IInv, TypeOK, Reserve
  <2>4. offset' \in [Threads -> Nat]
    BY DEF IInv, TypeOK, Reserve
  <2> QED
    BY <2>1, <2>2, <2>3, <2>4 DEF Reserve, IInv, TypeOK
<1>2. LockInv'
  BY DEF Reserve, Goto, IInv, LockInv, Locked
<1>3. WorkInv'
  BY DEF Reserve, Goto, IInv, WorkInv, Placed, TypeOK
<1>4. DirInv'
  BY DEF Reserve, MarkDirty, Goto, IInv, DirInv, Writing, Adding, Linked
<1>5. EntryInv'
  <2>1. \A e : Readable(e) => Readable(e)'
    BY FrameAdded DEF Readable
  <2>2. /\ pc'[t] = "header" /\ \A u \in Threads : u # t => pc'[u] = pc[u]
    BY Moved DEF IInv, Reserve, Steps
  <2>3. Writing /\ pc[t] = "reserve"
    BY DEF Writing, Reserve
  <2>4. \A u \in Threads : u # t /\ pc[u] \in {"offset", "account"} =>
           offset[u] \in 1..Len(frames) /\ offset'[u] = offset[u]
    BY DEF IInv, TypeOK, WorkInv, Placed, Reserve
  <2>5. EntryInv
    BY DEF IInv
  <2> QED
    BY <2>1, <2>2, <2>3, <2>4, <2>5, FrameAdded, EntriesStay DEF Reserve
<1>6. ReturnInv'
  BY DEF Reserve, IInv, ReturnInv, Readable
<1> QED
  BY <1>1, <1>2, <1>3, <1>4, <1>5, <1>6 DEF IInv

\* No entry refers to a frame that is being written ...
LEMMA WriteHeaderKeeps ==
    ASSUME IInv, NEW t \in Threads, WriteHeader(t) PROVE IInv'
<1>1. TypeOK'
  <2>1. pc' \in [Threads -> Steps]
    BY Moved DEF IInv, WriteHeader, Steps
  <2>2. frames' \in Seq([frame : Frames, written : {"none", "header", "all"}])
    BY FrameWritten
  <2> QED
    BY <2>1, <2>2 DEF WriteHeader, IInv, TypeOK
<1>2. LockInv'
  BY DEF WriteHeader, Goto, IInv, LockInv, Locked
<1>3. WorkInv'
  BY DEF WriteHeader, Goto, IInv, WorkInv, Placed, TypeOK
<1>4. DirInv'
  BY DEF WriteHeader, Goto, IInv, DirInv, Writing, Adding, Linked
<1>5. EntryInv'
  <2>1. \A e : Readable(e) => Readable(e)'
    BY FrameWritten DEF Readable
  <2>2. /\ pc' \in [Threads -> Steps]
        /\ pc'[t] = "data" /\ \A u \in Threads : u # t => pc'[u] = pc[u]
    BY Moved DEF IInv, WriteHeader, Steps
  <2>3. Writing /\ pc[t] = "header"
    BY DEF Writing, WriteHeader
  <2>4. \A u \in Threads : pc[u] \in {"offset", "account"} => offset[u] \in 1..Len(frames)
    BY DEF IInv, WorkInv, Placed
  <2>5. EntryInv
    BY DEF IInv
  <2> QED
    BY <2>1, <2>2, <2>3, <2>4, <2>5, FrameWritten, EntriesStay DEF WriteHeader
<1>6. ReturnInv'
  BY FrameWritten, ZenonT(40) DEF IInv, ReturnInv, Readable, WriteHeader
<1> QED
  BY <1>1, <1>2, <1>3, <1>4, <1>5, <1>6 DEF IInv

\* ... until its attributes are written, too.
LEMMA WriteDataKeeps ==
    ASSUME IInv, NEW t \in Threads, WriteData(t) PROVE IInv'
<1>1. TypeOK'
  <2>1. pc' \in [Threads -> Steps]
    BY Moved DEF IInv, WriteData, Steps
  <2>2. frames' \in Seq([frame : Frames, written : {"none", "header", "all"}])
    BY FrameWritten
  <2> QED
    BY <2>1, <2>2 DEF WriteData, IInv, TypeOK
<1>2. LockInv'
  BY DEF WriteData, Goto, IInv, LockInv, Locked
<1>3. WorkInv'
  BY DEF WriteData, Goto, IInv, WorkInv, Placed, TypeOK
<1>4. DirInv'
  BY DEF WriteData, Goto, IInv, DirInv, Writing, Adding, Linked
<1>5. EntryInv'
  <2>1. \A e : Readable(e) => Readable(e)'
    BY FrameWritten DEF Readable
  <2>2. /\ pc' \in [Threads -> Steps]
        /\ pc'[t] = "lock" /\ \A u \in Threads : u # t => pc'[u] = pc[u]
    BY Moved DEF IInv, WriteData, Steps
  <2>3. Writing /\ pc[t] = "data"
    BY DEF Writing, WriteData
  <2>4. \A u \in Threads : pc[u] \in {"offset", "account"} => offset[u] \in 1..Len(frames)
    BY DEF IInv, WorkInv, Placed
  <2>5. EntryInv
    BY DEF IInv
  <2> QED
    BY <2>1, <2>2, <2>3, <2>4, <2>5, FrameWritten, EntriesStay DEF WriteData
<1>6. ReturnInv'
  BY DEF WriteData, IInv, ReturnInv, Readable
<1> QED
  BY <1>1, <1>2, <1>3, <1>4, <1>5, <1>6 DEF IInv

\* The thread becomes the only one to change directories.
LEMMA LockKeeps ==
    ASSUME IInv, NEW t \in Threads, Lock(t) PROVE IInv'
<1>1. TypeOK'
  BY DEF Lock, Goto, IInv, TypeOK, Steps
<1>2. LockInv'
  BY DEF Lock, Written, Goto, IInv, LockInv
<1>3. WorkInv'
  BY DEF Lock, Written, Goto, IInv, WorkInv, Placed
<1>4. DirInv'
  BY DEF Lock, Written, Goto, IInv, DirInv, Writing, Adding, Linked
<1>5. EntryInv'
  BY DEF Lock, Written, Goto, IInv, EntryInv, Torn, LastEntry, Writing, Readable, Locked
<1>6. ReturnInv'
  BY SMTT(30) DEF Lock, IInv, ReturnInv, Readable
<1> QED
  BY <1>1, <1>2, <1>3, <1>4, <1>5, <1>6 DEF IInv

\* The slot for the link stays free.
LEMMA HasRoomKeeps ==
    ASSUME IInv, NEW t \in Threads, HasRoom(t) PROVE IInv'
<1>1. TypeOK'
  BY DEF HasRoom, MarkDirty, Goto, IInv, TypeOK, Header, Steps
<1>2. LockInv'
  BY DEF HasRoom, Goto, IInv, LockInv, Locked
<1>3. WorkInv'
  BY DEF HasRoom, Goto, IInv, WorkInv, Placed
<1>4. DirInv'
  <2>1. mapped \in 1..Len(dirs) /\ dirs[mapped].entries \in Seq(Entry)
    BY DirectoryParts DEF IInv, HasRoom, TypeOK, NeedDirectory
  <2>2. Len(dirs[mapped].entries) < Capacity - 1
    BY <2>1, TraceFileAssumption DEF IInv, TypeOK, HasRoom, NeedDirectory
  <2>3. header'.directoryCount = header.directoryCount
    BY DEF IInv, TypeOK, Header, HasRoom, MarkDirty
  <2>4. /\ pc[t] = "directory" /\ pc'[t] = "entry"
        /\ \A u \in Threads : u # t => pc'[u] = pc[u] /\ pc[u] \notin Locked
    BY Moved, Alone DEF IInv, HasRoom, Steps, Locked
  <2> QED
    BY <2>1, <2>2, <2>3, <2>4 DEF HasRoom, IInv, DirInv, Writing, Adding, Linked, Locked
<1>5. EntryInv'
  BY DEF HasRoom, NeedDirectory, MarkDirty, Goto, IInv, EntryInv, Torn, LastEntry,
         Writing, Readable
<1>6. ReturnInv'
  BY DEF HasRoom, IInv, ReturnInv, Readable
<1> QED
  BY <1>1, <1>2, <1>3, <1>4, <1>5, <1>6 DEF IInv

\* The new directory is empty, and the current one the last but one.
LEMMA ReserveDirectoryKeeps ==
    ASSUME IInv, NEW t \in Threads, ReserveDirectory(t) PROVE IInv'
<1>1. TypeOK'
  <2>1. header' \in Header
    BY HeaderFields DEF IInv, TypeOK, ReserveDirectory, MarkDirty
  <2>2. pc' \in [Threads -> Steps]
    BY Moved DEF IInv, ReserveDirectory, Steps
  <2>3. mapped' \in 0..Len(dirs')
    BY DirectoryAdded DEF IInv, TypeOK, ReserveDirectory
  <2>4. \A d \in 1..Len(dirs') : Len(dirs'[d].entries) < Capacity
    <3>1. ASSUME NEW d \in 1..Len(dirs') PROVE Len(dirs'[d].entries) < Capacity
      <4>1. CASE d \in 1..Len(dirs)
        BY <4>1, DirectoryAdded, DirectoryParts DEF IInv
      <4>2. CASE d = Len(dirs) + 1
        BY <4>2, DirectoryAdded, TraceFileAssumption DEF IInv
      <4> QED
        BY <4>1, <4>2, DirectoryAdded DEF IInv
    <3> QED
      BY <3>1
  <2> QED
    BY <2>1, <2>2, <2>3, <2>4, DirectoryAdded DEF ReserveDirectory, IInv, TypeOK
<1>2. LockInv'
  BY DEF ReserveDirectory, Goto, IInv, LockInv, Locked
<1>3. WorkInv'
  BY DEF ReserveDirectory, Goto, IInv, WorkInv, Placed
<1>4. DirInv'
  <2>1. /\ pc[t] = "directory" /\ pc'[t] = "table"
        /\ \A u \in Threads : u # t => pc'[u] = pc[u] /\ pc[u] \notin Locked
    BY Moved, Alone DEF IInv, ReserveDirectory, Steps, Locked
  <2>2. mapped = Len(dirs) /\ Linked(Len(dirs))
    BY <2>1 DEF IInv, DirInv, Writing, Adding, Locked
  <2>3. header'.directoryCount = header.directoryCount
    BY DEF IInv, TypeOK, Header, ReserveDirectory, MarkDirty
  <2>4. /\ Len(dirs') = Len(dirs) + 1 /\ Len(dirs) \in Nat
        /\ \A d \in 1..Len(dirs) : dirs'[d] = dirs[d]
        /\ dirs'[Len(dirs) + 1].entries = <<>>
    BY DirectoryAdded DEF IInv
  <2>5. mapped' = mapped
    BY DEF ReserveDirectory
  <2>6. \A e \in 1..(Len(dirs) - 1) : dirs'[e].link = "next"
    BY <2>2, <2>4 DEF Linked
  <2>7. ASSUME NEW d \in 1..Len(dirs'), dirs'[d].entries # <<>>
        PROVE  Linked(d)' /\ header'.directoryCount > 0
    <3>1. d \in 1..Len(dirs)
      BY <2>4, <2>7
    <3>2. Linked(d)
      BY <2>4, <2>7, <3>1 DEF IInv, DirInv
    <3> QED
      BY <2>3, <2>4, <2>7, <3>1, <3>2 DEF IInv, DirInv, Linked
  <2>8. \E u \in Threads : pc'[u] \in Adding
    BY <2>1 DEF Adding
  <2>9. /\ Len(dirs') > 0 /\ mapped' = Len(dirs') - 1 /\ dirs'[Len(dirs')].entries = <<>>
        /\ Linked(Len(dirs) - 1)'
    BY <2>2, <2>4, <2>5, <2>6 DEF Linked
  <2>10. \A u \in Threads : u # t => pc'[u] \notin Locked
    BY <2>1
  <2> QED
    BY <2>1, <2>7, <2>8, <2>9, <2>10 DEF DirInv, Adding, Locked
<1>5. EntryInv'
  <2>1. /\ pc[t] = "directory" /\ pc'[t] = "table"
        /\ \A u \in Threads : u # t => pc'[u] = pc[u] /\ pc[u] \notin Locked
    BY Moved, Alone DEF IInv, ReserveDirectory, Steps, Locked
  <2>2. \A d \in 1..Len(dirs) : \A i \in 1..Len(dirs[d].entries) :
           Readable(dirs[d].entries[i])
    BY <2>1 DEF IInv, EntryInv, Writing, Locked
  <2>3. \A d \in 1..Len(dirs') : \A i \in 1..Len(dirs'[d].entries) :
           Readable(dirs[d].entries[i])'
    BY <2>2, DirectoryAdded, SMTT(30) DEF IInv, ReserveDirectory, Readable
  <2>4. \A u \in Threads : pc'[u] \notin {"offset", "account"}
    BY <2>1 DEF Locked
  <2> QED
    BY <2>3, <2>4 DEF EntryInv
<1>6. ReturnInv'
  BY DEF ReserveDirectory, IInv, ReturnInv, Readable
<1> QED
  BY <1>1, <1>2, <1>3, <1>4, <1>5, <1>6 DEF IInv

\* Only the header changes.
LEMMA EnterInTableKeeps ==
    ASSUME IInv, NEW t \in Threads, EnterInTable(t) PROVE IInv'
<1>1. TypeOK'
  <2>1. header' \in Header
    <3>1. PICK b \in BOOLEAN :
             header' = [header EXCEPT !.directoryCount = @ + 1, !.dirty = b]
      BY DEF IInv, TypeOK, EnterInTable, Header
    <3> QED
      BY <3>1, HeaderFields DEF IInv, TypeOK
  <2>2. pc' \in [Threads -> Steps]
    BY Moved DEF IInv, EnterInTable, Steps
  <2> QED
    BY <2>1, <2>2 DEF EnterInTable, IInv, TypeOK
<1>2. LockInv'
  BY DEF EnterInTable, Goto, IInv, LockInv, Locked
<1>3. WorkInv'
  BY DEF EnterInTable, Goto, IInv, WorkInv, Placed
<1>4. DirInv'
  <2>1. /\ pc[t] = "table" /\ pc'[t] = "marker"
        /\ \A u \in Threads : u # t => pc'[u] = pc[u] /\ pc[u] \notin Locked
    BY Moved, Alone DEF IInv, EnterInTable, Steps, Locked
  <2>2. header'.directoryCount > 0
    BY DEF IInv, TypeOK, Header, EnterInTable
  <2> QED
    BY <2>1, <2>2 DEF EnterInTable, IInv, DirInv, Adding, Linked, Locked
<1>5. EntryInv'
  BY DEF EnterInTable, Goto, IInv, EntryInv, Torn, LastEntry, Writing, Readable
<1>6. ReturnInv'
  BY DEF EnterInTable, IInv, ReturnInv, Readable
<1> QED
  BY <1>1, <1>2, <1>3, <1>4, <1>5, <1>6 DEF IInv

\* The link of a full directory is torn while nothing is behind it.
LEMMA MarkLinkKeeps ==
    ASSUME IInv, NEW t \in Threads, MarkLink(t) PROVE IInv'
<1>1. TypeOK'
  <2>1. pc' \in [Threads -> Steps]
    BY Moved DEF IInv, MarkLink, Steps
  <2>2. SetLink("torn")
    BY DEF MarkLink
  <2>3. \A d \in 1..Len(dirs') : Len(dirs'[d].entries) < Capacity
    <3>1. TypeOK
      BY DEF IInv
    <3> QED
      BY <2>2, <3>1, LinkSet, DirectoryParts
  <2> QED
    BY <2>1, <2>2, <2>3, LinkSet DEF MarkLink, IInv, TypeOK
<1>2. LockInv'
  BY DEF MarkLink, Goto, IInv, LockInv, Locked
<1>3. WorkInv'
  BY DEF MarkLink, Goto, IInv, WorkInv, Placed
<1>4. DirInv'
  <2>1. /\ pc[t] = "marker" /\ pc'[t] = "link"
        /\ \A u \in Threads : u # t => pc'[u] = pc[u] /\ pc[u] \notin Locked
    BY Moved, Alone DEF IInv, MarkLink, Steps, Locked
  <2>2. SetLink("torn")
    BY DEF MarkLink
  <2>3. /\ Len(dirs) > 0 /\ mapped = Len(dirs) - 1 /\ dirs[Len(dirs)].entries = <<>>
        /\ header.directoryCount > 0 /\ Linked(Len(dirs) - 1)
    BY <2>1 DEF IInv, DirInv, Adding
  <2>4. /\ Len(dirs') = Len(dirs) /\ Len(dirs) \in Nat
        /\ \A d \in 1..Len(dirs) : dirs'[d].entries = dirs[d].entries
        /\ \A d \in 1..Len(dirs) : d # mapped => dirs'[d].link = dirs[d].link
    <3>1. TypeOK
      BY DEF IInv
    <3>2. Len(dirs) \in Nat
      BY <3>1 DEF TypeOK
    <3> QED
      BY <2>2, <3>1, <3>2, LinkSet
  <2>5. mapped' = mapped /\ header' = header
    BY DEF MarkLink
  <2>6. \A e \in 1..(Len(dirs) - 2) : dirs'[e].link = "next"
    BY <2>3, <2>4 DEF Linked
  <2>7. ASSUME NEW d \in 1..Len(dirs'), dirs'[d].entries # <<>>
        PROVE  Linked(d)' /\ header'.directoryCount > 0
    <3>1. d \in 1..(Len(dirs) - 1)
      BY <2>3, <2>4, <2>7
    <3> QED
      BY <2>3, <2>4, <2>5, <3>1 DEF Linked
  <2>8. /\ Len(dirs') > 0 /\ mapped' = Len(dirs') - 1 /\ dirs'[Len(dirs')].entries = <<>>
        /\ header'.directoryCount > 0 /\ Linked(Len(dirs) - 1)'
    BY <2>3, <2>4, <2>5, <2>6 DEF Linked
  <2>9. \A u \in Threads : u # t => pc'[u] \notin Locked
    BY <2>1
  <2> QED
    BY <2>1, <2>7, <2>8, <2>9 DEF DirInv, Adding, Locked
<1>5. EntryInv'
  <2>1. /\ pc[t] = "marker" /\ pc'[t] = "link"
        /\ \A u \in Threads : u # t => pc'[u] = pc[u] /\ pc[u] \notin Locked
    BY Moved, Alone DEF IInv, MarkLink, Steps, Locked
  <2>2. SetLink("torn")
    BY DEF MarkLink
  <2>3. \A d \in 1..Len(dirs) : \A i \in 1..Len(dirs[d].entries) :
           Readable(dirs[d].entries[i])
    BY <2>1 DEF IInv, EntryInv, Writing, Locked
  <2>4. \A d \in 1..Len(dirs') : \A i \in 1..Len(dirs'[d].entries) :
           Readable(dirs[d].entries[i])'
    BY <2>2, <2>3, LinkSet, SMTT(30) DEF IInv, MarkLink, Readable
  <2>5. \A u \in Threads : pc'[u] \notin {"offset", "account"}
    BY <2>1 DEF Locked
  <2> QED
    BY <2>4, <2>5 DEF EntryInv
<1>6. ReturnInv'
  BY DEF MarkLink, SetLink, IInv, ReturnInv, Readable
<1> QED
  BY <1>1, <1>2, <1>3, <1>4, <1>5, <1>6 DEF IInv

\* All directories can be reached again.
LEMMA LinkKeeps ==
    ASSUME IInv, NEW t \in Threads, Link(t) PROVE IInv'
<1>1. TypeOK'
  <2>1. pc' \in [Threads -> Steps]
    BY Moved DEF IInv, Link, Steps
  <2>2. SetLink("next")
    BY DEF Link, LinkDirectory
  <2>3. \A d \in 1..Len(dirs') : Len(dirs'[d].entries) < Capacity
    <3>1. TypeOK
      BY DEF IInv
    <3> QED
      BY <2>2, <3>1, LinkSet, DirectoryParts
  <2> QED
    BY <2>1, <2>2, <2>3, LinkSet DEF Link, IInv, TypeOK
<1>2. LockInv'
  BY DEF Link, LinkDirectory, Goto, IInv, LockInv, Locked
<1>3. WorkInv'
  BY DEF Link, LinkDirectory, Goto, IInv, WorkInv, Placed
<1>4. DirInv'
  BY DEF Link, LinkDirectory, SetLink, Goto, IInv, DirInv, Adding, Linked
<1>5. EntryInv'
  <2>1. /\ pc[t] = "link" /\ pc'[t] = "map"
        /\ \A u \in Threads : u # t => pc'[u] = pc[u] /\ pc[u] \notin Locked
    BY Moved, Alone DEF IInv, Link, LinkDirectory, Steps, Locked
  <2>2. SetLink("next")
    BY DEF Link, LinkDirectory
  <2>3. \A d \in 1..Len(dirs) : \A i \in 1..Len(dirs[d].entries) :
           Readable(dirs[d].entries[i])
    BY <2>1 DEF IInv, EntryInv, Writing, Locked
  <2>4. \A d \in 1..Len(dirs') : \A i \in 1..Len(dirs'[d].entries) :
           Readable(dirs[d].entries[i])'
    BY <2>2, <2>3, LinkSet DEF IInv, Link, Readable
  <2>5. \A u \in Threads : pc'[u] \notin {"offset", "account"}
    BY <2>1 DEF Locked
  <2> QED
    BY <2>4, <2>5 DEF EntryInv
<1>6. ReturnInv'
  BY DEF Link, LinkDirectory, SetLink, IInv, ReturnInv, Readable
<1> QED
  BY <1>1, <1>2, <1>3, <1>4, <1>5, <1>6 DEF IInv

\* The new directory is the current one.
LEMMA MapDirectoryKeeps ==
    ASSUME IInv, NEW t \in Threads, MapDirectory(t) PROVE IInv'
<1>1. TypeOK'
  BY DEF MapDirectory, Goto, IInv, TypeOK, Steps
<1>2. LockInv'
  BY DEF MapDirectory, Goto, IInv, LockInv, Locked
<1>3. WorkInv'
  BY DEF MapDirectory, Goto, IInv, WorkInv, Placed
<1>4. DirInv'
  <2>1. /\ pc[t] = "map" /\ pc'[t] = "entry"
        /\ \A u \in Threads : u # t => pc'[u] = pc[u] /\ pc[u] \notin Locked
    BY Moved, Alone DEF IInv, MapDirectory, Steps, Locked
  <2>2. /\ Len(dirs) > 0 /\ dirs[Len(dirs)].entries = <<>> /\ Linked(Len(dirs))
        /\ header.directoryCount > 0
    BY <2>1 DEF IInv, DirInv, Adding
  <2>3. Len(dirs[Len(dirs)].entries) < Capacity - 1
    BY <2>2, TraceFileAssumption
  <2> QED
    BY <2>1, <2>2, <2>3 DEF MapDirectory, IInv, DirInv, Adding, Linked, Locked
<1>5. EntryInv'
  <2>1. /\ pc[t] = "map" /\ pc'[t] = "entry"
        /\ \A u \in Threads : u # t => pc'[u] = pc[u] /\ pc[u] \notin Locked
    BY Moved, Alone DEF IInv, MapDirectory, Steps, Locked
  <2>2. \A e : Readable(e) => Readable(e)'
    BY DEF MapDirectory, Readable
  <2>3. Writing /\ EntryInv
    BY <2>1 DEF Writing, IInv
  <2> QED
    BY <2>1, <2>2, <2>3, EntriesStay DEF MapDirectory, Locked
<1>6. ReturnInv'
  BY DEF MapDirectory, IInv, ReturnInv, Readable
<1> QED
  BY <1>1, <1>2, <1>3, <1>4, <1>5, <1>6 DEF IInv

\* The new entry is the last one and has no offset.
LEMMA CopyHeaderKeeps ==
    ASSUME IInv, NEW t \in Threads, CopyHeader(t) PROVE IInv'
<1>1. TypeOK'
  <2>1. pc' \in [Threads -> Steps]
    BY Moved DEF IInv, CopyHeader, Steps
  <2>2. \A d \in 1..Len(dirs') : Len(dirs'[d].entries) < Capacity
    <3>1. TypeOK
      BY DEF IInv
    <3> QED
      BY <3>1, EntryCopied, DirectoryParts, TraceFileAssumption
  <2> QED
    BY <2>1, <2>2, EntryCopied DEF CopyHeader, IInv, TypeOK
<1>2. LockInv'
  BY DEF CopyHeader, Goto, IInv, LockInv, Locked
<1>3. WorkInv'
  BY DEF CopyHeader, Goto, IInv, WorkInv, Placed
<1>4. DirInv'
  <2>1. /\ pc[t] = "entry" /\ pc'[t] = "offset"
        /\ \A u \in Threads : u # t => pc'[u] = pc[u] /\ pc[u] \notin Locked
    BY Moved, Alone DEF IInv, CopyHeader, Steps, Locked
  <2>2. mapped = Len(dirs) /\ Linked(Len(dirs)) /\ header.directoryCount > 0
    BY <2>1, EntryCopied DEF IInv, DirInv, Writing, Adding, Locked
  <2>3. \A d \in 1..Len(dirs) : dirs'[d].link = dirs[d].link
    BY EntryCopied
  <2>4. dirs'[mapped].entries # <<>>
    BY EntryCopied
  <2>5. \A d \in 1..Len(dirs) : Linked(d)'
    BY <2>2, <2>3, EntryCopied DEF Linked
  <2>6. /\ header' = header /\ mapped' = mapped /\ Len(dirs') = Len(dirs)
        /\ mapped > 0 /\ Len(dirs) > 0
    <3>1. mapped \in 1..Len(dirs) /\ Len(dirs') = Len(dirs)
      BY EntryCopied
    <3>2. mapped > 0
      BY <3>1
    <3> QED
      BY <2>2, <3>1, <3>2 DEF CopyHeader
  <2>7. \A u \in Threads : pc'[u] \notin Adding /\ pc'[u] # "entry"
    BY <2>1 DEF Locked, Adding
  <2>8. Linked(Len(dirs))'
    BY <2>5, <2>6
  <2> QED
    BY <2>2, <2>4, <2>5, <2>6, <2>7, <2>8 DEF DirInv, Adding
<1>5. EntryInv'
  <2>1. /\ pc[t] = "entry" /\ pc'[t] = "offset"
        /\ \A u \in Threads : u # t => pc'[u] = pc[u] /\ pc[u] \notin Locked
    BY Moved, Alone DEF IInv, CopyHeader, Steps, Locked
  <2>2. mapped = Len(dirs)
    BY <2>1, EntryCopied DEF IInv, DirInv, Writing, Adding, Locked
  <2>3. \A d \in 1..Len(dirs) : \A i \in 1..Len(dirs[d].entries) :
           Readable(dirs[d].entries[i])
    BY <2>1 DEF IInv, EntryInv, Writing, Locked
  <2>4. ASSUME NEW d \in 1..Len(dirs'), NEW i \in 1..Len(dirs'[d].entries)
        PROVE  Readable(dirs[d].entries[i])' \/ Torn(d, i)'
    <3>1. CASE d # mapped
      BY <3>1, <2>3, EntryCopied DEF CopyHeader, Readable
    <3>2. CASE d = mapped /\ i <= Len(dirs[mapped].entries)
      BY <3>2, <2>3, EntryCopied DEF CopyHeader, Readable
    <3>3. CASE d = mapped /\ i > Len(dirs[mapped].entries)
      BY <3>3, <2>2, EntryCopied DEF Torn
    <3> QED
      BY <3>1, <3>2, <3>3, EntryCopied
  <2>5. LastEntry'.frame = frames'[offset'[t]].frame /\ LastEntry'.offset = 0
    BY EntryCopied DEF CopyHeader, LastEntry
  <2> QED
    BY <2>1, <2>4, <2>5 DEF EntryInv, Locked
<1>6. ReturnInv'
  BY EntryCopied, SMTT(30) DEF IInv, ReturnInv, CopyHeader, Readable
<1> QED
  BY <1>1, <1>2, <1>3, <1>4, <1>5, <1>6 DEF IInv

\* The entry gets the offset of a frame that is complete.
LEMMA SetOffsetKeeps ==
    ASSUME IInv, NEW t \in Threads, SetOffset(t) PROVE IInv'
<1>1. TypeOK'
  <2>1. pc' \in [Threads -> Steps]
    BY Moved DEF IInv, SetOffset, Steps
  <2>2. \A d \in 1..Len(dirs') : Len(dirs'[d].entries) < Capacity
    <3>1. TypeOK
      BY DEF IInv
    <3> QED
      BY <3>1, OffsetSet, DirectoryParts
  <2> QED
    BY <2>1, <2>2, OffsetSet DEF SetOffset, IInv, TypeOK
<1>2. LockInv'
  BY DEF SetOffset, Goto, IInv, LockInv, Locked
<1>3. WorkInv'
  BY SMTT(30) DEF SetOffset, Goto, IInv, WorkInv, Placed
<1>4. DirInv'
  <2>1. /\ pc[t] = "offset" /\ pc'[t] = "account"
        /\ \A u \in Threads : u # t => pc'[u] = pc[u] /\ pc[u] \notin Locked
    BY Moved, Alone DEF IInv, SetOffset, Steps, Locked
  <2>2. mapped = Len(dirs) /\ Linked(Len(dirs)) /\ header.directoryCount > 0
    BY <2>1, OffsetSet DEF IInv, DirInv, Writing, Adding, Locked
  <2>3. \A d \in 1..Len(dirs) : dirs'[d].link = dirs[d].link
    BY OffsetSet
  <2>4. dirs'[mapped].entries # <<>>
    BY OffsetSet
  <2> QED
    BY <2>1, <2>2, <2>3, <2>4, OffsetSet, SMTT(30)
       DEF SetOffset, IInv, DirInv, Adding, Linked, Locked
<1>5. EntryInv'
  <2>1. /\ pc[t] = "offset" /\ pc'[t] = "account"
        /\ \A u \in Threads : u # t => pc'[u] = pc[u] /\ pc[u] \notin Locked
    BY Moved, Alone DEF IInv, SetOffset, Steps, Locked
  <2>2. mapped = Len(dirs)
    BY <2>1, OffsetSet DEF IInv, DirInv, Writing, Adding, Locked
  <2>3. /\ LastEntry.frame = frames[offset[t]].frame
        /\ offset[t] \in 1..Len(frames) /\ frames[offset[t]].written = "all"
    BY <2>1 DEF IInv, EntryInv, WorkInv, Placed
  <2>4. dirs[mapped].entries # <<>>
    BY OffsetSet
  <2>5. ASSUME NEW d \in 1..Len(dirs'), NEW i \in 1..Len(dirs'[d].entries)
        PROVE  Readable(dirs[d].entries[i])'
    <3>1. CASE d # mapped
      <4>1. i \in 1..Len(dirs[d].entries) /\ dirs'[d].entries[i] = dirs[d].entries[i]
        BY <3>1, OffsetSet
      <4>2. ~Torn(d, i)
        BY <3>1, <2>2, <2>4, OffsetSet DEF Torn
      <4> QED
        BY <4>1, <4>2, OffsetSet, ZenonT(40) DEF IInv, EntryInv, SetOffset, Readable
    <3>2. CASE d = mapped /\ i # Len(dirs[mapped].entries)
      <4>1. i \in 1..Len(dirs[d].entries) /\ dirs'[d].entries[i] = dirs[d].entries[i]
        BY <3>2, OffsetSet
      <4>2. ~Torn(d, i)
        BY <3>2 DEF Torn
      <4> QED
        BY <4>1, <4>2, OffsetSet, ZenonT(40) DEF IInv, EntryInv, SetOffset, Readable
    <3>3. CASE d = mapped /\ i = Len(dirs[mapped].entries)
      BY <3>3, <2>3, OffsetSet DEF LastEntry, Readable, SetOffset
    <3> QED
      BY <3>1, <3>2, <3>3, SMTT(30)
  <2>6. LastEntry'.frame = frames'[offset'[t]].frame /\ LastEntry'.offset = offset'[t]
    BY <2>3, OffsetSet DEF SetOffset, LastEntry
  <2> QED
    BY <2>1, <2>5, <2>6 DEF EntryInv, Locked
<1>6. ReturnInv'
  <2>1. LastEntry.offset = 0
    BY DEF IInv, EntryInv, SetOffset
  <2>2. ASSUME NEW e \in returned, Readable(e)
        PROVE  \A i \in 1..Len(dirs[mapped].entries) : dirs[mapped].entries[i] = e =>
                  i # Len(dirs[mapped].entries)
    BY <2>1, <2>2 DEF LastEntry, Readable
  <2>3. ASSUME NEW e \in returned
        PROVE  \E d \in 1..Len(dirs') : \E i \in 1..Len(dirs'[d].entries) :
                  dirs'[d].entries[i] = e
    <3>0. PICK d \in 1..Len(dirs) : \E i \in 1..Len(dirs[d].entries) : dirs[d].entries[i] = e
      BY DEF IInv, ReturnInv
    <3>1. PICK i \in 1..Len(dirs[d].entries) : dirs[d].entries[i] = e
      BY <3>0
    <3>2. d = mapped => i # Len(dirs[mapped].entries)
      BY <2>2, <3>1 DEF IInv, ReturnInv
    <3> QED
      BY <3>1, <3>2, OffsetSet
  <2> QED
    BY <2>3 DEF IInv, ReturnInv, SetOffset, Readable
<1> QED
  BY <1>1, <1>2, <1>3, <1>4, <1>5, <1>6 DEF IInv

\* What commitFrame returns has an entry.
LEMMA AccountKeeps ==
    ASSUME IInv, NEW t \in Threads, Account(t) PROVE IInv'
<1>1. TypeOK'
  <2>1. header' \in Header
    BY HeaderFields DEF IInv, TypeOK, Account, CountFrame
  <2>2. pc' \in [Threads -> Steps]
    BY Moved DEF IInv, Account, Steps
  <2>3. work' \in [Threads -> SUBSET Frames] /\ offset' \in [Threads -> Nat]
    BY DEF IInv, TypeOK, Account
  <2>4. returned' \in SUBSET Entry
    BY DEF IInv, TypeOK, Account, Entry
  <2>5. streams' \in SUBSET Streams
    BY DEF IInv, TypeOK, Account, Frames
  <2> QED
    BY <2>1, <2>2, <2>3, <2>4, <2>5 DEF Account, IInv, TypeOK
<1>2. LockInv'
  BY DEF Account, Goto, IInv, LockInv, Locked, TypeOK
<1>3. WorkInv'
  BY DEF Account, Goto, IInv, WorkInv, Placed, TypeOK
<1>4. DirInv'
  BY DEF Account, CountFrame, Goto, IInv, DirInv, Writing, Adding, Linked
<1>5. EntryInv'
  <2>1. /\ pc[t] = "account" /\ pc'[t] = "idle"
        /\ \A u \in Threads : u # t => pc'[u] = pc[u] /\ pc[u] \notin Locked
    BY Moved, Alone DEF IInv, Account, Steps, Locked
  <2>2. \A e : Readable(e) => Readable(e)'
    BY DEF Account, Readable
  <2>3. Writing /\ EntryInv
    BY <2>1 DEF Writing, IInv
  <2> QED
    BY <2>1, <2>2, <2>3, EntriesStay DEF Account, Locked
<1>6. ReturnInv'
  <2> DEFINE n == Len(dirs[mapped].entries)
             e == [frame |-> frames[offset[t]].frame, offset |-> offset[t]]
  <2>1. /\ pc[t] = "account" /\ mapped \in 1..Len(dirs) /\ dirs[mapped].entries # <<>>
        /\ LastEntry.frame = frames[offset[t]].frame /\ LastEntry.offset = offset[t]
        /\ offset[t] \in 1..Len(frames) /\ work[t] = {frames[offset[t]].frame}
        /\ frames[offset[t]].written = "all"
    BY DEF IInv, TypeOK, DirInv, EntryInv, WorkInv, Placed, Account
  <2>2. dirs[mapped].entries \in Seq(Entry)
    BY <2>1, DirectoryParts DEF IInv
  <2>3. n \in 1..n /\ LastEntry \in Entry
    BY <2>1, <2>2 DEF LastEntry
  <2>4. dirs[mapped].entries[n] = e
    BY <2>1, <2>3 DEF LastEntry, Entry
  <2>5. Readable(e)
    BY <2>1 DEF Readable
  <2>6. returned' = returned \cup {e}
    BY <2>1 DEF Account
  <2>7. \A x \in returned' : Readable(x) /\ \E d \in 1..Len(dirs) :
           \E i \in 1..Len(dirs[d].entries) : dirs[d].entries[i] = x
    <3> HIDE DEF e, n
    <3> QED
      BY <2>1, <2>3, <2>4, <2>5, <2>6 DEF IInv, ReturnInv, n
  <2> QED
    BY <2>7 DEF ReturnInv, Readable, Account
<1> QED
  BY <1>1, <1>2, <1>3, <1>4, <1>5, <1>6 DEF IInv

\* The store becomes read only; the mapping does not fail.
LEMMA FailKeeps ==
    ASSUME IInv, NEW t \in Threads, ~MapsMayFail, Fail(t) PROVE IInv'
<1>1. TypeOK'
  BY DEF Fail, UnlockOnError, Goto, file, IInv, TypeOK, Steps
<1>2. LockInv'
  BY DEF Fail, UnlockOnError, Goto, IInv, LockInv, Locked, TypeOK
<1>3. WorkInv'
  BY DEF Fail, Goto, file, IInv, WorkInv, Placed, TypeOK
<1>4. DirInv'
  BY DEF Fail, Goto, file, IInv, DirInv, Writing, Adding, Linked
<1>5. EntryInv'
  BY DEF Fail, UnlockOnError, Goto, NeedDirectory, file, IInv, EntryInv, Torn, LastEntry,
         Writing, Readable
<1>6. ReturnInv'
  BY DEF Fail, file, IInv, ReturnInv, Readable
<1> QED
  BY <1>1, <1>2, <1>3, <1>4, <1>5, <1>6 DEF IInv

-----------------------------------------------------------------------------
\* Initially there is no file.
LEMMA InitKeeps == Init => IInv
<1> SUFFICES ASSUME Init PROVE IInv
  OBVIOUS
<1>1. TypeOK
  <2>1. header \in Header
    BY DEF Init, Header
  <2>2. /\ frames \in Seq([frame : Frames, written : {"none", "header", "all"}])
        /\ dirs \in Seq(Directory) /\ Len(dirs) = 0 /\ DOMAIN dirs = {}
    BY DEF Init
  <2>3. pc \in [Threads -> Steps]
    BY DEF Init, Steps
  <2>4. work \in [Threads -> SUBSET Frames] /\ offset \in [Threads -> Nat]
    BY DEF Init
  <2>5. /\ mapped \in 0..Len(dirs) /\ view \in SUBSET Entry /\ returned \in SUBSET Entry
        /\ streams \in SUBSET Streams /\ holder \in SUBSET Threads
    BY <2>2 DEF Init
  <2>6. readMode \in BOOLEAN /\ crashed \in BOOLEAN
    BY DEF Init
  <2> QED
    BY <2>1, <2>2, <2>3, <2>4, <2>5, <2>6 DEF Init, TypeOK
<1>2. LockInv
  BY DEF Init, LockInv, Locked
<1>3. WorkInv
  BY DEF Init, WorkInv, Placed
<1>4. DirInv
  BY DEF Init, DirInv, Adding, Writing
<1>5. EntryInv
  BY DEF Init, EntryInv, Writing
<1>6. ReturnInv
  BY DEF Init, ReturnInv
<1> QED
  BY <1>1, <1>2, <1>3, <1>4, <1>5, <1>6 DEF IInv

\* A step of commitFrame
LEMMA CommitKeeps ==
    ASSUME IInv, NEW t \in Threads, Commit(t) PROVE IInv'
BY ReserveKeeps, WriteHeaderKeeps, WriteDataKeeps, LockKeeps, HasRoomKeeps,
   ReserveDirectoryKeeps, EnterInTableKeeps, MarkLinkKeeps, LinkKeeps,
   MapDirectoryKeeps, CopyHeaderKeeps, SetOffsetKeeps, AccountKeeps DEF Commit

\* A step of the store
LEMMA NextKeeps ==
    ASSUME IInv, ~MapsMayFail, [Next]_vars PROVE IInv'
<1>1. CASE UNCHANGED vars
  <2>1. TypeOK'
    BY <1>1 DEF IInv, TypeOK, vars
  <2>2. LockInv' /\ WorkInv' /\ DirInv'
    BY <1>1 DEF IInv, LockInv, WorkInv, Placed, DirInv, Linked, Writing, vars
  <2>3. EntryInv' /\ ReturnInv'
    BY <1>1 DEF IInv, EntryInv, ReturnInv, Torn, LastEntry, Writing, Readable, vars
  <2> QED
    BY <2>1, <2>2, <2>3 DEF IInv
<1>2. CASE CreateFile \/ InitializeHeader \/ SignHeader
  BY <1>2, CreateFileKeeps, InitializeHeaderKeeps, SignHeaderKeeps
<1>3. CASE OpenStore \/ CloseStore \/ Crash
  BY <1>3, OpenStoreKeeps, CloseStoreKeeps, CrashKeeps
<1>4. ASSUME NEW t \in Threads, NEW f \in Frames, Begin(t, f) PROVE IInv'
  BY <1>4, BeginKeeps
<1>5. ASSUME NEW t \in Threads, Commit(t) \/ Fail(t) PROVE IInv'
  BY <1>5, CommitKeeps, FailKeeps
<1> QED
  BY <1>1, <1>2, <1>3, <1>4, <1>5 DEF Next

\* The inductive invariant.
THEOREM Inductive == ASSUME ~MapsMayFail PROVE Spec => []IInv
<1>1. Init => IInv
  BY InitKeeps
<1>2. IInv /\ [Next]_vars => IInv'
  BY NextKeeps
<1> QED
  BY <1>1, <1>2, PTL DEF Spec

\* TypeOK: no directory outgrows its capacity (_addFrameToDirectory), for any
\* number of threads that commit frames.
THEOREM TypeCorrect == ASSUME ~MapsMayFail PROVE Spec => []TypeOK
<1>1. IInv => TypeOK
  BY DEF IInv
<1> QED
  BY <1>1, Inductive, PTL

\* CommittedSurvives: what commitFrame has returned is found and read after
\* any sequence of commits, crashes and restarts, if the mapping of a new
\* directory does not fail.
THEOREM Durable == ASSUME ~MapsMayFail PROVE Spec => []CommittedSurvives
<1>1. IInv => CommittedSurvives
  <2> SUFFICES ASSUME IInv, NEW e \in returned
               PROVE  Readable(e) /\ \E p \in Walked : EntryAt(p) = e
    BY DEF CommittedSurvives
  <2>1. PICK d \in 1..Len(dirs) :
           Readable(e) /\ \E i \in 1..Len(dirs[d].entries) : dirs[d].entries[i] = e
    BY DEF IInv, ReturnInv
  <2>2. PICK i \in 1..Len(dirs[d].entries) : dirs[d].entries[i] = e
    BY <2>1
  <2>3. dirs[d].entries \in Seq(Entry) /\ Len(dirs[d].entries) < Capacity
    BY DirectoryParts DEF IInv
  <2>4. dirs[d].entries # <<>>
    BY <2>2, <2>3
  <2>5. Linked(d) /\ header.directoryCount > 0
    BY <2>4 DEF IInv, DirInv
  <2>6. i \in 1..Capacity /\ i <= Len(dirs[d].entries)
    BY <2>3, TraceFileAssumption
  <2>7. <<d, i>> \in Walked
    BY <2>5, <2>6 DEF Walked, Linked
  <2>8. EntryAt(<<d, i>>) = e
    BY <2>2 DEF EntryAt
  <2> QED
    BY <2>1, <2>7, <2>8
<1> QED
  BY <1>1, Inductive, PTL

\* OnlyLastTorn: wherever the process dies, at most the last entry of the
\* file is incomplete, and then it has no offset.
THEOREM Damage == ASSUME ~MapsMayFail PROVE Spec => []OnlyLastTorn
<1>1. IInv => OnlyLastTorn
  <2> SUFFICES ASSUME IInv, NEW p \in Walked, ~Readable(EntryAt(p))
               PROVE  EntryAt(p).offset = 0 /\ \A q \in Walked : ~Before(p, q)
    BY DEF OnlyLastTorn
  <2>1. \A q \in Walked : /\ q[1] \in 1..Len(dirs)
                          /\ q[2] \in 1..Len(dirs[q[1]].entries)
    BY DirectoryParts DEF IInv, Walked
  <2>2. Torn(p[1], p[2])
    BY <2>1 DEF IInv, EntryInv, EntryAt
  <2>3. ASSUME NEW q \in Walked, Before(p, q) PROVE FALSE
    <3>1. q[1] = p[1] => q[2] <= p[2]
      BY <2>1, <2>2, DirectoryParts DEF Torn, IInv
    <3>2. q[1] > p[1] => dirs[q[1]].entries = <<>>
      BY <2>1, <2>2 DEF Torn
    <3>3. dirs[q[1]].entries # <<>>
      BY <2>1
    <3> QED
      BY <2>1, <2>3, <3>1, <3>2, <3>3, DirectoryParts DEF Before, IInv
  <2> QED
    BY <2>2, <2>3 DEF Torn, EntryAt
<1> QED
  BY <1>1, Inductive, PTL

-----------------------------------------------------------------------------
(* Streams and their zero frames.                                          *)

\* The zero frame of a stream
MetaFrame(s) == [stream |-> s, sqn |-> Meta]

\* A directory has an entry for the zero frame of the stream.
Registered(s) ==
    \E d \in 1..Len(dirs) : \E i \in 1..Len(dirs[d].entries) :
        dirs[d].entries[i].frame = MetaFrame(s)

\* The entry at i of directory d, if it is that of a data frame, has that of
\* the zero frame of its stream before it.
Preceded(d, i) ==
    dirs[d].entries[i].frame.sqn # Meta =>
        \E c \in 1..Len(dirs) : \E j \in 1..Len(dirs[c].entries) :
            /\ c < d \/ (c = d /\ j < i)
            /\ dirs[c].entries[j].frame = MetaFrame(dirs[d].entries[i].frame.stream)

\* What threads may use, and what they work on, is registered.
UseInv ==
    /\ \A s \in streams : Registered(s)
    /\ \A t \in Threads : \A f \in work[t] : f.sqn # Meta => Registered(f.stream)

OrderInv == \A d \in 1..Len(dirs) : \A i \in 1..Len(dirs[d].entries) : Preceded(d, i)

StreamInv == UseInv /\ OrderInv

\* The step adds no entry.
NoEntry ==
    /\ Len(dirs) \in Nat /\ Len(dirs') \in Nat /\ Len(dirs) <= Len(dirs')
    /\ \A d \in 1..Len(dirs) :
          /\ Len(dirs'[d].entries) = Len(dirs[d].entries)
          /\ \A i \in 1..Len(dirs[d].entries) :
                dirs'[d].entries[i].frame = dirs[d].entries[i].frame
    /\ \A d \in 1..Len(dirs') : d > Len(dirs) => Len(dirs'[d].entries) = 0

\* What is registered remains so.
LEMMA NoEntryRegistered ==
    ASSUME NoEntry, NEW s, Registered(s) PROVE Registered(s)'
<1>1. PICK d \in 1..Len(dirs) : \E i \in 1..Len(dirs[d].entries) :
         dirs[d].entries[i].frame = MetaFrame(s)
  BY DEF Registered
<1>2. PICK i \in 1..Len(dirs[d].entries) : dirs[d].entries[i].frame = MetaFrame(s)
  BY <1>1
<1>3. d \in 1..Len(dirs') /\ i \in 1..Len(dirs'[d].entries)
      /\ dirs'[d].entries[i].frame = MetaFrame(s)
  BY <1>2 DEF NoEntry
<1> QED
  BY <1>3 DEF Registered, MetaFrame

\* The order remains, too.
LEMMA NoEntryOrder ==
    ASSUME NoEntry, OrderInv PROVE OrderInv'
<1> SUFFICES ASSUME NEW d \in 1..Len(dirs'), NEW i \in 1..Len(dirs'[d].entries)
             PROVE  Preceded(d, i)'
  BY DEF OrderInv
<1>1. d \in 1..Len(dirs)
  BY DEF NoEntry
<1>2. i \in 1..Len(dirs[d].entries) /\ dirs'[d].entries[i].frame = dirs[d].entries[i].frame
  BY <1>1 DEF NoEntry
<1>3. Preceded(d, i)
  BY <1>1, <1>2 DEF OrderInv
<1> SUFFICES ASSUME dirs[d].entries[i].frame.sqn # Meta
             PROVE  \E c \in 1..Len(dirs') : \E j \in 1..Len(dirs'[c].entries) :
                       /\ c < d \/ (c = d /\ j < i)
                       /\ dirs'[c].entries[j].frame = MetaFrame(dirs[d].entries[i].frame.stream)
  BY <1>2 DEF Preceded, MetaFrame
<1>4. PICK c \in 1..Len(dirs) : \E j \in 1..Len(dirs[c].entries) :
            /\ c < d \/ (c = d /\ j < i)
            /\ dirs[c].entries[j].frame = MetaFrame(dirs[d].entries[i].frame.stream)
  BY <1>3 DEF Preceded
<1>5. PICK j \in 1..Len(dirs[c].entries) :
            /\ c < d \/ (c = d /\ j < i)
            /\ dirs[c].entries[j].frame = MetaFrame(dirs[d].entries[i].frame.stream)
  BY <1>4
<1>6. c \in 1..Len(dirs') /\ j \in 1..Len(dirs'[c].entries)
      /\ dirs'[c].entries[j].frame = dirs[c].entries[j].frame
  BY <1>4, <1>5 DEF NoEntry
<1> QED
  BY <1>5, <1>6

\* A step that adds no entry and begins no frame keeps the order.
LEMMA NoEntryKeeps ==
    ASSUME NoEntry, StreamInv, \A s \in streams' : s \in streams \/ Registered(s),
           \A t \in Threads : work'[t] \subseteq work[t]
    PROVE  StreamInv'
<1>1. \A s \in streams' : Registered(s)'
  BY NoEntryRegistered DEF StreamInv, UseInv
<1>2. ASSUME NEW t \in Threads, NEW f \in work'[t], f.sqn # Meta PROVE Registered(f.stream)'
  BY <1>2, NoEntryRegistered DEF StreamInv, UseInv
<1> QED
  BY <1>1, <1>2, NoEntryOrder DEF StreamInv, UseInv

\* The directories stay as they are.
LEMMA SameDirs ==
    ASSUME TypeOK, dirs' = dirs PROVE NoEntry
BY DEF TypeOK, NoEntry

\* The steps of commitFrame that add no entry
LEMMA CommitNoEntry ==
    ASSUME IInv, NEW t \in Threads, Commit(t), ~CopyHeader(t)
    PROVE  NoEntry
<1>1. CASE dirs' = dirs
  BY <1>1, SameDirs DEF IInv
<1>2. CASE ReserveDirectory(t)
  <2>1. /\ Len(dirs') = Len(dirs) + 1 /\ Len(dirs) \in Nat
        /\ \A d \in 1..Len(dirs) : dirs'[d] = dirs[d]
        /\ dirs'[Len(dirs) + 1].entries = <<>>
    BY <1>2, DirectoryAdded DEF IInv
  <2> QED
    BY <2>1 DEF NoEntry
<1>3. ASSUME NEW l \in {"torn", "next"}, SetLink(l) PROVE NoEntry
  <2>1. /\ Len(dirs') = Len(dirs)
        /\ \A d \in 1..Len(dirs) : dirs'[d].entries = dirs[d].entries
    BY <1>3, LinkSet DEF IInv
  <2>2. Len(dirs) \in Nat
    BY DEF IInv, TypeOK
  <2> QED
    BY <2>1, <2>2 DEF NoEntry
<1>4. CASE SetOffset(t)
  <2> DEFINE n == Len(dirs[mapped].entries)
  <2>1. /\ mapped \in 1..Len(dirs) /\ n \in Nat \ {0}
        /\ Len(dirs') = Len(dirs)
        /\ \A d \in 1..Len(dirs) : d # mapped => dirs'[d] = dirs[d]
        /\ Len(dirs'[mapped].entries) = n
        /\ \A i \in 1..n : i # n => dirs'[mapped].entries[i] = dirs[mapped].entries[i]
        /\ dirs'[mapped].entries[n].frame = dirs[mapped].entries[n].frame
    BY <1>4, OffsetSet
  <2>2. Len(dirs) \in Nat
    BY DEF IInv, TypeOK
  <2>3. \A i \in 1..n : dirs'[mapped].entries[i].frame = dirs[mapped].entries[i].frame
    BY <2>1
  <2>4. \A d \in 1..Len(dirs) :
          /\ Len(dirs'[d].entries) = Len(dirs[d].entries)
          /\ \A i \in 1..Len(dirs[d].entries) :
                dirs'[d].entries[i].frame = dirs[d].entries[i].frame
    BY <2>1, <2>3
  <2> QED
    BY <2>1, <2>2, <2>4 DEF NoEntry
<1> QED
  BY <1>1, <1>2, <1>3, <1>4 DEF Commit, Reserve, WriteHeader, WriteData, Lock, HasRoom,
     EnterInTable, MarkLink, Link, LinkDirectory, MapDirectory, Account

\* What the thread has put into the directory is registered when it is published.
LEMMA AccountRegisters ==
    ASSUME IInv, NEW t \in Threads, Account(t)
    PROVE  \A s \in streams' : s \in streams \/ Registered(s)
<1> SUFFICES ASSUME NEW f \in work[t], f.sqn = Meta PROVE Registered(f.stream)
  BY DEF Account
<1>1. f = frames[offset[t]].frame
  BY DEF IInv, WorkInv, Placed, Account
<1>2. mapped \in 1..Len(dirs) /\ dirs[mapped].entries # <<>>
  BY DEF IInv, DirInv, TypeOK, Account
<1>3. dirs[mapped].entries \in Seq(Entry)
  BY <1>2, DirectoryParts DEF IInv
<1>4. Len(dirs[mapped].entries) \in 1..Len(dirs[mapped].entries)
  BY <1>2, <1>3
<1>5. dirs[mapped].entries[Len(dirs[mapped].entries)].frame = f
  BY <1>1 DEF IInv, EntryInv, LastEntry, Account
<1>6. f \in Frames
  BY DEF IInv, TypeOK
<1>7. f = MetaFrame(f.stream)
  BY <1>6 DEF Frames, MetaFrame
<1> QED
  BY <1>2, <1>4, <1>5, <1>7 DEF Registered

\* The entry of a frame is put behind all others.
LEMMA CopyHeaderOrder ==
    ASSUME IInv, StreamInv, NEW t \in Threads, CopyHeader(t)
    PROVE  StreamInv'
<1> DEFINE n == Len(dirs[mapped].entries)
           g == frames[offset[t]].frame
<1>1. /\ mapped \in 1..Len(dirs) /\ n \in Nat
      /\ Len(dirs') = Len(dirs)
      /\ \A d \in 1..Len(dirs) : d # mapped => dirs'[d] = dirs[d]
      /\ Len(dirs'[mapped].entries) = n + 1
      /\ \A i \in 1..n : dirs'[mapped].entries[i] = dirs[mapped].entries[i]
      /\ dirs'[mapped].entries[n + 1].frame = g
  BY EntryCopied
<1>2. mapped = Len(dirs)
  <2>1. pc[t] = "entry" /\ mode = "open"
    BY DEF CopyHeader, IInv, LockInv
  <2>2. Writing /\ \A u \in Threads : pc[u] \notin Adding
    BY <2>1, Alone DEF Writing, Adding, IInv, Locked
  <2> QED
    BY <2>2 DEF IInv, DirInv
<1>3. \A d \in 1..Len(dirs) : \A i \in 1..Len(dirs[d].entries) :
         i \in 1..Len(dirs'[d].entries) /\ dirs'[d].entries[i] = dirs[d].entries[i]
  BY <1>1
<1>4. ASSUME NEW s, Registered(s) PROVE Registered(s)'
  <2>1. PICK d \in 1..Len(dirs) : \E i \in 1..Len(dirs[d].entries) :
           dirs[d].entries[i].frame = MetaFrame(s)
    BY <1>4 DEF Registered
  <2>2. PICK i \in 1..Len(dirs[d].entries) : dirs[d].entries[i].frame = MetaFrame(s)
    BY <2>1
  <2>3. d \in 1..Len(dirs') /\ i \in 1..Len(dirs'[d].entries)
        /\ dirs'[d].entries[i].frame = MetaFrame(s)
    BY <1>1, <1>3, <2>2
  <2> QED
    BY <2>3 DEF Registered, MetaFrame
<1>5. UseInv'
  BY <1>4 DEF StreamInv, UseInv, CopyHeader
<1>6. ASSUME NEW d \in 1..Len(dirs), NEW i \in 1..Len(dirs[d].entries)
      PROVE  Preceded(d, i)'
  <2>1. Preceded(d, i) /\ dirs'[d].entries[i] = dirs[d].entries[i]
    BY <1>3 DEF StreamInv, OrderInv
  <2>2. CASE dirs[d].entries[i].frame.sqn = Meta
    BY <2>1, <2>2 DEF Preceded
  <2>3. CASE dirs[d].entries[i].frame.sqn # Meta
    <3> DEFINE m == MetaFrame(dirs[d].entries[i].frame.stream)
    <3>0. PICK c \in 1..Len(dirs) : \E j \in 1..Len(dirs[c].entries) :
            (c < d \/ (c = d /\ j < i)) /\ dirs[c].entries[j].frame = m
      BY <2>1, <2>3 DEF Preceded
    <3>1. PICK j \in 1..Len(dirs[c].entries) :
            (c < d \/ (c = d /\ j < i)) /\ dirs[c].entries[j].frame = m
      BY <3>0
    <3>2. j \in 1..Len(dirs'[c].entries) /\ dirs'[c].entries[j].frame = m /\ c \in 1..Len(dirs')
      BY <1>1, <1>3, <3>1
    <3>3. m' = m
      BY <2>1 DEF MetaFrame
    <3> QED
      BY <3>1, <3>2, <3>3 DEF Preceded
  <2> QED
    BY <2>2, <2>3
<1>7. ASSUME NEW d, NEW i, d = mapped, i = n + 1
      PROVE  Preceded(d, i)'
  <2>6. dirs'[d].entries[i].frame = g /\ i \in Nat
    BY <1>1, <1>7
  <2> SUFFICES ASSUME g.sqn # Meta
      PROVE  \E c \in 1..Len(dirs') : \E j \in 1..Len(dirs'[c].entries) :
                /\ c < mapped \/ (c = mapped /\ j < n + 1)
                /\ dirs'[c].entries[j].frame = MetaFrame(g.stream)
    BY <1>7, <2>6 DEF Preceded, MetaFrame
  <2>1. Registered(g.stream)
    BY DEF StreamInv, UseInv, IInv, WorkInv, Placed, CopyHeader
  <2>5. PICK c \in 1..Len(dirs) : \E j \in 1..Len(dirs[c].entries) :
           dirs[c].entries[j].frame = MetaFrame(g.stream)
    BY <2>1 DEF Registered
  <2>2. PICK j \in 1..Len(dirs[c].entries) : dirs[c].entries[j].frame = MetaFrame(g.stream)
    BY <2>5
  <2>3. c < mapped \/ (c = mapped /\ j < n + 1)
    BY <1>1, <1>2, <2>2
  <2>4. c \in 1..Len(dirs') /\ j \in 1..Len(dirs'[c].entries)
        /\ dirs'[c].entries[j].frame = MetaFrame(g.stream)
    BY <1>1, <1>3, <2>2
  <2> QED
    BY <2>3, <2>4
<1>8. ASSUME NEW d \in 1..Len(dirs'), NEW i \in 1..Len(dirs'[d].entries)
      PROVE  i \in 1..Len(dirs[d].entries) \/ (d = mapped /\ i = n + 1)
  BY <1>1
<1>9. OrderInv'
  <2>2. ASSUME NEW d \in 1..Len(dirs'), NEW i \in 1..Len(dirs'[d].entries)
        PROVE  Preceded(d, i)'
    <3>1. CASE i \in 1..Len(dirs[d].entries)
      BY <1>1, <1>6, <3>1
    <3>2. CASE d = mapped /\ i = n + 1
      BY <1>7, <3>2
    <3> QED
      BY <1>8, <3>1, <3>2
  <2> QED
    BY <2>2 DEF OrderInv
<1> QED
  BY <1>5, <1>9 DEF StreamInv

\* Every step keeps the order.
LEMMA StreamKept ==
    ASSUME IInv, StreamInv, [Next]_vars PROVE StreamInv'
<1>1. CASE UNCHANGED vars
  <2>1. NoEntry
    BY <1>1, SameDirs DEF vars, IInv
  <2> QED
    BY <1>1, <2>1, NoEntryKeeps DEF vars
<1>2. CASE CreateFile \/ InitializeHeader \/ SignHeader \/ CloseStore \/ Crash
  <2>1. dirs' = dirs /\ streams' \subseteq streams
        /\ \A t \in Threads : work'[t] \subseteq work[t]
    BY <1>2 DEF CreateFile, InitializeHeader, SignHeader, CloseStore, FinalizeHeader, Crash, file
  <2> QED
    BY <2>1, NoEntryKeeps, SameDirs DEF IInv
<1>3. CASE OpenStore
  <2>1. dirs' = dirs /\ work' = work
    BY <1>3 DEF OpenStore, file
  <2>2. ASSUME NEW s \in streams' PROVE Registered(s)
    <3>1. PICK p \in Walked : EntryAt(p).frame.sqn = Meta /\ s = EntryAt(p).frame.stream
      BY <1>3, <2>2 DEF OpenStore
    <3>2. p[1] \in 1..Len(dirs) /\ p[2] \in 1..Capacity /\ p[2] <= Len(dirs[p[1]].entries)
      BY <3>1 DEF Walked
    <3>3. dirs[p[1]].entries \in Seq(Entry)
      BY <3>2, DirectoryParts DEF IInv
    <3>4. p[2] \in 1..Len(dirs[p[1]].entries)
      BY <3>2, <3>3, TraceFileAssumption
    <3>5. EntryAt(p) \in Entry
      BY <3>3, <3>4 DEF EntryAt
    <3>6. EntryAt(p).frame = MetaFrame(s)
      BY <3>1, <3>5 DEF Entry, Frames, MetaFrame
    <3> QED
      BY <3>2, <3>4, <3>6 DEF Registered, EntryAt
  <2> QED
    BY <2>1, <2>2, NoEntryKeeps, SameDirs DEF IInv
<1>4. ASSUME NEW t \in Threads, NEW f \in Frames, Begin(t, f) PROVE StreamInv'
  <2>1. NoEntry /\ streams' = streams
    BY <1>4, SameDirs DEF Begin, IInv
  <2>2. ASSUME NEW u \in Threads, NEW g \in work'[u], g.sqn # Meta PROVE Registered(g.stream)
    <3>1. g \in work[u] \/ g = f
      BY <1>4, <2>2 DEF Begin, IInv, TypeOK
    <3>2. g = f => g.stream \in streams
      BY <1>4, <2>2 DEF Begin, Submittable
    <3> QED
      BY <2>2, <3>1, <3>2 DEF StreamInv, UseInv
  <2>3. UseInv'
    BY <2>1, <2>2, NoEntryRegistered DEF StreamInv, UseInv
  <2> QED
    BY <2>1, <2>3, NoEntryOrder DEF StreamInv
<1>5. ASSUME NEW t \in Threads, Commit(t) PROVE StreamInv'
  <2>1. CASE CopyHeader(t)
    BY <2>1, CopyHeaderOrder
  <2>2. CASE ~CopyHeader(t)
    <3>1. NoEntry
      BY <1>5, <2>2, CommitNoEntry
    <3>2. \A s \in streams' : s \in streams \/ Registered(s)
      BY <1>5, <2>2, AccountRegisters DEF Commit, Reserve, WriteHeader, WriteData, Lock,
         HasRoom, ReserveDirectory, EnterInTable, MarkLink, Link, MapDirectory, SetOffset
    <3>3. \A u \in Threads : work'[u] \subseteq work[u]
      BY <1>5, <2>2 DEF Commit, Reserve, WriteHeader, WriteData, Lock,
         HasRoom, ReserveDirectory, EnterInTable, MarkLink, Link, MapDirectory, SetOffset,
         Account, IInv, TypeOK
    <3> QED
      BY <3>1, <3>2, <3>3, NoEntryKeeps
  <2> QED
    BY <2>1, <2>2
<1>6. ASSUME NEW t \in Threads, Fail(t) PROVE StreamInv'
  <2>1. dirs' = dirs /\ streams' = streams /\ \A u \in Threads : work'[u] \subseteq work[u]
    BY <1>6 DEF Fail, file, IInv, TypeOK
  <2> QED
    BY <2>1, NoEntryKeeps, SameDirs DEF IInv
<1> QED
  BY <1>1, <1>2, <1>3, <1>4, <1>5, <1>6 DEF Next

\* There is no entry before the first one.
LEMMA StreamInit == ASSUME Init PROVE StreamInv
BY DEF Init, StreamInv, UseInv, OrderInv

\* Every stream that is used has an entry for its zero frame, and data frames
\* follow it (commitFrame publishes a stream when its zero frame is committed).
THEOREM Order == ASSUME ~MapsMayFail PROVE Spec => []StreamInv
<1>1. Init => StreamInv
  BY StreamInit
<1>2. IInv /\ StreamInv /\ [Next]_vars => StreamInv'
  BY StreamKept
<1> QED
  BY <1>1, <1>2, Inductive, PTL DEF Spec

\* StreamsPrecedeSegments: _openFrame meets the zero frame of a stream before the
\* data frames, wherever the process died; only a torn zero frame at the end of
\* the file makes it throw.
THEOREM ZeroFramesFirst == ASSUME ~MapsMayFail PROVE Spec => []StreamsPrecedeSegments
<1>1. IInv /\ StreamInv /\ OnlyLastTorn => StreamsPrecedeSegments
  <2> SUFFICES ASSUME IInv, StreamInv, OnlyLastTorn, OpenThrows
               PROVE  \E p \in Walked : /\ EntryAt(p).frame.sqn = Meta
                                        /\ EntryAt(p).offset = 0
                                        /\ \A q \in Walked : ~Before(p, q)
    BY DEF StreamsPrecedeSegments
  <2>1. PICK p \in Walked :
           IF EntryAt(p).frame.sqn = Meta
           THEN ~Readable(EntryAt(p))
           ELSE \A q \in Walked : Before(q, p) => EntryAt(q).frame # MetaFrame(EntryAt(p).frame.stream)
    BY DEF OpenThrows, MetaFrame
  <2>2. CASE EntryAt(p).frame.sqn = Meta
    BY <2>1, <2>2 DEF OnlyLastTorn
  <2>3. CASE EntryAt(p).frame.sqn # Meta
    <3>1. p[1] \in 1..Len(dirs) /\ p[2] \in 1..Capacity /\ p[2] <= Len(dirs[p[1]].entries)
      BY <2>1 DEF Walked
    <3>2. dirs[p[1]].entries \in Seq(Entry)
      BY <3>1, DirectoryParts DEF IInv
    <3>3. p[2] \in 1..Len(dirs[p[1]].entries)
      BY <3>1, <3>2, TraceFileAssumption
    <3>4. Preceded(p[1], p[2])
      BY <3>1, <3>3 DEF StreamInv, OrderInv
    <3>11. PICK c \in 1..Len(dirs) : \E j \in 1..Len(dirs[c].entries) :
             /\ c < p[1] \/ (c = p[1] /\ j < p[2])
             /\ dirs[c].entries[j].frame = MetaFrame(EntryAt(p).frame.stream)
      BY <2>3, <3>4 DEF Preceded, EntryAt
    <3>5. PICK j \in 1..Len(dirs[c].entries) :
             /\ c < p[1] \/ (c = p[1] /\ j < p[2])
             /\ dirs[c].entries[j].frame = MetaFrame(EntryAt(p).frame.stream)
      BY <3>11
    <3>6. dirs[c].entries \in Seq(Entry) /\ Len(dirs[c].entries) < Capacity
      BY DirectoryParts DEF IInv
    <3>7. j \in 1..Capacity /\ j <= Len(dirs[c].entries) /\ dirs[c].entries # <<>>
      BY <3>5, <3>6, TraceFileAssumption
    <3>8. Linked(c) /\ header.directoryCount > 0
      BY <3>7 DEF IInv, DirInv
    <3>9. <<c, j>> \in Walked
      BY <3>7, <3>8 DEF Walked, Linked
    <3>10. Before(<<c, j>>, p) /\ EntryAt(<<c, j>>).frame = MetaFrame(EntryAt(p).frame.stream)
      BY <3>5 DEF Before, EntryAt
    <3> QED
      BY <2>1, <2>3, <3>9, <3>10
  <2> QED
    BY <2>2, <2>3
<1> QED
  BY <1>1, Inductive, Order, Damage, PTL

-----------------------------------------------------------------------------
(* A store that is marked clean: what its header counts.                   *)

\* The directories are in the table, or the bound the code checks is not
\* beyond the end of the table.
Fits == header.directoryCount <= TableSize \/ Capacity <= TableSize

\* The header counts what is there.
Sound == ~crashed /\ Fits

\* The flag is set before the first write of a commit and reset after all others.
DirtyInv == \A t \in Threads : pc[t] # "idle" => header.dirty

\* A directory is counted when it is entered in the table ...
TableInv ==
    /\ (\A t \in Threads : pc[t] # "table") => header.directoryCount = Len(dirs)
    /\ \A t \in Threads : pc[t] = "table" => header.directoryCount + 1 = Len(dirs)

\* The entries of all directories, linked or not
Slots == {p \in (1..Len(dirs)) \X (1..Capacity) : p[2] <= Len(dirs[p[1]].entries)}

\* ... and an entry when it is complete.
FrameInv ==
    /\ (\A t \in Threads : pc[t] \notin {"offset", "account"}) =>
           header.frameCount = Cardinality(Slots)
    /\ \A t \in Threads : pc[t] \in {"offset", "account"} =>
           header.frameCount + 1 = Cardinality(Slots)

\* All directories are linked, except while one is added.
ChainInv ==
    (\A t \in Threads : pc[t] \notin {"table", "marker", "link"}) => Linked(Len(dirs))

\* Nothing follows the last directory.
EndInv == Len(dirs) > 0 => dirs[Len(dirs)].link = "none"

\* An entry leads to a complete frame, except while its offset is missing.
AllRead ==
    \A d \in 1..Len(dirs) : \A i \in 1..Len(dirs[d].entries) : Readable(dirs[d].entries[i])

ReadInv == (\A t \in Threads : pc[t] # "offset") => AllRead

CountInv ==
    Sound => DirtyInv /\ TableInv /\ FrameInv /\ ChainInv /\ EndInv /\ ReadInv

\* The header changes field by field.
LEMMA HeaderSteps ==
    ASSUME NEW h \in Header
    PROVE  /\ h.frameCount \in Nat /\ h.directoryCount \in Nat
           /\ \A b \in BOOLEAN : LET g == [h EXCEPT !.dirty = b] IN
                g.dirty = b /\ g.frameCount = h.frameCount /\ g.directoryCount = h.directoryCount
           /\ LET g == [h EXCEPT !.signed = TRUE] IN
                g.dirty = h.dirty /\ g.frameCount = h.frameCount /\ g.directoryCount = h.directoryCount
           /\ LET g == [h EXCEPT !.frameCount = @ + 1] IN
                g.dirty = h.dirty /\ g.frameCount = h.frameCount + 1
                /\ g.directoryCount = h.directoryCount
           /\ \A b : LET g == [h EXCEPT !.directoryCount = @ + 1, !.dirty = b] IN
                g.dirty = b /\ g.frameCount = h.frameCount
                /\ g.directoryCount = h.directoryCount + 1
BY DEF Header

\* What a step does to the header
HeaderStep ==
    /\ \/ header'.dirty = header.dirty \/ header'.dirty = TRUE
       \/ \A t \in Threads : pc'[t] = "idle"
    /\ header'.frameCount = header.frameCount
    /\ header'.directoryCount = header.directoryCount

\* The steps that neither count a frame nor a directory
LEMMA HeaderStays ==
    ASSUME TypeOK, [Next]_vars,
           \A t \in Threads : ~EnterInTable(t) /\ ~Account(t)
    PROVE  HeaderStep
<1>1. header \in Header
  BY DEF TypeOK
<1>2. CASE header' = header
  BY <1>2 DEF HeaderStep
<1>3. CASE MarkDirty
  BY <1>1, <1>3, HeaderSteps DEF HeaderStep, MarkDirty
<1>4. CASE InitializeHeader
  BY <1>1, <1>4, HeaderSteps DEF HeaderStep, InitializeHeader
<1>5. CASE SignHeader
  BY <1>1, <1>5, HeaderSteps DEF HeaderStep, SignHeader
<1>6. CASE CloseStore
  BY <1>1, <1>6, HeaderSteps DEF HeaderStep, CloseStore, FinalizeHeader
<1>7. \/ header' = header \/ MarkDirty \/ InitializeHeader \/ SignHeader \/ CloseStore
  BY DEF Next, vars, CreateFile, OpenStore, Crash, file, Begin, Commit, Reserve, WriteHeader,
     WriteData, Lock, HasRoom, ReserveDirectory, MarkLink, Link, MapDirectory, CopyHeader,
     SetOffset, Fail
<1> QED
  BY <1>2, <1>3, <1>4, <1>5, <1>6, <1>7

\* The step that counts a directory
LEMMA TableStep ==
    ASSUME TypeOK, NEW t \in Threads, EnterInTable(t)
    PROVE  /\ header'.frameCount = header.frameCount
           /\ header'.directoryCount = header.directoryCount + 1
           /\ Fits' => header'.dirty = header.dirty
<1>1. header \in Header
  BY DEF TypeOK
<1>2. PICK byte \in BOOLEAN :
         header' = [header EXCEPT
             !.directoryCount = @ + 1,
             !.dirty = IF /\ header.directoryCount = TableSize
                          /\ header.directoryCount < Capacity
                       THEN byte ELSE @]
  BY DEF EnterInTable
<1> DEFINE b == IF header.directoryCount = TableSize /\ header.directoryCount < Capacity
                THEN byte ELSE header.dirty
<1>3. header' = [header EXCEPT !.directoryCount = @ + 1, !.dirty = b]
  BY <1>2
<1>4. /\ header'.dirty = b /\ header'.frameCount = header.frameCount
      /\ header'.directoryCount = header.directoryCount + 1
      /\ header.directoryCount \in Nat
  <2> HIDE DEF b
  <2> QED
    BY <1>1, <1>3, HeaderSteps
<1>5. Fits' => b = header.dirty
  BY <1>4, TraceFileAssumption DEF Fits
<1> QED
  BY <1>4, <1>5

\* The step that counts a frame
LEMMA CountStep ==
    ASSUME TypeOK, NEW t \in Threads, Account(t)
    PROVE  /\ header'.frameCount = header.frameCount + 1
           /\ header'.directoryCount = header.directoryCount
           /\ header'.dirty = header.dirty
BY HeaderSteps DEF TypeOK, Account, CountFrame

\* What is sound has been so, and no thread works when the process dies.
LEMMA SoundBefore ==
    ASSUME IInv, CountInv, [Next]_vars, Sound'
    PROVE  /\ Sound
           /\ Crash => \A t \in Threads : pc[t] = "idle"
<1>1. header.directoryCount \in Nat
  BY DEF IInv, TypeOK, Header
<1>2. header'.directoryCount = header.directoryCount
      \/ header'.directoryCount = header.directoryCount + 1
  BY HeaderStays, TableStep, CountStep DEF HeaderStep, IInv
<1>3. Fits
  BY <1>1, <1>2, TraceFileAssumption DEF Sound, Fits
<1>4. ~crashed
  <2>1. crashed' = crashed \/ crashed' = (crashed \/ header.dirty)
    BY DEF Next, vars, CreateFile, InitializeHeader, SignHeader, CloseStore, FinalizeHeader,
     OpenStore, Crash, file, Begin, Commit, Reserve, WriteHeader,
     WriteData, Lock, HasRoom, ReserveDirectory, EnterInTable, MarkLink, Link, LinkDirectory,
     MapDirectory, CopyHeader, SetOffset, Account, Fail
  <2> QED
    BY <2>1 DEF Sound
<1>5. Crash => ~header.dirty
  BY DEF Crash, Sound
<1> QED
  BY <1>3, <1>4, <1>5 DEF Sound, CountInv, DirtyInv

\* A step that adds no entry leaves the slots as they are.
LEMMA SlotsStay ==
    ASSUME IInv, NoEntry PROVE Slots' = Slots
<1>1. ASSUME NEW p, p \in Slots PROVE p \in Slots'
  <2>1. p \in (1..Len(dirs)) \X (1..Capacity) /\ p[2] <= Len(dirs[p[1]].entries)
    BY <1>1 DEF Slots
  <2>2. p[1] \in 1..Len(dirs') /\ p \in (1..Len(dirs')) \X (1..Capacity)
        /\ Len(dirs'[p[1]].entries) = Len(dirs[p[1]].entries)
    BY <2>1 DEF NoEntry
  <2> QED
    BY <2>1, <2>2 DEF Slots
<1>2. ASSUME NEW p, p \in Slots' PROVE p \in Slots
  <2>1. p \in (1..Len(dirs')) \X (1..Capacity) /\ p[2] <= Len(dirs'[p[1]].entries)
    BY <1>2 DEF Slots
  <2>2. p[1] \in 1..Len(dirs') /\ p[2] \in 1..Capacity
    BY <2>1
  <2>3. p[1] <= Len(dirs)
    BY <2>1, <2>2, TraceFileAssumption DEF NoEntry
  <2>4. p \in (1..Len(dirs)) \X (1..Capacity)
        /\ Len(dirs'[p[1]].entries) = Len(dirs[p[1]].entries)
    BY <2>1, <2>2, <2>3 DEF NoEntry
  <2> QED
    BY <2>1, <2>4 DEF Slots
<1> QED
  BY <1>1, <1>2

\* There are finitely many slots.
LEMMA SlotsFinite ==
    ASSUME TypeOK PROVE IsFiniteSet(Slots) /\ Cardinality(Slots) \in Nat
<1>1. IsFiniteSet(1..Len(dirs)) /\ IsFiniteSet(1..Capacity)
  BY FS_Interval, TraceFileAssumption DEF TypeOK
<1>2. IsFiniteSet((1..Len(dirs)) \X (1..Capacity))
  BY <1>1, FS_Product
<1>3. Slots \in SUBSET ((1..Len(dirs)) \X (1..Capacity))
  BY DEF Slots
<1> QED
  BY <1>2, <1>3, FS_Subset, FS_CardinalityType

\* The entry of a frame takes one slot.
LEMMA SlotTaken ==
    ASSUME IInv, NEW t \in Threads, CopyHeader(t)
    PROVE  Cardinality(Slots') = Cardinality(Slots) + 1
<1> DEFINE n == Len(dirs[mapped].entries)
<1>1. /\ mapped \in 1..Len(dirs) /\ n \in Nat /\ n < Capacity - 1
      /\ Len(dirs') = Len(dirs)
      /\ \A d \in 1..Len(dirs) : d # mapped => dirs'[d] = dirs[d]
      /\ Len(dirs'[mapped].entries) = n + 1
  BY EntryCopied
<1> DEFINE new == <<mapped, n + 1>>
<1>2. new \notin Slots
  BY <1>1 DEF Slots
<1>3. new \in (1..Len(dirs)) \X (1..Capacity)
  BY <1>1, TraceFileAssumption
<1>4. ASSUME NEW p \in (1..Len(dirs)) \X (1..Capacity)
      PROVE  p[2] <= Len(dirs'[p[1]].entries) <=> p[2] <= Len(dirs[p[1]].entries) \/ p = new
  <2>1. p[1] \in 1..Len(dirs) /\ p[2] \in 1..Capacity /\ p = <<p[1], p[2]>>
    OBVIOUS
  <2>2. CASE p[1] # mapped
    BY <1>1, <2>1, <2>2
  <2>3. CASE p[1] = mapped
    <3>1. p[2] <= n + 1 <=> p[2] <= n \/ p[2] = n + 1
      BY <1>1, <2>1, TraceFileAssumption
    <3> QED
      BY <1>1, <2>1, <2>3, <3>1
  <2> QED
    BY <2>2, <2>3
<1>5. Slots' = Slots \cup {new}
  <2> HIDE DEF new
  <2> QED
    BY <1>1, <1>3, <1>4 DEF Slots
<1>6. IsFiniteSet(Slots) /\ Cardinality(Slots) \in Nat
  BY SlotsFinite DEF IInv
<1> HIDE DEF new
<1> QED
  BY <1>2, <1>5, <1>6, FS_AddElement

\* The steps that add no entry
LEMMA NoEntryStep ==
    ASSUME IInv, [Next]_vars, \A t \in Threads : ~CopyHeader(t)
    PROVE  NoEntry
<1>1. dirs' = dirs \/ \E t \in Threads : Commit(t)
  BY DEF Next, vars, CreateFile, InitializeHeader, SignHeader, OpenStore, CloseStore, Crash,
     file, Begin, Fail
<1> QED
  BY <1>1, CommitNoEntry, SameDirs DEF IInv

\* How the number of directories changes
LEMMA DirsCount ==
    ASSUME IInv, [Next]_vars
    PROVE  /\ Len(dirs') = Len(dirs) \/ \E t \in Threads : ReserveDirectory(t)
           /\ \A t \in Threads : ReserveDirectory(t) => Len(dirs') = Len(dirs) + 1
           /\ Len(dirs) \in Nat
<1>1. ASSUME NEW t \in Threads, ReserveDirectory(t) PROVE Len(dirs') = Len(dirs) + 1
  BY <1>1, DirectoryAdded DEF IInv
<1>2. ASSUME NEW t \in Threads, CopyHeader(t) \/ SetOffset(t) \/ MarkLink(t) \/ Link(t)
      PROVE  Len(dirs') = Len(dirs)
  <2>1. CASE CopyHeader(t)
    BY <2>1, EntryCopied
  <2>2. CASE SetOffset(t)
    BY <2>2, OffsetSet
  <2>3. CASE MarkLink(t) \/ Link(t)
    BY <2>3, LinkSet DEF MarkLink, Link, LinkDirectory, IInv
  <2> QED
    BY <1>2, <2>1, <2>2, <2>3
<1>3. dirs' = dirs
      \/ \E t \in Threads : ReserveDirectory(t) \/ CopyHeader(t) \/ SetOffset(t) \/ MarkLink(t) \/ Link(t)
  BY DEF Next, vars, CreateFile, InitializeHeader, SignHeader, OpenStore, CloseStore, Crash,
     file, Begin, Fail, Commit, Reserve, WriteHeader, WriteData, Lock, HasRoom, EnterInTable,
     MapDirectory, Account
<1>4. Len(dirs) \in Nat
  BY DEF IInv, TypeOK
<1> QED
  BY <1>1, <1>2, <1>3, <1>4

\* Where a thread goes, and by which step
Moves(u) ==
    \/ pc'[u] = pc[u]
    \/ Crash /\ pc'[u] = "idle"
    \/ Fail(u) /\ pc[u] \in {"reserve", "header", "data", "directory"} /\ pc'[u] = "idle"
    \/ (\E f \in Frames : Begin(u, f)) /\ pc[u] = "idle" /\ pc'[u] = "reserve"
    \/ /\ pc[u] \in {"reserve", "header", "data", "lock", "directory", "marker", "link", "map"}
       /\ pc'[u] \in {"header", "data", "lock", "directory", "entry", "link", "map"}
    \/ ReserveDirectory(u) /\ pc[u] = "directory" /\ pc'[u] = "table"
    \/ EnterInTable(u) /\ pc[u] = "table" /\ pc'[u] = "marker"
    \/ CopyHeader(u) /\ pc[u] = "entry" /\ pc'[u] = "offset"
    \/ SetOffset(u) /\ pc[u] = "offset" /\ pc'[u] = "account"
    \/ Account(u) /\ pc[u] = "account" /\ pc'[u] = "idle"

\* Where a thread goes with a step
LEMMA ThreadMoves ==
    ASSUME IInv, ~MapsMayFail, [Next]_vars, NEW u \in Threads
    PROVE  Moves(u)
<1>0. pc \in [Threads -> Steps]
  BY DEF IInv, TypeOK
<1>1. CASE pc' = pc
  BY <1>1 DEF Moves
<1>2. CASE Crash
  BY <1>2 DEF Moves, Crash
<1>3. ASSUME NEW t \in Threads, t # u, NEW s \in Steps, Goto(t, s) PROVE Moves(u)
  BY <1>0, <1>3 DEF Moves, Goto
<1>4. ASSUME NEW t \in Threads, (\E f \in Frames : Begin(t, f)) \/ Commit(t) \/ Fail(t)
      PROVE  \E s \in Steps : Goto(t, s)
  BY <1>4 DEF Commit, Begin, Fail, Reserve, WriteHeader, WriteData, Lock, HasRoom,
     ReserveDirectory, EnterInTable, MarkLink, Link, MapDirectory, CopyHeader, SetOffset,
     Account, Steps
<1>5. ASSUME NEW f \in Frames, Begin(u, f) PROVE Moves(u)
  BY <1>0, <1>5 DEF Begin, Goto, Moves
<1>6. CASE Fail(u)
  BY <1>0, <1>6 DEF Fail, Goto, Moves
<1>7. CASE Commit(u)
  <2>1. CASE Reserve(u) \/ WriteHeader(u) \/ WriteData(u) \/ Lock(u) \/ HasRoom(u)
    BY <1>0, <2>1 DEF Reserve, WriteHeader, WriteData, Lock, Written, HasRoom, Goto, Moves
  <2>2. CASE MarkLink(u) \/ Link(u) \/ MapDirectory(u)
    BY <1>0, <2>2 DEF MarkLink, Link, LinkDirectory, MapDirectory, Goto, Moves
  <2>3. CASE ReserveDirectory(u) \/ EnterInTable(u)
    BY <1>0, <2>3 DEF ReserveDirectory, EnterInTable, Goto, Moves
  <2>4. CASE CopyHeader(u) \/ SetOffset(u) \/ Account(u)
    BY <1>0, <2>4 DEF CopyHeader, SetOffset, Account, Goto, Moves
  <2> QED
    BY <1>7, <2>1, <2>2, <2>3, <2>4 DEF Commit
<1>8. \/ pc' = pc \/ Crash
      \/ \E t \in Threads : (\E f \in Frames : Begin(t, f)) \/ Commit(t) \/ Fail(t)
  BY DEF Next, vars, CreateFile, InitializeHeader, SignHeader, OpenStore, CloseStore, FinalizeHeader
<1>9. ASSUME NEW t \in Threads, (\E f \in Frames : Begin(t, f)) \/ Commit(t) \/ Fail(t)
      PROVE  Moves(u)
  <2>1. CASE t = u
    BY <1>5, <1>6, <1>7, <1>9, <2>1
  <2>2. CASE t # u
    BY <1>3, <1>4, <1>9, <2>2
  <2> QED
    BY <2>1, <2>2
<1> QED
  BY <1>1, <1>2, <1>8, <1>9

\* While a thread has the lock the others are not behind it.
LEMMA OthersStay ==
    ASSUME IInv, NEW t \in Threads, NEW u \in Threads, u # t,
           ReserveDirectory(t) \/ EnterInTable(t) \/ CopyHeader(t) \/ SetOffset(t) \/ Account(t)
    PROVE  pc'[u] = pc[u] /\ pc[u] \notin Locked
<1>1. pc[t] \in Locked
  BY DEF ReserveDirectory, EnterInTable, CopyHeader, SetOffset, Account, Locked
<1>2. \E s : Goto(t, s)
  BY DEF ReserveDirectory, EnterInTable, CopyHeader, SetOffset, Account
<1> QED
  BY <1>1, <1>2, Alone DEF Goto, IInv, TypeOK

\* A thread sets the dirty flag before it works.
LEMMA DirtyKept ==
    ASSUME IInv, ~MapsMayFail, [Next]_vars, DirtyInv, Fits' PROVE DirtyInv'
<1> SUFFICES ASSUME NEW u \in Threads, pc'[u] # "idle" PROVE header'.dirty
  BY DEF DirtyInv
<1>1. header'.dirty = header.dirty \/ header'.dirty = TRUE
  BY HeaderStays, TableStep, CountStep DEF HeaderStep, IInv
<1>2. CASE \E f \in Frames : Begin(u, f)
  BY <1>2, HeaderSteps DEF Begin, MarkDirty, IInv, TypeOK
<1>3. CASE pc[u] # "idle"
  BY <1>1, <1>3 DEF DirtyInv
<1>4. Moves(u)
  BY ThreadMoves
<1> QED
  BY <1>2, <1>3, <1>4 DEF Moves

\* The header counts a directory when the table has it.
LEMMA TableKept ==
    ASSUME IInv, ~MapsMayFail, [Next]_vars, TableInv,
           Crash => \A t \in Threads : pc[t] = "idle"
    PROVE  TableInv'
<1>1. header.directoryCount \in Nat /\ Len(dirs) \in Nat
  BY DirsCount, HeaderSteps DEF IInv, TypeOK
<1>2. CASE \E t \in Threads : ReserveDirectory(t)
  <2>1. PICK t \in Threads : ReserveDirectory(t)
    BY <1>2
  <2>2. Len(dirs') = Len(dirs) + 1
    BY <2>1, DirsCount
  <2>3. \A u \in Threads : pc[u] # "table"
    BY <2>1, OthersStay DEF ReserveDirectory, Locked
  <2>4. header'.directoryCount = header.directoryCount
    BY <2>1, HeaderSteps DEF ReserveDirectory, MarkDirty, IInv, TypeOK
  <2>5. pc'[t] = "table"
    BY <2>1, Moved DEF ReserveDirectory, IInv, Steps
  <2> QED
    BY <1>1, <2>2, <2>3, <2>4, <2>5 DEF TableInv
<1>3. CASE \E t \in Threads : EnterInTable(t)
  <2>1. PICK t \in Threads : EnterInTable(t)
    BY <1>3
  <2>2. dirs' = dirs /\ pc[t] = "table"
    BY <2>1 DEF EnterInTable
  <2>3. header'.directoryCount = header.directoryCount + 1
    BY <2>1, TableStep DEF IInv
  <2>4. pc'[t] = "marker"
    BY <2>1, Moved DEF EnterInTable, IInv, Steps
  <2>5. \A u \in Threads : pc'[u] # "table"
    BY <2>1, <2>4, OthersStay DEF Locked
  <2> QED
    BY <1>1, <2>2, <2>3, <2>5 DEF TableInv
<1>4. CASE \A t \in Threads : ~ReserveDirectory(t) /\ ~EnterInTable(t)
  <2>1. Len(dirs') = Len(dirs)
    BY <1>4, DirsCount
  <2>2. header'.directoryCount = header.directoryCount
    BY <1>4, HeaderStays, CountStep DEF HeaderStep, IInv
  <2>3. \A u \in Threads : pc'[u] = "table" <=> pc[u] = "table"
    BY <1>4, ThreadMoves DEF Moves
  <2> QED
    BY <2>1, <2>2, <2>3 DEF TableInv
<1> QED
  BY <1>2, <1>3, <1>4

\* The header counts a frame when its entry is written.
LEMMA FramesKept ==
    ASSUME IInv, ~MapsMayFail, [Next]_vars, FrameInv,
           Crash => \A t \in Threads : pc[t] = "idle"
    PROVE  FrameInv'
<1>1. header.frameCount \in Nat /\ Cardinality(Slots) \in Nat
  BY HeaderSteps, SlotsFinite DEF IInv, TypeOK
<1>2. CASE \E t \in Threads : CopyHeader(t)
  <2>1. PICK t \in Threads : CopyHeader(t)
    BY <1>2
  <2>2. Cardinality(Slots') = Cardinality(Slots) + 1
    BY <2>1, SlotTaken
  <2>3. \A u \in Threads : pc[u] \notin {"offset", "account"}
    BY <2>1, OthersStay DEF CopyHeader, Locked
  <2>4. header' = header
    BY <2>1 DEF CopyHeader
  <2>5. pc'[t] = "offset"
    BY <2>1, Moved DEF CopyHeader, IInv, Steps
  <2> QED
    BY <1>1, <2>2, <2>3, <2>4, <2>5 DEF FrameInv
<1>3. CASE \E t \in Threads : Account(t)
  <2>1. PICK t \in Threads : Account(t)
    BY <1>3
  <2>2. Slots' = Slots /\ pc[t] = "account"
    BY <2>1 DEF Account, Slots
  <2>3. header'.frameCount = header.frameCount + 1
    BY <2>1, CountStep DEF IInv
  <2>4. pc'[t] = "idle"
    BY <2>1, Moved DEF Account, IInv, Steps
  <2>5. \A u \in Threads : pc'[u] \notin {"offset", "account"}
    BY <2>1, <2>4, OthersStay DEF Locked
  <2> QED
    BY <1>1, <2>2, <2>3, <2>5 DEF FrameInv
<1>4. CASE \A t \in Threads : ~CopyHeader(t) /\ ~Account(t)
  <2>1. Slots' = Slots
    BY <1>4, NoEntryStep, SlotsStay
  <2>2. header'.frameCount = header.frameCount
    BY <1>4, HeaderStays, TableStep DEF HeaderStep, IInv
  <2>3. \A u \in Threads : pc'[u] \in {"offset", "account"} <=> pc[u] \in {"offset", "account"}
    BY <1>4, ThreadMoves DEF Moves
  <2> QED
    BY <2>1, <2>2, <2>3 DEF FrameInv
<1> QED
  BY <1>2, <1>3, <1>4

\* A step after which no thread works
LEMMA AllLeave ==
    ASSUME IInv, ~MapsMayFail, [Next]_vars, \A u \in Threads : pc'[u] = "idle",
           Crash => \A t \in Threads : pc[t] = "idle"
    PROVE  /\ dirs' = dirs /\ frames' = frames
           /\ \A u \in Threads : pc[u] \notin {"table", "marker", "link", "offset"}
<1>1. \A u \in Threads : pc[u] \notin {"table", "marker", "link", "offset"}
  BY ThreadMoves DEF Moves
<1>2. ASSUME NEW t \in Threads, Commit(t), ~Account(t) PROVE FALSE
  <2>1. \E s \in Steps \ {"idle"} : Goto(t, s)
    BY <1>2 DEF Commit, Reserve, WriteHeader, WriteData, Lock, HasRoom, ReserveDirectory,
       EnterInTable, MarkLink, Link, MapDirectory, CopyHeader, SetOffset, Steps
  <2> QED
    BY <2>1, Moved DEF IInv
<1>3. dirs' = dirs /\ frames' = frames
  BY <1>2 DEF Next, vars, CreateFile, InitializeHeader, SignHeader, OpenStore, CloseStore,
     FinalizeHeader, Crash, file, Begin, Fail, Account
<1> QED
  BY <1>1, <1>3

\* A new directory is linked before the thread leaves the lock.
LEMMA ChainKept ==
    ASSUME IInv, IInv', ~MapsMayFail, [Next]_vars, ChainInv, ReadInv,
           Crash => \A t \in Threads : pc[t] = "idle"
    PROVE  ChainInv' /\ ReadInv'
<1>1. CASE \A u \in Threads : pc'[u] = "idle"
  <2>1. /\ dirs' = dirs /\ frames' = frames
        /\ \A u \in Threads : pc[u] \notin {"table", "marker", "link", "offset"}
    BY <1>1, AllLeave
  <2>2. Linked(Len(dirs)) /\ AllRead
    BY <2>1 DEF ChainInv, ReadInv
  <2>3. Linked(Len(dirs))' /\ AllRead'
    BY <2>1, <2>2 DEF Linked, AllRead, Readable
  <2> QED
    BY <2>3 DEF ChainInv, ReadInv
<1>2. CASE \E u \in Threads : pc'[u] # "idle"
  <2>5. DirInv'
    BY DEF IInv
  <2>1. Writing'
    BY <1>2 DEF Writing
  <2>2. ReadInv'
    BY <2>1 DEF ReadInv, AllRead, IInv, EntryInv
  <2>3. CASE \E u \in Threads : pc'[u] = "map"
    <3>1. PICK u \in Threads : pc'[u] = "map"
      BY <2>3
    <3>2. Linked(Len(dirs))'
      BY <3>1, <2>5 DEF DirInv
    <3> QED
      BY <2>2, <3>2 DEF ChainInv
  <2>4. CASE \A u \in Threads : pc'[u] # "map"
    <3> SUFFICES ASSUME \A t \in Threads : pc'[t] \notin {"table", "marker", "link"}
                 PROVE  Linked(Len(dirs))'
      BY <2>2 DEF ChainInv
    <3>1. \A t \in Threads : pc'[t] \notin Adding
      BY <2>4 DEF Adding
    <3> QED
      BY <2>1, <3>1, <2>5 DEF DirInv
  <2> QED
    BY <2>2, <2>3, <2>4
<1> QED
  BY <1>1, <1>2

\* The last directory has no link yet.
LEMMA EndKept ==
    ASSUME IInv, [Next]_vars, EndInv PROVE EndInv'
<1>1. dirs \in Seq(Directory) /\ Len(dirs) \in Nat
  BY DEF IInv, TypeOK
<1>2. CASE dirs' = dirs
  BY <1>2 DEF EndInv
<1>3. ASSUME NEW t \in Threads, ReserveDirectory(t) PROVE EndInv'
  <2> DEFINE new == [entries |-> <<>>, link |-> "none"]
  <2>1. new.link = "none"
    OBVIOUS
  <2>2. dirs' = Append(dirs, new)
    BY <1>3 DEF ReserveDirectory
  <2> HIDE DEF new
  <2>3. Len(dirs') = Len(dirs) + 1 /\ dirs'[Len(dirs) + 1] = new
    BY <1>1, <2>2
  <2> QED
    BY <2>1, <2>3 DEF EndInv
<1>4. ASSUME NEW t \in Threads, MarkLink(t) \/ Link(t) PROVE EndInv'
  <2>1. /\ Len(dirs') = Len(dirs)
        /\ \A d \in 1..Len(dirs) : d # mapped => dirs'[d].link = dirs[d].link
    BY <1>4, LinkSet DEF MarkLink, Link, LinkDirectory, IInv
  <2>2. mapped = Len(dirs) - 1 /\ Len(dirs) > 0
    BY <1>4 DEF MarkLink, Link, LinkDirectory, Adding, IInv, DirInv
  <2> QED
    BY <1>1, <2>1, <2>2 DEF EndInv
<1>5. ASSUME NEW t \in Threads, CopyHeader(t) \/ SetOffset(t) PROVE EndInv'
  <2>1. /\ Len(dirs') = Len(dirs)
        /\ \A d \in 1..Len(dirs) : dirs'[d].link = dirs[d].link
    BY <1>5, EntryCopied, OffsetSet
  <2> QED
    BY <1>1, <2>1 DEF EndInv
<1>6. dirs' = dirs
      \/ \E t \in Threads : ReserveDirectory(t) \/ CopyHeader(t) \/ SetOffset(t) \/ MarkLink(t) \/ Link(t)
  BY DEF Next, vars, CreateFile, InitializeHeader, SignHeader, OpenStore, CloseStore, Crash,
     file, Begin, Fail, Commit, Reserve, WriteHeader, WriteData, Lock, HasRoom, EnterInTable,
     MapDirectory, Account
<1> QED
  BY <1>2, <1>3, <1>4, <1>5, <1>6

\* Every step keeps the counts.
LEMMA CountKept ==
    ASSUME IInv, IInv', ~MapsMayFail, CountInv, [Next]_vars PROVE CountInv'
<1> SUFFICES ASSUME Sound'
             PROVE  DirtyInv' /\ TableInv' /\ FrameInv' /\ ChainInv' /\ EndInv' /\ ReadInv'
  BY DEF CountInv
<1>1. Sound /\ (Crash => \A t \in Threads : pc[t] = "idle")
  BY SoundBefore
<1>2. DirtyInv /\ TableInv /\ FrameInv /\ ChainInv /\ EndInv /\ ReadInv
  BY <1>1 DEF CountInv
<1>3. Fits'
  BY DEF Sound
<1>4. DirtyInv'
  BY <1>2, <1>3, DirtyKept
<1>5. TableInv'
  BY <1>1, <1>2, TableKept
<1>6. FrameInv'
  BY <1>1, <1>2, FramesKept
<1>7. ChainInv' /\ ReadInv'
  BY <1>1, <1>2, ChainKept
<1>8. EndInv'
  BY <1>2, EndKept
<1> QED
  BY <1>4, <1>5, <1>6, <1>7, <1>8

\* An empty store counts nothing.
LEMMA CountInit == ASSUME Init PROVE CountInv
<1>1. Slots = {}
  BY DEF Init, Slots
<1>2. Cardinality(Slots) = 0
  BY <1>1, FS_EmptySet
<1> QED
  BY <1>2 DEF Init, CountInv, DirtyInv, TableInv, FrameInv, ChainInv, EndInv, ReadInv, AllRead,
     Linked

\* The counts are kept, as long as directories can be mapped.
THEOREM Counting == ASSUME ~MapsMayFail PROVE Spec => []CountInv
<1>1. Init => CountInv
  BY CountInit
<1>2. IInv /\ IInv' /\ CountInv /\ [Next]_vars => CountInv'
  BY CountKept
<1> QED
  BY <1>1, <1>2, Inductive, PTL DEF Spec

\* A store that is not marked dirty was left by all threads: every directory is
\* linked, and the header counts the directories and the frames a reader finds
\* (_markDirty, _markClean, _addDirectory, _accountFrame).  Beyond the end of
\* the table the code overwrites the flag itself, hence Fits.
THEOREM CleanStores ==
    ASSUME ~MapsMayFail PROVE Spec => [](Fits => CleanIsConsistent)
<1>1. IInv /\ CountInv => (Fits => CleanIsConsistent)
  <2> SUFFICES ASSUME IInv, CountInv, Fits, ~header.dirty, ~crashed PROVE Consistent
    BY DEF CleanIsConsistent
  <2>1. DirtyInv /\ TableInv /\ FrameInv /\ ChainInv /\ EndInv /\ ReadInv
    BY DEF CountInv, Sound
  <2>2. \A t \in Threads : pc[t] = "idle"
    BY <2>1 DEF DirtyInv
  <2>3. /\ header.directoryCount = Len(dirs) /\ header.frameCount = Cardinality(Slots)
        /\ Linked(Len(dirs)) /\ AllRead
    BY <2>1, <2>2 DEF TableInv, FrameInv, ChainInv, ReadInv
  <2>4. Walked = Slots
    <3>1. ASSUME NEW p \in Slots PROVE p \in Walked
      <4>1. p \in (1..Len(dirs)) \X (1..Capacity) /\ p[2] <= Len(dirs[p[1]].entries)
        BY DEF Slots
      <4>2. p[1] \in 1..Len(dirs) /\ Len(dirs) \in Nat
        BY <4>1 DEF IInv, TypeOK
      <4> QED
        BY <2>3, <4>1, <4>2 DEF Walked, Linked
    <3> QED
      BY <3>1 DEF Walked, Slots
  <2>5. \A d \in DOMAIN dirs : dirs[d].link = IF d = Len(dirs) THEN "none" ELSE "next"
    <3>1. DOMAIN dirs = 1..Len(dirs) /\ Len(dirs) \in Nat
      BY DEF IInv, TypeOK
    <3> QED
      BY <2>1, <2>3, <3>1 DEF EndInv, Linked
  <2>6. ASSUME NEW p \in Walked PROVE Readable(EntryAt(p))
    <3>1. p[1] \in 1..Len(dirs) /\ p[2] \in 1..Capacity /\ p[2] <= Len(dirs[p[1]].entries)
      BY DEF Walked
    <3>2. p[2] \in 1..Len(dirs[p[1]].entries)
      BY <3>1, DirectoryParts, TraceFileAssumption DEF IInv
    <3> QED
      BY <2>3, <3>1, <3>2 DEF AllRead, EntryAt
  <2> QED
    BY <2>3, <2>4, <2>5, <2>6 DEF Consistent
<1> QED
  BY <1>1, Inductive, Counting, PTL

\* Until the process dies, and with a table that is long enough, the flag is set
\* while a frame is committed (_markDirty): the overwritten flag of a table that
\* is too short is the only exception.
THEOREM DirtyHolds ==
    ASSUME ~MapsMayFail PROVE Spec => [](Fits /\ ~crashed => DirtyWhileWriting)
<1>1. CountInv => (Fits /\ ~crashed => DirtyWhileWriting)
  BY DEF CountInv, Sound, DirtyInv, DirtyWhileWriting
<1> QED
  BY <1>1, Counting, PTL

=============================================================================
