------------------------------ MODULE TraceFile ------------------------------
(***************************************************************************)
(* class Simtrace3Store: the file of a trace.                              *)
(*                                                                         *)
(* Encoders of many threads commit frames.  A frame is written outside of  *)
(* any lock into space that is reserved atomically; then, under _fileLock, *)
(* an entry of the current directory makes it visible.  A full directory   *)
(* is linked to a new one by its last entry.  The header and the           *)
(* directories are mapped, so that every store into them is a change of    *)
(* the file: the process may die between any two of them, and what it has  *)
(* written so far stays.  A store that is opened is read only.             *)
(*                                                                         *)
(* The number of a frame or a directory stands for its offset; 0 is the    *)
(* offset of the header.                                                   *)
(***************************************************************************)
EXTENDS Integers, Sequences, FiniteSets

CONSTANTS
    Threads,        \* that encode segments or register streams
    Streams,
    Segments,       \* the sequence numbers of a stream
    Capacity,       \* header.directoryCapacity
    TableSize,      \* SIMTRACE_V3_DIRECTORY_TABLE_SIZE
    WritesMayFail,  \* the disk may be full
    MapsMayFail     \* the mapping of a new directory may fail

ASSUME TraceFileAssumption ==
    /\ Segments \subseteq Nat \ {0}
    /\ Capacity \in Nat /\ Capacity >= 2
    /\ TableSize \in Nat
    /\ WritesMayFail \in BOOLEAN /\ MapsMayFail \in BOOLEAN

Meta == 0       \* INVALID_STREAM_SEGMENT_ID, the number of a zero frame

Frames == [stream : Streams, sqn : Segments \cup {Meta}]

VARIABLES
    (* the file *)
    header,     \* its master header, flag and counters
    frames,     \* the frames in the order of their space
    dirs,       \* the directories in the order of their space
    (* the process *)
    mode,       \* of the store object
    readMode,   \* _readMode
    streams,    \* _streams, the registered streams
    mapped,     \* _directory, 0 is nullptr
    holder,     \* of _fileLock
    pc, work, offset,   \* of the calls of commitFrame
    view,       \* the locations an opened store has added to its streams
    (* history *)
    returned,   \* what commitFrame has returned to its callers
    crashed     \* the process died before it closed the store it wrote

file == <<header, frames, dirs>>
vars == <<header, frames, dirs, mode, readMode, streams, mapped, holder,
          pc, work, offset, view, returned, crashed>>

Steps == {"idle", "reserve", "header", "data", "lock", "directory", "table",
          "marker", "link", "map", "entry", "offset", "account"}

Locked == {"directory", "table", "marker", "link", "map", "entry", "offset", "account"}

Entry == [frame : Frames, offset : Nat]
Directory == [entries : Seq(Entry), link : {"none", "torn", "next"}]
Header == [signed : BOOLEAN, dirty : BOOLEAN, frameCount : Nat, directoryCount : Nat]

\* All variables have their types, and a directory never outgrows its
\* capacity, the last slot of which is for the link.
TypeOK ==
    /\ header \in Header
    /\ frames \in Seq([frame : Frames, written : {"none", "header", "all"}])
    /\ dirs \in Seq(Directory)
    /\ \A d \in DOMAIN dirs : Len(dirs[d].entries) < Capacity
    /\ mode \in {"absent", "created", "open", "closed"}
    /\ readMode \in BOOLEAN
    /\ streams \in SUBSET Streams
    /\ mapped \in 0..Len(dirs)
    /\ holder \in SUBSET Threads
    /\ pc \in [Threads -> Steps]
    /\ work \in [Threads -> SUBSET Frames]
    /\ offset \in [Threads -> Nat]
    /\ view \in SUBSET Entry
    /\ returned \in SUBSET Entry
    /\ crashed \in BOOLEAN

Init ==
    /\ header = [signed |-> FALSE, dirty |-> FALSE, frameCount |-> 0, directoryCount |-> 0]
    /\ frames = <<>>
    /\ dirs = <<>>
    /\ mode = "absent"
    /\ readMode = FALSE
    /\ streams = {}
    /\ mapped = 0
    /\ holder = {}
    /\ pc = [t \in Threads |-> "idle"]
    /\ work = [t \in Threads |-> {}]
    /\ offset = [t \in Threads |-> 0]
    /\ view = {}
    /\ returned = {}
    /\ crashed = FALSE

-----------------------------------------------------------------------------
(* What a reader finds: it starts at the first directory and follows the   *)
(* links.                                                                  *)

Walked ==
    {p \in (1..Len(dirs)) \X (1..Capacity) :
        /\ header.directoryCount > 0
        /\ p[2] <= Len(dirs[p[1]].entries)
        /\ \A e \in 1..(p[1] - 1) : dirs[e].link = "next"}

EntryAt(p) == dirs[p[1]].entries[p[2]]

Before(p, q) == p[1] < q[1] \/ (p[1] = q[1] /\ p[2] < q[2])

\* _readFrame at the offset of the entry finds the frame and its data.
Readable(e) ==
    /\ e.offset \in 1..Len(frames)
    /\ frames[e.offset].frame = e.frame
    /\ frames[e.offset].written = "all"

\* The zero frame is rejected, or the stream of a data frame is not found
OpenThrows ==
    \E p \in Walked :
        IF EntryAt(p).frame.sqn = Meta
        THEN ~Readable(EntryAt(p))
        ELSE \A q \in Walked :
                Before(q, p) => EntryAt(q).frame # [stream |-> EntryAt(p).frame.stream,
                                                    sqn |-> Meta]

-----------------------------------------------------------------------------
(* The life of the store                                                   *)

\* The file is created and its header reserved and mapped ...
CreateFile ==
    /\ mode = "absent"
    /\ mode' = "created"
    /\ UNCHANGED <<header, frames, dirs, readMode, streams, mapped, holder,
                   pc, work, offset, view, returned, crashed>>

\* ... it is marked dirty first ...
InitializeHeader ==
    /\ mode = "created" /\ ~header.dirty
    /\ header' = [header EXCEPT !.dirty = TRUE]
    /\ UNCHANGED <<frames, dirs, mode, readMode, streams, mapped, holder,
                   pc, work, offset, view, returned, crashed>>

\* ... and then gets its signature.
SignHeader ==
    /\ mode = "created" /\ header.dirty
    /\ header' = [header EXCEPT !.signed = TRUE]
    /\ mode' = "open"
    /\ UNCHANGED <<frames, dirs, readMode, streams, mapped, holder,
                   pc, work, offset, view, returned, crashed>>

\* _finalizeHeader in the destructor.  The last session has detached, and
\* detach waits for all segments; so no call is in progress.
FinalizeHeader ==
    /\ mode = "open"
    /\ \A t \in Threads : pc[t] = "idle"
    /\ header' = [header EXCEPT !.dirty = FALSE]

CloseStore ==
    /\ FinalizeHeader
    /\ mode' = "closed"
    /\ readMode' = FALSE
    /\ streams' = {} /\ mapped' = 0 /\ view' = {}
    /\ UNCHANGED <<frames, dirs, holder, pc, work, offset, returned, crashed>>

\* The provider has checked the signature.  If _openStore throws there is no
\* store object, and nothing has changed.
OpenStore ==
    /\ mode = "closed"
    /\ header.signed
    /\ ~OpenThrows
    /\ mode' = "open"
    /\ readMode' = TRUE
    /\ LET found == {EntryAt(p) : p \in Walked}
       IN  /\ streams' = {e.frame.stream : e \in {x \in found : x.frame.sqn = Meta}}
           /\ view' = {e \in found : e.frame.sqn # Meta}
    /\ mapped' = Len(dirs)
    /\ UNCHANGED <<file, holder, pc, work, offset, returned, crashed>>

\* The process dies.
Crash ==
    /\ mode \in {"created", "open"}
    /\ mode' = "closed"
    /\ readMode' = FALSE
    /\ streams' = {} /\ mapped' = 0 /\ view' = {} /\ holder' = {}
    /\ pc' = [t \in Threads |-> "idle"]
    /\ work' = [t \in Threads |-> {}]
    /\ offset' = [t \in Threads |-> 0]
    /\ crashed' = (crashed \/ header.dirty)
    /\ UNCHANGED <<file, returned>>

-----------------------------------------------------------------------------
(* commitFrame, a step at a time                                           *)

Goto(t, step) == pc' = [pc EXCEPT ![t] = step]

MarkDirty == header' = [header EXCEPT !.dirty = TRUE]

Submitted == UNION {work[t] : t \in Threads} \cup {frames[o].frame : o \in DOMAIN frames}

\* Variant: a stream can be used as soon as its registration has begun.
SubmittableEarly(f) ==
    /\ f \notin Submitted
    /\ f.sqn # Meta =>
         [stream |-> f.stream, sqn |-> Meta] \in UNION {work[t] : t \in Threads}
         \/ f.stream \in streams
    /\ f.sqn = Meta => \A t \in Threads : \A g \in work[t] : g.sqn # Meta

\* A stream is registered under the lock of the store and published when its
\* zero frame is committed.  A segment is encoded once.
Submittable(f) ==
    /\ f \notin Submitted
    /\ IF f.sqn = Meta
       THEN /\ f.stream \notin streams
            /\ \A t \in Threads : \A g \in work[t] : g.sqn # Meta
       ELSE f.stream \in streams

\* The caller has passed the check of _readMode.  It marks the store dirty, and
\* so do _writeFrame, _addFrameToDirectory and _addDirectory.
Begin(t, f) ==
    /\ mode = "open" /\ ~readMode
    /\ pc[t] = "idle"
    /\ Submittable(f)
    /\ work' = [work EXCEPT ![t] = {f}]
    /\ MarkDirty
    /\ Goto(t, "reserve")
    /\ UNCHANGED <<frames, dirs, mode, readMode, streams, mapped, holder,
                   offset, view, returned, crashed>>

\* File::commitSpace
Reserve(t) ==
    /\ pc[t] = "reserve"
    /\ \E f \in work[t] :
         frames' = Append(frames, [frame |-> f, written |-> "none"])
    /\ offset' = [offset EXCEPT ![t] = Len(frames) + 1]
    /\ MarkDirty
    /\ Goto(t, "header")
    /\ UNCHANGED <<dirs, mode, readMode, streams, mapped, holder,
                   work, view, returned, crashed>>

WriteHeader(t) ==
    /\ pc[t] = "header"
    /\ frames' = [frames EXCEPT ![offset[t]].written = "header"]
    /\ Goto(t, "data")
    /\ UNCHANGED <<header, dirs, mode, readMode, streams, mapped, holder,
                   work, offset, view, returned, crashed>>

\* the attributes
WriteData(t) ==
    /\ pc[t] = "data"
    /\ frames' = [frames EXCEPT ![offset[t]].written = "all"]
    /\ Goto(t, "lock")
    /\ UNCHANGED <<header, dirs, mode, readMode, streams, mapped, holder,
                   work, offset, view, returned, crashed>>

\* Variant: the frame is made visible before its attributes are written.
WrittenEarly(t) == pc[t] \in {"data", "lock"}

Written(t) == pc[t] = "lock"

Lock(t) ==
    /\ Written(t)
    /\ holder = {}
    /\ holder' = {t}
    /\ Goto(t, "directory")
    /\ UNCHANGED <<header, frames, dirs, mode, readMode, streams, mapped,
                   work, offset, view, returned, crashed>>

\* Variant: the slot of the link is used for a frame, too.
NeedDirectoryLate ==
    mapped # 0 => Len(dirs[mapped].entries) >= Capacity

\* There is no directory, or only the slot for the link is left.
NeedDirectory ==
    mapped # 0 => Len(dirs[mapped].entries) = Capacity - 1

HasRoom(t) ==
    /\ pc[t] = "directory"
    /\ ~NeedDirectory
    /\ MarkDirty
    /\ Goto(t, "entry")
    /\ UNCHANGED <<frames, dirs, mode, readMode, streams, mapped, holder,
                   work, offset, view, returned, crashed>>

\* _addDirectory reserves space ...
ReserveDirectory(t) ==
    /\ pc[t] = "directory"
    /\ NeedDirectory
    /\ dirs' = Append(dirs, [entries |-> <<>>, link |-> "none"])
    /\ MarkDirty
    /\ Goto(t, "table")
    /\ UNCHANGED <<frames, mode, readMode, streams, mapped, holder,
                   work, offset, view, returned, crashed>>

\* ... enters it in the table, whose end is compared with the capacity of a
\* directory instead: behind the table there are the checksum and the flag ...
EnterInTable(t) ==
    /\ pc[t] = "table"
    /\ \E byte \in BOOLEAN :
         header' = [header EXCEPT
             !.directoryCount = @ + 1,
             !.dirty = IF /\ header.directoryCount = TableSize
                          /\ header.directoryCount < Capacity
                       THEN byte ELSE @]
    /\ Goto(t, "marker")
    /\ UNCHANGED <<frames, dirs, mode, readMode, streams, mapped, holder,
                   work, offset, view, returned, crashed>>

SetLink(l) ==
    dirs' = IF mapped = 0 THEN dirs ELSE [dirs EXCEPT ![mapped].link = l]

\* ... and links the full directory to it.
MarkLink(t) ==
    /\ pc[t] = "marker"
    /\ SetLink("torn")
    /\ Goto(t, "link")
    /\ UNCHANGED <<header, frames, mode, readMode, streams, mapped, holder,
                   work, offset, view, returned, crashed>>

\* Variant: the link points nowhere.
LinkDirectoryNot(t) ==
    /\ pc[t] = "link"
    /\ dirs' = dirs

LinkDirectory(t) ==
    /\ pc[t] = "link"
    /\ SetLink("next")

Link(t) ==
    /\ LinkDirectory(t)
    /\ Goto(t, "map")
    /\ UNCHANGED <<header, frames, mode, readMode, streams, mapped, holder,
                   work, offset, view, returned, crashed>>

\* _mapDirectory
MapDirectory(t) ==
    /\ pc[t] = "map"
    /\ mapped' = Len(dirs)
    /\ Goto(t, "entry")
    /\ UNCHANGED <<header, frames, dirs, mode, readMode, streams, holder,
                   work, offset, view, returned, crashed>>

\* The entry gets a copy of the header of the frame, which holds the marker ...
CopyHeader(t) ==
    /\ pc[t] = "entry"
    /\ \E f \in work[t] :
         dirs' = [dirs EXCEPT ![mapped].entries = Append(@, [frame |-> f, offset |-> 0])]
    /\ Goto(t, "offset")
    /\ UNCHANGED <<header, frames, mode, readMode, streams, mapped, holder,
                   work, offset, view, returned, crashed>>

\* ... and then the offset.
SetOffset(t) ==
    /\ pc[t] = "offset"
    /\ dirs' = [dirs EXCEPT ![mapped].entries[Len(dirs[mapped].entries)].offset = offset[t]]
    /\ Goto(t, "account")
    /\ UNCHANGED <<header, frames, mode, readMode, streams, mapped, holder,
                   work, offset, view, returned, crashed>>

\* Variant: the counters of the header are left to the next commit.
CountFrameNot == header' = header

CountFrame == header' = [header EXCEPT !.frameCount = @ + 1]

\* The counters are updated and the lock is released; the caller gets the
\* location, or the new stream is published.
Account(t) ==
    /\ pc[t] = "account"
    /\ CountFrame
    /\ holder' = {}
    /\ returned' = returned \cup {[frame |-> f, offset |-> offset[t]] : f \in work[t]}
    /\ streams' = streams \cup {f.stream : f \in {g \in work[t] : g.sqn = Meta}}
    /\ work' = [work EXCEPT ![t] = {}]
    /\ offset' = [offset EXCEPT ![t] = 0]
    /\ Goto(t, "idle")
    /\ UNCHANGED <<frames, dirs, mode, readMode, mapped, view, crashed>>

\* Variant: the lock stays with the call that failed.
UnlockOnErrorNot(t) == holder' = holder

\* The scope of the lock is left.
UnlockOnError(t) == holder' = holder \ {t}

\* A write, the reservation of space or the mapping throws: the store
\* becomes read only for the calls that come.
Fail(t) ==
    /\ \/ WritesMayFail /\ pc[t] \in {"reserve", "header", "data"}
       \/ WritesMayFail /\ pc[t] = "directory" /\ NeedDirectory
       \/ MapsMayFail /\ pc[t] = "map"
    /\ mapped' = IF pc[t] = "map" THEN 0 ELSE mapped
    /\ readMode' = TRUE
    /\ UnlockOnError(t)
    /\ work' = [work EXCEPT ![t] = {}]
    /\ offset' = [offset EXCEPT ![t] = 0]
    /\ Goto(t, "idle")
    /\ UNCHANGED <<file, mode, streams, view, returned, crashed>>

Commit(t) ==
    \/ Reserve(t) \/ WriteHeader(t) \/ WriteData(t) \/ Lock(t)
    \/ HasRoom(t) \/ ReserveDirectory(t) \/ EnterInTable(t)
    \/ MarkLink(t) \/ Link(t) \/ MapDirectory(t)
    \/ CopyHeader(t) \/ SetOffset(t) \/ Account(t)

Next ==
    \/ CreateFile \/ InitializeHeader \/ SignHeader
    \/ OpenStore \/ CloseStore \/ Crash
    \/ \E t \in Threads :
         \/ \E f \in Frames : Begin(t, f)
         \/ Commit(t)
         \/ Fail(t)

Spec == Init /\ [][Next]_vars

FairSpec == Spec /\ \A t \in Threads : WF_vars(Commit(t))

-----------------------------------------------------------------------------
(* Properties                                                              *)

\* What commitFrame returned can be found and read for good: after any later
\* commit, failed commit, close, crash and open, the directories that a
\* reader walks hold the entry, and its offset is that of the whole frame.
CommittedSurvives ==
    \A e \in returned : Readable(e) /\ \E p \in Walked : EntryAt(p) = e

\* A crash damages one entry at most: of the entries a reader finds, all but
\* the last one describe frames that are completely written, and the last one
\* is either complete or has no offset yet.
OnlyLastTorn ==
    \A p \in Walked :
        \/ Readable(EntryAt(p))
        \/ EntryAt(p).offset = 0 /\ \A q \in Walked : ~Before(p, q)

\* The counters agree with what a reader finds.
Consistent ==
    /\ header.frameCount = Cardinality(Walked)
    /\ header.directoryCount = Len(dirs)
    /\ \A d \in DOMAIN dirs : dirs[d].link = IF d = Len(dirs) THEN "none" ELSE "next"
    /\ \A p \in Walked : Readable(EntryAt(p))

\* The dirty flag (_markDirty, _markClean) tells a store that was closed from
\* one that is being written: unless the process died while it wrote, the
\* header, the directories and the frames of a clean store agree.
CleanIsConsistent == ~header.dirty /\ ~crashed => Consistent

\* _openFrame creates a stream when it meets its zero frame and throws for a
\* data frame of a stream it does not know: data frames follow the zero frame
\* of their stream, and the only reason for which a signed store cannot be
\* opened is that the last entry is that of a zero frame and is torn.
StreamsPrecedeSegments ==
    OpenThrows =>
        \E p \in Walked : /\ EntryAt(p).frame.sqn = Meta
                          /\ EntryAt(p).offset = 0
                          /\ \A q \in Walked : ~Before(p, q)

\* A call of commitFrame ends, whatever other calls fail: the lock is given
\* back on every path.
CommitEnds == \A t \in Threads : pc[t] # "idle" ~> pc[t] = "idle"

-----------------------------------------------------------------------------
(* Statements that do not hold                                             *)

\* A store with a clean header is consistent ("TODO: Handle dirty stores"):
\* a store that was opened after a crash is marked clean when it is closed.
CleanAlwaysConsistent == ~header.dirty => Consistent

\* While frames are committed the store is dirty: the table is smaller than
\* the bound _addDirectory checks.
DirtyWhileWriting == (\E t \in Threads : pc[t] # "idle") => header.dirty

\* A store that was signed can be opened: not if the process died between the
\* two halves of the entry of a zero frame.
AlwaysOpens == ~OpenThrows

=============================================================================
