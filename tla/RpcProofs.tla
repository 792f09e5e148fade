----------------------------- MODULE RpcProofs ------------------------------
(***************************************************************************)
(* Who can be ended by SIGPIPE, and what the two ends of a connection      *)
(* agree on, for any number of connections, calls and pieces of a message. *)
(*                                                                         *)
(* The signal: a process, the server or a client, is ended by it only      *)
(* after one of its threads has set the signal back in the middle of the   *)
(* transfer of another.  Until then whoever transfers data ignores the     *)
(* signal from the start of the transfer to its end.                       *)
(*                                                                         *)
(* The conversation: nothing in the bytes under way says where a message   *)
(* begins.  What an end has read of a message, what is on its way to it    *)
(* and what the other end has still to send are, one after the other, the  *)
(* front of the message that was sent last.  Every transfer moves a piece  *)
(* from one of the three to the next, and only an end that has the turn    *)
(* adds to them.                                                           *)
(***************************************************************************)
EXTENDS Rpc, SequenceTheorems, TLAPS

\* The state of a transfer is a record.
Shape(r) == r = [step |-> r.step, out |-> r.out, need |-> r.need, in |-> r.in]

ShapeInv ==
    /\ io = [e \in Ends |-> io[e]]
    /\ \A e \in Ends : Shape(io[e])
    /\ sigpipe = [p \in {Process(e) : e \in Ends} |-> sigpipe[p]]

\* Without a race the signal is ignored while a thread transfers data.
SignalInv ==
    \A e \in Ends : io[e].step = "move" /\ Process(e) \notin raced =>
                      sigpipe[Process(e)] = "ignored"

IInv == ShapeInv /\ SignalInv /\ KilledByRace

-----------------------------------------------------------------------------
\* The transfer of one end changes; the others are left alone.
LEMMA Replaced ==
    ASSUME ShapeInv, NEW e \in Ends, NEW r, Shape(r), io' = [io EXCEPT ![e] = r]
    PROVE  /\ io' = [x \in Ends |-> io'[x]]
           /\ \A x \in Ends : Shape(io'[x])
           /\ io'[e] = r
           /\ \A x \in Ends : x # e => io'[x] = io[x]
BY DEF ShapeInv

\* A transfer stays one when a field of it is set.
LEMMA FieldSet ==
    ASSUME NEW r, Shape(r), NEW v
    PROVE  /\ Shape([r EXCEPT !.step = v]) /\ [r EXCEPT !.step = v].step = v
           /\ Shape([r EXCEPT !.out = v]) /\ [r EXCEPT !.out = v].step = r.step
           /\ Shape([r EXCEPT !.need = v]) /\ [r EXCEPT !.need = v].step = r.step
           /\ Shape([r EXCEPT !.in = v])
<1>1. [r EXCEPT !.step = v] = [step |-> v, out |-> r.out, need |-> r.need, in |-> r.in]
  BY DEF Shape
<1>2. [r EXCEPT !.out = v] = [step |-> r.step, out |-> v, need |-> r.need, in |-> r.in]
  BY DEF Shape
<1>3. [r EXCEPT !.need = v] = [step |-> r.step, out |-> r.out, need |-> v, in |-> r.in]
  BY DEF Shape
<1>4. [r EXCEPT !.in = v] = [step |-> r.step, out |-> r.out, need |-> r.need, in |-> v]
  BY DEF Shape
<1> QED
  BY <1>1, <1>2, <1>3, <1>4 DEF Shape

\* The step of a transfer is set.
LEMMA Stepped ==
    ASSUME ShapeInv, NEW e \in Ends, NEW s, Step(e, s)
    PROVE  \E r : Shape(r) /\ r.step = s /\ io' = [io EXCEPT ![e] = r]
<1> DEFINE r == [io[e] EXCEPT !.step = s]
<1>2. Shape(r) /\ r.step = s
  BY FieldSet DEF ShapeInv
<1>3. io' = [io EXCEPT ![e] = r]
  BY DEF Step
<1> HIDE DEF r
<1> QED
  BY <1>2, <1>3

\* A step that neither is part of a transfer nor begins to move data.
LEMMA QuietKeeps ==
    ASSUME IInv, NEW e \in Ends, NEW r, Shape(r), io' = [io EXCEPT ![e] = r],
           r.step = "move" => io[e].step = "move",
           UNCHANGED <<sigpipe, fate>>
    PROVE  IInv'
<1>1. ShapeInv'
  BY Replaced DEF IInv, ShapeInv
<1>2. SignalInv'
  BY Replaced DEF IInv, SignalInv, fate
<1>3. KilledByRace'
  BY DEF IInv, KilledByRace, fate
<1> QED
  BY <1>1, <1>2, <1>3 DEF IInv

\* The signal is ignored, and the data is moved.
LEMMA IgnoreSignalKeeps ==
    ASSUME IInv, NEW e \in Ends, IgnoreSignal(e) PROVE IInv'
<1>1. PICK r : Shape(r) /\ r.step = "move" /\ io' = [io EXCEPT ![e] = r]
  BY Stepped DEF IInv, IgnoreSignal
<1>2. /\ sigpipe' = [p \in {Process(x) : x \in Ends} |-> sigpipe'[p]]
      /\ sigpipe'[Process(e)] = "ignored"
      /\ \A x \in Ends : sigpipe[Process(x)] = "ignored" => sigpipe'[Process(x)] = "ignored"
  BY DEF IInv, ShapeInv, IgnoreSignal
<1>3. ShapeInv'
  BY <1>1, <1>2, Replaced DEF IInv, ShapeInv
<1>4. SignalInv'
  BY <1>1, <1>2, Replaced DEF IInv, SignalInv, IgnoreSignal, fate
<1>5. KilledByRace'
  BY DEF IInv, KilledByRace, IgnoreSignal, fate
<1> QED
  BY <1>3, <1>4, <1>5 DEF IInv

\* The end that restores the signal does not move data any more, and if another
\* one of its process does, the process has raced.
LEMMA RestoreSignalKeeps ==
    ASSUME IInv, NEW e \in Ends, RestoreSignal(e) PROVE IInv'
<1> DEFINE s == IF io[e].step = "restore" THEN "done" ELSE "failed"
<1>1. PICK r : Shape(r) /\ r.step = s /\ io' = [io EXCEPT ![e] = r]
  BY Stepped DEF IInv, RestoreSignal
<1>2. sigpipe' = [p \in {Process(x) : x \in Ends} |-> sigpipe'[p]]
  BY DEF IInv, ShapeInv, RestoreSignal
<1>3. ShapeInv'
  BY <1>1, <1>2, Replaced DEF IInv, ShapeInv
<1>4. ASSUME NEW x \in Ends, Process(x) \notin raced', io'[x].step = "move"
      PROVE  sigpipe'[Process(x)] = "ignored"
  <2>1. x # e
    BY <1>1, <1>4, Replaced DEF IInv
  <2>2. io[x].step = "move"
    BY <1>1, <1>4, <2>1, Replaced DEF IInv
  <2>3. Process(x) # Process(e) /\ Process(x) \notin raced
    BY <1>4, <2>1, <2>2 DEF RestoreSignal
  <2>4. sigpipe[Process(x)] = "ignored"
    BY <2>2, <2>3 DEF IInv, SignalInv
  <2> QED
    BY <2>3, <2>4 DEF IInv, ShapeInv, RestoreSignal
<1>5. SignalInv'
  BY <1>4 DEF SignalInv
<1>6. KilledByRace'
  BY DEF IInv, KilledByRace, RestoreSignal
<1> QED
  BY <1>3, <1>5, <1>6 DEF IInv

\* A process that ends moves no data any more.
LEMMA ProcessEndsKeeps ==
    ASSUME IInv, NEW p, ProcessEnds(p) PROVE ShapeInv' /\ SignalInv'
<1>1. Shape(Idle) /\ Idle.step = "off"
  BY DEF Shape, Idle
<1>2. \A x \in Ends : io'[x] = Idle \/ io'[x] = io[x]
  BY DEF ProcessEnds
<1>3. io' = [x \in Ends |-> io'[x]] /\ sigpipe' = sigpipe /\ raced' = raced
  BY DEF ProcessEnds
<1>4. ShapeInv'
  BY <1>1, <1>2, <1>3 DEF IInv, ShapeInv
<1>5. SignalInv'
  BY <1>1, <1>2, <1>3 DEF IInv, SignalInv
<1> QED
  BY <1>4, <1>5

\* The only step at which the signal strikes.
LEMMA SendFailsKeeps ==
    ASSUME IInv, NEW e \in Ends, SendFails(e) PROVE IInv'
<1>1. CASE sigpipe[Process(e)] = "ignored"
  <2>1. PICK r : Shape(r) /\ r.step = "undo" /\ io' = [io EXCEPT ![e] = r]
    BY <1>1, Stepped DEF IInv, SendFails
  <2> QED
    BY <1>1, <2>1, QuietKeeps, Zenon DEF SendFails
<1>2. CASE sigpipe[Process(e)] # "ignored"
  <2>1. ShapeInv' /\ SignalInv'
    BY <1>2, ProcessEndsKeeps DEF SendFails
  <2>2. Process(e) \in raced
    BY <1>2 DEF IInv, SignalInv, SendFails
  <2>3. killed' = killed \cup {Process(e)} /\ raced' = raced
    BY <1>2 DEF SendFails, ProcessEnds
  <2>4. KilledByRace'
    BY <2>2, <2>3 DEF IInv, KilledByRace
  <2> QED
    BY <2>1, <2>4 DEF IInv
<1> QED
  BY <1>1, <1>2

\* The steps that move data
LEMMA MoveKeeps ==
    ASSUME IInv, NEW e \in Ends, MoveOut(e) \/ MoveIn(e) PROVE IInv'
<1>1. Shape(io[e]) /\ io[e].step = "move"
  BY Zenon DEF IInv, ShapeInv, MoveOut, MoveIn
<1>2. CASE MoveOut(e)
  <2>1. PICK k \in 1..Len(io[e].out) :
           io' = [io EXCEPT ![e].out = SubSeq(@, k + 1, Len(@)),
                            ![e].step = IF k = Len(io[e].out) THEN "restore" ELSE "move"]
    BY <1>2 DEF MoveOut
  <2> DEFINE q == [io[e] EXCEPT !.out = SubSeq(@, k + 1, Len(@))]
             r == [q EXCEPT !.step = IF k = Len(io[e].out) THEN "restore" ELSE "move"]
  <2>2. Shape(r)
    <3>1. Shape(q)
      BY <1>1, FieldSet
    <3> HIDE DEF q
    <3> QED
      BY <3>1, FieldSet
  <2>3. io' = [io EXCEPT ![e] = r]
    BY <2>1, Zenon
  <2> HIDE DEF r
  <2> QED
    BY <1>1, <1>2, <2>2, <2>3, QuietKeeps DEF MoveOut
<1>3. CASE MoveIn(e)
  <2>1. PICK k \in 1..io[e].need :
           io' = [io EXCEPT ![e].in = @ \o SubSeq(wire[e], 1, k),
                            ![e].need = @ - k,
                            ![e].step = IF k = io[e].need THEN "restore" ELSE "move"]
    BY <1>3, Zenon DEF MoveIn
  <2> DEFINE p == [io[e] EXCEPT !.in = @ \o SubSeq(wire[e], 1, k)]
             q == [p EXCEPT !.need = io[e].need - k]
             r == [q EXCEPT !.step = IF k = io[e].need THEN "restore" ELSE "move"]
  <2>2. Shape(r)
    <3>1. Shape(p)
      BY <1>1, FieldSet
    <3>2. Shape(q)
      <4> HIDE DEF p
      <4> QED
        BY <3>1, FieldSet
    <3> HIDE DEF q
    <3> QED
      BY <3>2, FieldSet
  <2>3. io' = [io EXCEPT ![e] = r]
    BY <2>1
  <2> HIDE DEF r
  <2> QED
    BY <1>1, <1>3, <2>2, <2>3, QuietKeeps, Zenon DEF MoveIn
<1> QED
  BY <1>2, <1>3

-----------------------------------------------------------------------------
(* The steps of the ports                                                  *)

\* A transfer that begins
LEMMA Begun ==
    ASSUME NEW v
    PROVE  /\ Shape(Idle) /\ Idle.step = "off"
           /\ Shape([Idle EXCEPT !.step = "ignore", !.out = v])
           /\ [Idle EXCEPT !.step = "ignore", !.out = v].step = "ignore"
           /\ Shape([Idle EXCEPT !.step = "ignore", !.need = v])
           /\ [Idle EXCEPT !.step = "ignore", !.need = v].step = "ignore"
<1>1. Shape(Idle) /\ Idle.step = "off"
  BY DEF Shape, Idle
<1> DEFINE q == [Idle EXCEPT !.step = "ignore"]
<1>2. Shape(q) /\ q.step = "ignore"
  BY <1>1, FieldSet
<1>3. /\ [Idle EXCEPT !.step = "ignore", !.out = v] = [q EXCEPT !.out = v]
      /\ [Idle EXCEPT !.step = "ignore", !.need = v] = [q EXCEPT !.need = v]
  OBVIOUS
<1>4. /\ Shape([q EXCEPT !.out = v]) /\ [q EXCEPT !.out = v].step = "ignore"
      /\ Shape([q EXCEPT !.need = v]) /\ [q EXCEPT !.need = v].step = "ignore"
  <2> HIDE DEF q
  <2> QED
    BY <1>2, FieldSet
<1> QED
  BY <1>1, <1>3, <1>4

\* A thread begins a transfer, or waits for none.
LEMMA PortKeeps ==
    ASSUME IInv, NEW e \in Ends, UNCHANGED channels, NEW n, NEW at,
           Send(e, n, at) \/ Receive(e, n, at) \/ GoTo(e, at)
    PROVE  IInv'
<1>1. \E r : /\ Shape(r) /\ r.step # "move" /\ io' = [io EXCEPT ![e] = r]
  <2>1. CASE GoTo(e, at)
    BY <2>1, Begun DEF GoTo
  <2>2. CASE Send(e, n, at)
    BY <2>2, Begun DEF Send
  <2>3. CASE Receive(e, n, at)
    BY <2>3, Begun DEF Receive
  <2> QED
    BY <2>1, <2>2, <2>3
<1>2. UNCHANGED <<sigpipe, fate>>
  BY DEF channels
<1> QED
  BY <1>1, <1>2, QuietKeeps

\* A step of LocalChannel or SocketChannel
LEMMA TransferKeeps ==
    ASSUME IInv, NEW e \in Ends, Transfer(e) PROVE IInv'
<1>1. CASE ReceiveFails(e)
  <2>1. PICK r : Shape(r) /\ r.step = "undo" /\ io' = [io EXCEPT ![e] = r]
    BY <1>1, Stepped DEF IInv, ReceiveFails
  <2> QED
    BY <1>1, <2>1, QuietKeeps DEF ReceiveFails
<1> QED
  BY <1>1, IgnoreSignalKeeps, RestoreSignalKeeps, SendFailsKeeps, MoveKeeps DEF Transfer

\* A step of Port or of its channel
LEMMA PortStepKeeps ==
    ASSUME IInv, NEW e \in Ends, PortStep(e) PROVE IInv'
<1>1. CASE SendPayload(e)
  <2>1. PICK fails \in MayFail("handles", sent[e].type = "handles") :
           IF fails THEN Step(e, "failed") /\ UNCHANGED pc
           ELSE Send(e, Payload(sent[e]), "sendPayload")
    BY <1>1 DEF SendPayload
  <2>2. CASE fails
    <3>1. PICK r : Shape(r) /\ r.step = "failed" /\ io' = [io EXCEPT ![e] = r]
      BY <2>1, <2>2, Stepped DEF IInv
    <3> QED
      BY <1>1, <3>1, QuietKeeps DEF SendPayload, channels
  <2>3. CASE ~fails
    BY <1>1, <2>1, <2>3, PortKeeps DEF SendPayload
  <2> QED
    BY <2>2, <2>3
<1>2. CASE SendDone(e)
  BY <1>2, PortKeeps DEF SendDone
<1>3. CASE ReceivedHeader(e)
  <2>1. PICK m \in Headers(io[e].in) : ReceivePayload(e, m)
    BY <1>3 DEF ReceivedHeader
  <2> QED
    BY <1>3, <2>1, PortKeeps DEF ReceivedHeader, ReceivePayload, Throws, Received
<1>4. CASE ReceivedPayload(e)
  BY <1>4, PortKeeps DEF ReceivedPayload, Throws, Received
<1> QED
  BY <1>1, <1>2, <1>3, <1>4, TransferKeeps DEF PortStep

\* A step of ClientPort::call or of its end of the connection
LEMMA ClientKeeps ==
    ASSUME IInv, NEW c \in Conns,
           (\E len \in 0..MaxPayload : Call(c, len)) \/ ClientStep(c) \/ ClientLeaves(c)
    PROVE  IInv'
<1>0. Client(c) \in Ends
  BY DEF Client, Ends
<1>1. ASSUME NEW len, Call(c, len) PROVE IInv'
  BY <1>0, <1>1, PortKeeps DEF Call, SendMessage
<1>2. CASE CallFails(Client(c)) \/ CheckResponse(c)
  BY <1>0, <1>2, PortKeeps DEF CallFails, Throws, CheckResponse
<1>3. CASE ClientLeaves(c)
  BY <1>3 DEF ClientLeaves, fate, IInv, ShapeInv, SignalInv, KilledByRace
<1> QED
  BY <1>0, <1>1, <1>2, <1>3, PortStepKeeps DEF ClientStep

\* A client process is killed by someone else.
LEMMA DeathKeeps ==
    ASSUME IInv, NEW p, ClientDies(p) PROVE IInv'
<1>1. KilledByRace'
  BY DEF IInv, KilledByRace, ClientDies, ProcessEnds
<1> QED
  BY <1>1, ProcessEndsKeeps DEF ClientDies, IInv

\* A step of ServerSessionWorker::_run or of its end of the connection
LEMMA ServerKeeps ==
    ASSUME IInv, NEW c \in Conns, ServerStep(c) PROVE IInv'
<1>0. Server(c) \in Ends
  BY DEF Server, Ends
<1>1. ASSUME NEW type, NEW len, NEW status, Handle(c, type, len, status) PROVE IInv'
  BY <1>0, <1>1, PortKeeps DEF Handle, Reply, SendMessage
<1>2. CASE ReplyFails(c) \/ HandlerFails(c)
  BY <1>0, <1>2, PortKeeps DEF ReplyFails, HandlerFails, Reply, SendMessage
<1>3. CASE WaitFails(c)
  BY <1>0, <1>3, PortKeeps DEF WaitFails, Throws
<1>4. CASE ClosePort(c)
  BY <1>4 DEF ClosePort, fate, IInv, ShapeInv, SignalInv, KilledByRace
<1> QED
  BY <1>0, <1>1, <1>2, <1>3, <1>4, PortStepKeeps DEF ServerStep

-----------------------------------------------------------------------------
\* Who ignores SIGPIPE, and whom it has ended
LEMMA Inductive == Spec => []IInv
<1>1. Init => IInv
  <2> SUFFICES ASSUME Init PROVE IInv
    OBVIOUS
  <2>2. \A e \in Ends : Shape(io[e]) /\ io[e].step # "move"
    BY Begun DEF Init
  <2>3. /\ io = [e \in Ends |-> io[e]]
        /\ sigpipe = [p \in {Process(e) : e \in Ends} |-> sigpipe[p]]
    BY DEF Init
  <2> QED
    BY <2>2, <2>3 DEF Init, IInv, ShapeInv, SignalInv, KilledByRace
<1>2. IInv /\ [Next]_vars => IInv'
  <2>1. ASSUME IInv, UNCHANGED vars PROVE IInv'
    BY <2>1 DEF vars, IInv, ShapeInv, SignalInv, KilledByRace
  <2> QED
    BY <2>1, ClientKeeps, ServerKeeps, DeathKeeps DEF Next
<1> QED
  BY <1>1, <1>2, PTL DEF Spec

\* For any number of clients and of threads in each of them, SIGPIPE
\* (System::ignoreSignal, restoreSignal) ends a process only if a thread of it
\* has set the signal back during the transfer of another.
THEOREM OnlyRacesKill == Spec => []KilledByRace
<1>1. IInv => KilledByRace
  BY DEF IInv
<1> QED
  BY <1>1, Inductive, PTL

-----------------------------------------------------------------------------
(* Sequences that are cut in parts                                         *)

\* One sequence begins the other.
Prefix(a, b) == Len(a) <= Len(b) /\ \A i \in 1..Len(a) : a[i] = b[i]

\* A sequence cut in two
LEMMA Cut ==
    ASSUME NEW T, NEW x \in Seq(T), NEW k \in 1..Len(x)
    PROVE  /\ SubSeq(x, 1, k) \in Seq(T) /\ SubSeq(x, k + 1, Len(x)) \in Seq(T)
           /\ Len(SubSeq(x, 1, k)) = k /\ Len(SubSeq(x, k + 1, Len(x))) = Len(x) - k
           /\ SubSeq(x, 1, k) \o SubSeq(x, k + 1, Len(x)) = x
<1>1. Len(x) \in Nat /\ \A i \in 1..Len(x) : x[i] \in T
  BY LenProperties, ElementOfSeq
<1>2. SubSeq(x, 1, k) \in Seq(T) /\ Len(SubSeq(x, 1, k)) = k
  <2>1. \A i \in 1..k : x[i] \in T
    BY <1>1
  <2> QED
    BY <1>1, <2>1, SubSeqProperties
<1>3. SubSeq(x, k + 1, Len(x)) \in Seq(T) /\ Len(SubSeq(x, k + 1, Len(x))) = Len(x) - k
  <2>1. \A i \in (k + 1)..Len(x) : x[i] \in T
    BY <1>1
  <2>2. k + 1 \in Int /\ Len(x) \in Int
    BY <1>1
  <2>3. /\ SubSeq(x, k + 1, Len(x)) \in Seq(T)
        /\ Len(SubSeq(x, k + 1, Len(x))) = IF k + 1 <= Len(x) THEN Len(x) - (k + 1) + 1 ELSE 0
    BY <2>1, <2>2, SubSeqProperties
  <2> QED
    BY <1>1, <2>3
<1>4. SubSeq(x, 1, k) \o SubSeq(x, k + 1, Len(x)) = SubSeq(x, 1, Len(x))
  BY <1>1, ConcatAdjacentSubSeq
<1> QED
  BY <1>2, <1>3, <1>4, SubSeqFull

\* Concatenation, as an operator the provers leave alone
Cat(x, y) == x \o y

\* Concatenation is associative.
LEMMA Assoc ==
    ASSUME NEW T, NEW x \in Seq(T), NEW y \in Seq(T), NEW z \in Seq(T)
    PROVE  Cat(Cat(x, y), z) = Cat(x, Cat(y, z))
BY ConcatAssociative DEF Cat

\* Two sequences in a row are one.
LEMMA CatSeq ==
    ASSUME NEW T, NEW x \in Seq(T), NEW y \in Seq(T)
    PROVE  Cat(x, y) \in Seq(T)
BY ConcatProperties DEF Cat

\* The middle of four parts may be moved from one side to the other.
LEMMA Four ==
    ASSUME NEW T, NEW p \in Seq(T), NEW x \in Seq(T), NEW a \in Seq(T), NEW b \in Seq(T)
    PROVE  Cat(Cat(p, Cat(x, a)), b) = Cat(Cat(p, x), Cat(a, b))
<1>1. Cat(p, Cat(x, a)) = Cat(Cat(p, x), a)
  BY Assoc
<1>2. Cat(p, x) \in Seq(T)
  BY CatSeq
<1>3. Cat(Cat(Cat(p, x), a), b) = Cat(Cat(p, x), Cat(a, b))
  BY <1>2, Assoc
<1> QED
  BY <1>1, <1>3

\* What is read from the front of y goes behind x.
LEMMA Taking ==
    ASSUME NEW T, NEW p \in Seq(T), NEW x \in Seq(T), NEW y \in Seq(T), NEW z, NEW k \in 1..Len(y)
    PROVE  Cat(Cat(Cat(p, Cat(x, SubSeq(y, 1, k))), SubSeq(y, k + 1, Len(y))), z)
              = Cat(Cat(Cat(p, x), y), z)
<1>1. PICK a \in Seq(T), b \in Seq(T) :
         a = SubSeq(y, 1, k) /\ b = SubSeq(y, k + 1, Len(y)) /\ Cat(a, b) = y
  <2>1. SubSeq(y, 1, k) \in Seq(T) /\ SubSeq(y, k + 1, Len(y)) \in Seq(T)
    BY Cut
  <2>2. Cat(SubSeq(y, 1, k), SubSeq(y, k + 1, Len(y))) = y
    BY Cut DEF Cat
  <2> QED
    BY <2>1, <2>2
<1>2. Cat(Cat(p, Cat(x, a)), b) = Cat(Cat(p, x), Cat(a, b))
  BY Four
<1> QED
  BY <1>1, <1>2

\* What is written from the front of x goes behind y.
LEMMA Giving ==
    ASSUME NEW T, NEW p \in Seq(T), NEW x \in Seq(T), NEW y \in Seq(T), NEW z \in Seq(T),
           NEW k \in 1..Len(x)
    PROVE  Cat(Cat(p, Cat(y, SubSeq(x, 1, k))), Cat(SubSeq(x, k + 1, Len(x)), z))
              = Cat(Cat(p, y), Cat(x, z))
<1>1. PICK a \in Seq(T), b \in Seq(T) :
         a = SubSeq(x, 1, k) /\ b = SubSeq(x, k + 1, Len(x)) /\ Cat(a, b) = x
  <2>1. SubSeq(x, 1, k) \in Seq(T) /\ SubSeq(x, k + 1, Len(x)) \in Seq(T)
    BY Cut
  <2>2. Cat(SubSeq(x, 1, k), SubSeq(x, k + 1, Len(x))) = x
    BY Cut DEF Cat
  <2> QED
    BY <2>1, <2>2
<1>2. Cat(b, z) \in Seq(T)
  BY CatSeq
<1>3. Cat(Cat(p, Cat(y, a)), Cat(b, z)) = Cat(Cat(p, y), Cat(a, Cat(b, z)))
  BY <1>2, Four
<1>4. Cat(Cat(a, b), z) = Cat(a, Cat(b, z))
  BY Assoc
<1> QED
  BY <1>1, <1>3, <1>4

Three(T, x, y, z) ==
    /\ Cat(Cat(x, y), z) \in Seq(T)
    /\ Len(Cat(Cat(x, y), z)) = Len(x) + Len(y) + Len(z)
    /\ Cat(Cat(x, y), z) = <<>> <=> x = <<>> /\ y = <<>> /\ z = <<>>
    /\ \A i \in 1..Len(x) : Cat(Cat(x, y), z)[i] = x[i]

\* Three parts are a sequence, and nothing if each of them is.
LEMMA Parts3 ==
    ASSUME NEW T, NEW x \in Seq(T), NEW y \in Seq(T), NEW z \in Seq(T)
    PROVE  Three(T, x, y, z)
<1>1. /\ Cat(x, y) \in Seq(T) /\ Len(Cat(x, y)) = Len(x) + Len(y)
      /\ \A i \in 1..Len(x) + Len(y) : Cat(x, y)[i] = IF i <= Len(x) THEN x[i] ELSE y[i - Len(x)]
  BY ConcatProperties DEF Cat
<1>2. PICK w \in Seq(T) : w = Cat(x, y)
  BY <1>1
<1>3. /\ Cat(w, z) \in Seq(T) /\ Len(Cat(w, z)) = Len(w) + Len(z)
      /\ \A i \in 1..Len(w) + Len(z) : Cat(w, z)[i] = IF i <= Len(w) THEN w[i] ELSE z[i - Len(w)]
  BY ConcatProperties DEF Cat
<1>4. Len(x) \in Nat /\ Len(y) \in Nat /\ Len(z) \in Nat
  BY LenProperties
<1>5. Cat(x, y) = <<>> <=> x = <<>> /\ y = <<>>
  BY ConcatEqualIffEmpty DEF Cat
<1>6. Cat(w, z) = <<>> <=> w = <<>> /\ z = <<>>
  BY ConcatEqualIffEmpty DEF Cat
<1>7. ASSUME NEW i \in 1..Len(x) PROVE Cat(w, z)[i] = x[i]
  <2>1. i \in 1..Len(x) + Len(y) /\ i \in 1..Len(w) + Len(z) /\ i <= Len(x) /\ i <= Len(w)
    BY <1>1, <1>2, <1>4
  <2>2. Cat(w, z)[i] = w[i]
    BY <1>3, <2>1
  <2>3. w[i] = x[i]
    BY <1>1, <1>2, <2>1
  <2> QED
    BY <2>2, <2>3
<1>8. Len(Cat(w, z)) = Len(x) + Len(y) + Len(z)
  BY <1>1, <1>2, <1>3
<1> QED
  BY <1>2, <1>3, <1>5, <1>6, <1>7, <1>8 DEF Three

\* What begins with two parts begins with the first.
LEMMA Shorter ==
    ASSUME NEW T, NEW x \in Seq(T), NEW z \in Seq(T), NEW f, Prefix(Cat(x, z), f), Len(f) \in Nat
    PROVE  Prefix(x, f)
<1>1. /\ Len(Cat(x, z)) = Len(x) + Len(z)
      /\ \A i \in 1..Len(x) + Len(z) : Cat(x, z)[i] = IF i <= Len(x) THEN x[i] ELSE z[i - Len(x)]
  BY ConcatProperties DEF Cat
<1>2. Len(x) \in Nat /\ Len(z) \in Nat
  BY LenProperties
<1> QED
  BY <1>1, <1>2 DEF Prefix

\* The first part begins with what the whole begins with.
LEMMA FirstPart ==
    ASSUME NEW T, NEW x \in Seq(T), NEW y \in Seq(T), NEW z \in Seq(T),
           NEW g \in Seq(T), NEW h \in Seq(T), Prefix(Cat(Cat(x, y), z), Cat(g, h)), Len(x) = Len(g)
    PROVE  x = g
<1>1. /\ Len(Cat(Cat(x, y), z)) = Len(x) + Len(y) + Len(z)
      /\ \A i \in 1..Len(x) : Cat(Cat(x, y), z)[i] = x[i]
  <2>1. Three(T, x, y, z)
    BY Parts3
  <2> QED
    BY <2>1 DEF Three
<1>2. \A i \in 1..Len(g) + Len(h) : Cat(g, h)[i] = IF i <= Len(g) THEN g[i] ELSE h[i - Len(g)]
  BY ConcatProperties DEF Cat
<1>3. Len(x) \in Nat /\ Len(y) \in Nat /\ Len(z) \in Nat /\ Len(h) \in Nat
  BY LenProperties
<1>4. ASSUME NEW i \in 1..Len(x) PROVE x[i] = g[i]
  <2>1. i \in 1..Len(Cat(Cat(x, y), z)) /\ i \in 1..Len(g) + Len(h) /\ i <= Len(g)
    BY <1>1, <1>3
  <2>2. Cat(Cat(x, y), z)[i] = Cat(g, h)[i]
    BY <2>1 DEF Prefix
  <2> QED
    BY <1>1, <1>2, <2>1, <2>2
<1> QED
  BY <1>4, SeqEqual

\* Nothing follows a first part that is everything.
LEMMA AllThere ==
    ASSUME NEW T, NEW x \in Seq(T), NEW y \in Seq(T), NEW z \in Seq(T), NEW f \in Seq(T),
           Prefix(Cat(Cat(x, y), z), f), Len(x) = Len(f)
    PROVE  y = <<>> /\ z = <<>> /\ x = f
<1>1. /\ Len(Cat(Cat(x, y), z)) = Len(x) + Len(y) + Len(z)
      /\ \A i \in 1..Len(x) : Cat(Cat(x, y), z)[i] = x[i]
  <2>1. Three(T, x, y, z)
    BY Parts3
  <2> QED
    BY <2>1 DEF Three
<1>2. Len(x) \in Nat /\ Len(y) \in Nat /\ Len(z) \in Nat
  BY LenProperties
<1>3. Len(y) = 0 /\ Len(z) = 0
  BY <1>1, <1>2 DEF Prefix
<1>4. y = <<>> /\ z = <<>>
  BY <1>3, EmptySeq
<1>5. \A i \in 1..Len(x) : x[i] = f[i]
  BY <1>1, <1>2, <1>3 DEF Prefix
<1> QED
  BY <1>4, <1>5, SeqEqual

-----------------------------------------------------------------------------
(* Messages and their pieces                                               *)

Sending == {"sendHeader", "sendPayload"}
Receiving == {"recvHeader", "recvPayload"}
Gone == {"over", "dead"}

Steps == {"off", "ignore", "move", "restore", "undo", "done", "failed"}
Places == Sending \cup Receiving \cup Gone \cup {"idle", "check", "dispatch"}
Parts == {"header", "data", "handles"}
Piece == [m : Message, part : Parts, i : Nat]
IoType == [step : Steps, out : Seq(Piece), need : 0..Header + MaxPayload, in : Seq(Piece)]

PortTypes ==
    /\ pc \in [Ends -> Places]
    /\ io \in [Ends -> IoType]
    /\ wire \in [Ends -> Seq(Piece)]

MessageTypes ==
    /\ sent \in [Ends -> Message] /\ got \in [Ends -> Message]
    /\ calls \in [Conns -> 0..MaxCalls]
    /\ nextSequenceNumber \in [Conns -> Seqs]
    /\ result \in [Conns -> {"none", "pending", "returned", "peer", "thrown"}]

ChannelTypes ==
    /\ connected \in [Ends -> BOOLEAN]
    /\ sigpipe \in [{Process(e) : e \in Ends} -> {"default", "ignored"}]

Types == PortTypes /\ MessageTypes /\ ChannelTypes

\* The pieces of a part of a message
LEMMA PiecesSeq ==
    ASSUME NEW m \in Message, NEW part \in Parts, NEW n \in Nat
    PROVE  /\ Pieces(m, part, n) \in Seq(Piece) /\ Len(Pieces(m, part, n)) = n
           /\ \A i \in 1..n : Pieces(m, part, n)[i] = [m |-> m, part |-> part, i |-> i]
<1>1. \A i \in 1..n : [m |-> m, part |-> part, i |-> i] \in Piece
  BY DEF Piece
<1> QED
  BY <1>1 DEF Pieces

\* What follows a header fits into a transfer.
LEMMA PayloadSeq ==
    ASSUME NEW m \in Message
    PROVE  /\ Payload(m) \in Seq(Piece) /\ Len(Payload(m)) \in 0..MaxPayload
           /\ Payload(m) = <<>> <=> Len(Payload(m)) = 0
           /\ m.type = "handles" /\ Payload(m) # <<>> => Payload(m)[1].part = "handles"
           /\ m.type \notin {"data", "handles"} => Payload(m) = <<>>
<1>1. m.len \in 0..MaxPayload /\ MaxPayload \in Nat \ {0}
  BY RpcAssumption DEF Message
<1>2. CASE m.type = "data"
  <2>1. Payload(m) = Pieces(m, "data", m.len)
    BY <1>2 DEF Payload
  <2>2. Payload(m) \in Seq(Piece) /\ Len(Payload(m)) = m.len
    BY <1>1, <2>1, PiecesSeq DEF Parts
  <2> QED
    BY <1>1, <1>2, <2>2, EmptySeq
<1>3. CASE m.type = "handles"
  <2>1. PICK n \in {0, 1} : n = IF m.len > 0 THEN 1 ELSE 0
    OBVIOUS
  <2>2. Payload(m) = Pieces(m, "handles", n)
    BY <1>3, <2>1 DEF Payload
  <2>3. /\ Payload(m) \in Seq(Piece) /\ Len(Payload(m)) = n
        /\ \A i \in 1..n : Payload(m)[i] = [m |-> m, part |-> "handles", i |-> i]
    BY <2>2, PiecesSeq DEF Parts
  <2>4. Payload(m) = <<>> <=> n = 0
    BY <2>3, EmptySeq
  <2>5. Payload(m) # <<>> => Payload(m)[1].part = "handles"
    BY <2>3, <2>4
  <2> QED
    BY <1>1, <1>3, <2>3, <2>4, <2>5
<1>4. CASE m.type \notin {"data", "handles"}
  <2>1. Payload(m) = <<>>
    BY <1>4 DEF Payload
  <2>2. <<>> \in Seq(Piece) /\ Len(<<>>) = 0
    BY EmptySeq
  <2> QED
    BY <1>1, <1>4, <2>1, <2>2
<1> QED
  BY <1>2, <1>3, <1>4

HeaderOf(m) == Pieces(m, "header", Header)

\* A header is read as the message it was made of.
LEMMA HeaderRead ==
    ASSUME NEW m \in Message
    PROVE  Headers(HeaderOf(m)) = {m} /\ HeaderOf(m) \in Seq(Piece) /\ Len(HeaderOf(m)) = Header
           /\ HeaderOf(m) # <<>>
<1>1. Header \in Nat \ {0}
  BY RpcAssumption
<1>2. /\ HeaderOf(m) \in Seq(Piece) /\ Len(HeaderOf(m)) = Header
      /\ \A i \in 1..Header : HeaderOf(m)[i] = [m |-> m, part |-> "header", i |-> i]
  BY <1>1, PiecesSeq DEF HeaderOf, Parts
<1>3. HeaderOf(m)[1].m = m
  BY <1>1, <1>2
<1>4. Headers(HeaderOf(m)) = {m}
  BY <1>3 DEF Headers, HeaderOf
<1>5. HeaderOf(m) # <<>>
  BY <1>1, <1>2, EmptySeq
<1> QED
  BY <1>2, <1>4, <1>5

\* A message that is sent
Full(m) == Cat(HeaderOf(m), Payload(m))

\* Its length
LEMMA FullSeq ==
    ASSUME NEW m \in Message
    PROVE  Full(m) \in Seq(Piece) /\ Len(Full(m)) = Header + Len(Payload(m)) /\ Len(Full(m)) \in Nat
<1>1. HeaderOf(m) \in Seq(Piece) /\ Payload(m) \in Seq(Piece) /\ Len(HeaderOf(m)) = Header
  BY HeaderRead, PayloadSeq
<1>2. Cat(HeaderOf(m), Payload(m)) \in Seq(Piece)
      /\ Len(Cat(HeaderOf(m), Payload(m))) = Len(HeaderOf(m)) + Len(Payload(m))
  BY <1>1, ConcatProperties DEF Cat
<1> QED
  BY <1>1, <1>2, LenProperties DEF Full

-----------------------------------------------------------------------------
(* Types                                                                   *)

\* The two ends of a connection
LEMMA EndsOf ==
    ASSUME NEW c \in Conns
    PROVE  /\ Client(c) \in Ends /\ Server(c) \in Ends /\ Client(c) # Server(c)
           /\ Peer(Client(c)) = Server(c) /\ Peer(Server(c)) = Client(c)
           /\ IsServer(Server(c)) /\ ~IsServer(Client(c))
           /\ Client(c)[2] = c /\ Server(c)[2] = c
           /\ Process(Client(c)) = ClientProcess(c[1]) /\ Process(Server(c)) = ServerProcess
           /\ Process(Client(c)) # ServerProcess
<1>1. Client(c) \in Ends /\ Server(c) \in Ends
  BY DEF Client, Server, Ends
<1>2. IsServer(Server(c)) /\ ~IsServer(Client(c)) /\ Client(c)[2] = c /\ Server(c)[2] = c
  BY DEF Client, Server, IsServer
<1>3. Process(Client(c)) # ServerProcess
  BY <1>2 DEF Process, ClientProcess, ServerProcess
<1> QED
  BY <1>1, <1>2, <1>3 DEF Peer, Process

\* An end is the client's or the server's.
LEMMA EndIs ==
    ASSUME NEW e \in Ends
    PROVE  /\ e[2] \in Conns /\ Peer(e) \in Ends
           /\ e = IF IsServer(e) THEN Server(e[2]) ELSE Client(e[2])
<1>1. PICK s \in {"client", "server"}, c \in Conns : e = <<s, c>>
  BY DEF Ends
<1> QED
  BY <1>1 DEF IsServer, Client, Server, Peer, Ends

\* The state of a transfer that is not done
LEMMA IdleIo == Idle \in IoType /\ 0 \in 0..Header + MaxPayload /\ Header + MaxPayload \in Nat
<1>1. <<>> \in Seq(Piece) /\ 0 \in 0..Header + MaxPayload /\ Header + MaxPayload \in Nat
  BY EmptySeq, RpcAssumption
<1> QED
  BY <1>1 DEF Idle, IoType, Steps

\* The state of a transfer that begins
LEMMA FreshIo ==
    ASSUME NEW out \in Seq(Piece), NEW n \in 0..Header + MaxPayload
    PROVE  /\ [Idle EXCEPT !.step = "ignore", !.out = out] \in IoType
           /\ [Idle EXCEPT !.step = "ignore", !.need = n] \in IoType
<1>1. <<>> \in Seq(Piece) /\ 0 \in 0..Header + MaxPayload
  BY EmptySeq, RpcAssumption
<1> QED
  BY <1>1 DEF Idle, IoType, Steps

\* A transfer begins, or an end has nothing to transfer.
LEMMA BeginTypes ==
    ASSUME PortTypes, NEW e \in Ends, NEW at \in Places, wire' = wire,
           \/ \E out \in Seq(Piece) : Send(e, out, at)
           \/ \E n \in 0..Header + MaxPayload : Receive(e, n, at)
           \/ GoTo(e, at)
    PROVE  PortTypes'
<1>1. pc' = [pc EXCEPT ![e] = at]
  BY DEF Send, Receive, GoTo
<1>2. \E r : r \in IoType /\ io' = [io EXCEPT ![e] = r]
  <2>1. ASSUME NEW out \in Seq(Piece), Send(e, out, at)
        PROVE  \E r : r \in IoType /\ io' = [io EXCEPT ![e] = r]
    BY <2>1, FreshIo, IdleIo DEF Send
  <2>2. ASSUME NEW n \in 0..Header + MaxPayload, Receive(e, n, at)
        PROVE  \E r : r \in IoType /\ io' = [io EXCEPT ![e] = r]
    <3>1. <<>> \in Seq(Piece)
      BY EmptySeq
    <3> QED
      BY <2>2, <3>1, FreshIo DEF Receive
  <2>3. CASE GoTo(e, at)
    BY <2>3, IdleIo DEF GoTo
  <2> QED
    BY <2>1, <2>2, <2>3
<1>4. PICK r : r \in IoType /\ io' = [io EXCEPT ![e] = r]
  BY <1>2
<1> HIDE DEF IoType, Places
<1> QED
  BY <1>1, <1>4 DEF PortTypes

\* A transfer that takes its next step
LEMMA StepTypes ==
    ASSUME PortTypes, NEW e \in Ends, NEW s \in Steps, Step(e, s), pc' = pc, wire' = wire
    PROVE  PortTypes'
<1>1. io[e] \in IoType
  BY DEF PortTypes
<1>2. PICK r : r = [io[e] EXCEPT !.step = s]
  OBVIOUS
<1>3. r \in IoType
  BY <1>1, <1>2 DEF IoType
<1>4. io' = [io EXCEPT ![e] = r]
  BY <1>2 DEF Step
<1> HIDE DEF IoType
<1> QED
  BY <1>3, <1>4 DEF PortTypes

\* Some pieces are taken by ::send.
LEMMA MoveOutTypes ==
    ASSUME PortTypes, NEW e \in Ends, MoveOut(e)
    PROVE  PortTypes'
<1>1. io[e] \in IoType /\ wire \in [Ends -> Seq(Piece)] /\ Peer(e) \in Ends
  BY EndIs DEF PortTypes
<1>2. PICK k \in 1..Len(io[e].out) :
         /\ wire' = [wire EXCEPT ![Peer(e)] = @ \o SubSeq(io[e].out, 1, k)]
         /\ io' = [io EXCEPT ![e].out = SubSeq(@, k + 1, Len(@)),
                             ![e].step = IF k = Len(io[e].out) THEN "restore" ELSE "move"]
  BY DEF MoveOut
<1>3. PICK x : x = io[e].out
  OBVIOUS
<1>4. x \in Seq(Piece) /\ k \in 1..Len(x)
  BY <1>1, <1>2, <1>3 DEF IoType
<1>5. SubSeq(x, 1, k) \in Seq(Piece) /\ SubSeq(x, k + 1, Len(x)) \in Seq(Piece)
  BY <1>4, Cut
<1>6. PICK a \in Seq(Piece), b \in Seq(Piece) : a = SubSeq(x, 1, k) /\ b = SubSeq(x, k + 1, Len(x))
  BY <1>5
<1>7. PICK r : r = [io[e] EXCEPT !.out = b, !.step = IF k = Len(x) THEN "restore" ELSE "move"]
  OBVIOUS
<1>8. r \in IoType
  BY <1>1, <1>7 DEF IoType, Steps
<1>9. io' = [io EXCEPT ![e] = r]
  BY <1>2, <1>3, <1>6, <1>7 DEF PortTypes
<1>10. wire[Peer(e)] \o a \in Seq(Piece)
  BY <1>1, ConcatProperties
<1>11. wire' = [wire EXCEPT ![Peer(e)] = wire[Peer(e)] \o a]
  BY <1>2, <1>3, <1>6
<1> HIDE DEF IoType
<1>12. io' \in [Ends -> IoType]
  BY <1>8, <1>9 DEF PortTypes
<1>13. wire' \in [Ends -> Seq(Piece)]
  BY <1>1, <1>10, <1>11
<1> QED
  BY <1>12, <1>13 DEF PortTypes, MoveOut, ports

\* ::recv has read some pieces.
LEMMA MoveInTypes ==
    ASSUME PortTypes, NEW e \in Ends, MoveIn(e)
    PROVE  PortTypes'
<1>1. io[e] \in IoType /\ wire \in [Ends -> Seq(Piece)] /\ wire[e] \in Seq(Piece)
  BY DEF PortTypes
<1>2. PICK k \in 1..io[e].need :
         /\ k <= Len(wire[e])
         /\ wire' = [wire EXCEPT ![e] = SubSeq(@, k + 1, Len(@))]
         /\ io' = [io EXCEPT ![e].in = @ \o SubSeq(wire[e], 1, k),
                             ![e].need = @ - k,
                             ![e].step = IF k = io[e].need THEN "restore" ELSE "move"]
  BY DEF MoveIn
<1>3. PICK x \in Seq(Piece) : x = wire[e]
  BY <1>1
<1>4. k \in 1..Len(x) /\ io[e].need \in 0..Header + MaxPayload /\ Header + MaxPayload \in Nat
  <2>1. Len(x) \in Nat
    BY LenProperties
  <2>2. io[e].need \in 0..Header + MaxPayload
    BY <1>1 DEF IoType
  <2>3. k \in Nat \ {0}
    BY <2>2, IdleIo
  <2> QED
    BY <1>2, <1>3, <2>1, <2>2, <2>3, IdleIo
<1>5. SubSeq(x, 1, k) \in Seq(Piece) /\ SubSeq(x, k + 1, Len(x)) \in Seq(Piece)
  BY <1>4, Cut
<1>6. PICK a \in Seq(Piece), b \in Seq(Piece) : a = SubSeq(x, 1, k) /\ b = SubSeq(x, k + 1, Len(x))
  BY <1>5
<1>7. PICK y \in Seq(Piece) : y = io[e].in \o a
  BY <1>1, ConcatProperties DEF IoType
<1>8. PICK n \in 0..Header + MaxPayload : n = io[e].need - k
  <2>1. io[e].need - k \in 0..Header + MaxPayload
    BY <1>4
  <2> QED
    BY <2>1
<1>9. PICK s \in Steps : s = IF k = io[e].need THEN "restore" ELSE "move"
  BY DEF Steps
<1>10. PICK r : r = [io[e] EXCEPT !.in = y, !.need = n, !.step = s]
  OBVIOUS
<1>11. r \in IoType
  BY <1>1, <1>10 DEF IoType
<1>12. io' = [io EXCEPT ![e] = r]
  BY <1>2, <1>3, <1>6, <1>7, <1>8, <1>9, <1>10 DEF PortTypes
<1>13. wire' = [wire EXCEPT ![e] = b]
  BY <1>2, <1>3, <1>6
<1> HIDE DEF IoType
<1>14. io' \in [Ends -> IoType]
  BY <1>11, <1>12 DEF PortTypes
<1>15. wire' \in [Ends -> Seq(Piece)]
  BY <1>1, <1>13
<1> QED
  BY <1>14, <1>15 DEF PortTypes, MoveIn, ports

\* A process ends.
LEMMA EndsTypes ==
    ASSUME Types, NEW p, ProcessEnds(p)
    PROVE  Types'
<1>1. PortTypes'
  <2>1. Idle \in IoType /\ "dead" \in Places
    BY IdleIo DEF Places, Gone
  <2> HIDE DEF IoType, Places
  <2> QED
    BY <2>1 DEF ProcessEnds, Types, PortTypes
<1>2. MessageTypes' /\ ChannelTypes'
  BY DEF ProcessEnds, Types, MessageTypes, ChannelTypes
<1> QED
  BY <1>1, <1>2 DEF Types

\* LocalChannel, SocketChannel: a step of a transfer
LEMMA TransferTypes ==
    ASSUME Types, NEW e \in Ends, Transfer(e)
    PROVE  Types'
<1>1. CASE UNCHANGED <<ports, wire, connected>> /\ (\E s \in Steps : Step(e, s))
           /\ (sigpipe' = sigpipe \/ \E v \in {"default", "ignored"} :
                                       sigpipe' = [sigpipe EXCEPT ![Process(e)] = v])
  <2>1. PortTypes'
    BY <1>1, StepTypes DEF Types, ports
  <2>2. MessageTypes' /\ ChannelTypes'
    BY <1>1 DEF Types, MessageTypes, ChannelTypes, ports
  <2> QED
    BY <2>1, <2>2 DEF Types
<1>2. CASE IgnoreSignal(e) \/ RestoreSignal(e) \/ ReceiveFails(e)
  BY <1>1, <1>2 DEF IgnoreSignal, RestoreSignal, ReceiveFails, Steps
<1>3. CASE SendFails(e)
  <2>1. CASE sigpipe[Process(e)] = "ignored"
    BY <1>1, <1>3, <2>1 DEF SendFails, Steps
  <2>2. CASE sigpipe[Process(e)] # "ignored"
    BY <1>3, <2>2, EndsTypes DEF SendFails
  <2> QED
    BY <2>1, <2>2
<1>4. CASE MoveOut(e)
  <2>1. MessageTypes' /\ ChannelTypes'
    BY <1>4 DEF MoveOut, Types, MessageTypes, ChannelTypes, ports
  <2> QED
    BY <1>4, <2>1, MoveOutTypes DEF Types
<1>5. CASE MoveIn(e)
  <2>1. MessageTypes' /\ ChannelTypes'
    BY <1>5 DEF MoveIn, Types, MessageTypes, ChannelTypes, ports
  <2> QED
    BY <1>5, <2>1, MoveInTypes DEF Types
<1> QED
  BY <1>2, <1>3, <1>4, <1>5 DEF Transfer

\* What is read as a header is a message.
LEMMA HeadersMessage ==
    ASSUME NEW in \in Seq(Piece) PROVE Headers(in) \subseteq Message
<1>1. CASE in = HeaderOf(in[1].m)
  <2>1. DOMAIN HeaderOf(in[1].m) = 1..Header /\ Header \in Nat \ {0}
    BY RpcAssumption DEF HeaderOf, Pieces
  <2>2. Len(in) \in Nat /\ DOMAIN in = 1..Len(in)
    BY LenProperties
  <2>3. 1 \in 1..Len(in)
    BY <1>1, <2>1, <2>2
  <2>4. in[1] \in Piece
    BY <2>3, ElementOfSeq
  <2> QED
    BY <1>1, <2>4 DEF Headers, HeaderOf, Piece
<1>2. CASE in # HeaderOf(in[1].m)
  BY <1>2 DEF Headers, HeaderOf
<1> QED
  BY <1>1, <1>2

ResultType == {"none", "pending", "returned", "peer", "thrown"}

\* An end throws, or has what it waited for, or waits for the payload.
LEMMA ThrowsTypes ==
    ASSUME PortTypes, MessageTypes, NEW e \in Ends, wire' = wire, Throws(e) \/ Received(e)
    PROVE  PortTypes' /\ result' \in [Conns -> ResultType]
<1>1. \E at \in Places : GoTo(e, at)
  BY DEF Throws, Received, Places, Gone
<1>2. PortTypes'
  BY <1>1, BeginTypes
<1>3. result' = result \/ result' = [result EXCEPT ![e[2]] = "thrown"]
  BY DEF Throws, Received
<1>4. result' \in [Conns -> ResultType]
  BY <1>3 DEF MessageTypes, ResultType
<1> QED
  BY <1>2, <1>4

\* Port::_receive, after the header
LEMMA ReceivePayloadTypes ==
    ASSUME PortTypes, MessageTypes, NEW e \in Ends, NEW m \in Message, wire' = wire,
           ReceivePayload(e, m)
    PROVE  PortTypes' /\ result' \in [Conns -> ResultType]
<1>1. CASE Throws(e) \/ Received(e)
  BY <1>1, ThrowsTypes
<1>2. CASE Receive(e, Len(Payload(m)), "recvPayload") /\ UNCHANGED result
  <2>1. PICK n : n = Len(Payload(m))
    OBVIOUS
  <2>2. n \in 0..Header + MaxPayload
    <3>1. n \in 0..MaxPayload /\ Header \in Nat /\ MaxPayload \in Nat
      BY <2>1, PayloadSeq, RpcAssumption
    <3> QED
      BY <3>1
  <2>3. "recvPayload" \in Places
    BY DEF Places, Receiving
  <2>4. PortTypes'
    BY <1>2, <2>1, <2>2, <2>3, BeginTypes
  <2> QED
    BY <1>2, <2>4 DEF MessageTypes, ResultType
<1> QED
  BY <1>1, <1>2 DEF ReceivePayload

\* One message is set.
LEMMA MessageSet ==
    ASSUME MessageTypes, NEW e \in Ends, NEW m \in Message, UNCHANGED <<calls, nextSequenceNumber>>,
           \/ sent' = [sent EXCEPT ![e] = m] /\ UNCHANGED got
           \/ got' = [got EXCEPT ![e] = m] /\ UNCHANGED sent
           \/ UNCHANGED <<sent, got>>,
           result' \in [Conns -> ResultType]
    PROVE  MessageTypes'
BY DEF MessageTypes, ResultType

\* A message is sent.
LEMMA SendMessageTypes ==
    ASSUME PortTypes, NEW e \in Ends, NEW m \in Message, wire' = wire, SendMessage(e, m)
    PROVE  PortTypes' /\ sent' = [sent EXCEPT ![e] = m]
<1>1. PICK x \in Seq(Piece) : x = Pieces(m, "header", Header)
  BY HeaderRead DEF HeaderOf
<1>2. Send(e, x, "sendHeader") /\ "sendHeader" \in Places
  BY <1>1 DEF SendMessage, Places, Sending
<1>3. PortTypes'
  BY <1>2, BeginTypes
<1> QED
  BY <1>3 DEF SendMessage

\* The steps of Port
LEMMA PortStepTypes ==
    ASSUME Types, NEW e \in Ends, PortStep(e)
    PROVE  Types'
<1> USE DEF Types
<1>1. ASSUME UNCHANGED channels PROVE ChannelTypes' /\ wire' = wire
  BY <1>1 DEF ChannelTypes, channels
<1>2. result \in [Conns -> ResultType]
  BY DEF MessageTypes, ResultType
<1>3. CASE SendPayload(e)
  <2>1. wire' = wire /\ ChannelTypes' /\ MessageTypes'
    BY <1>1, <1>3 DEF SendPayload, MessageTypes
  <2>2. PICK x : x = Payload(sent[e])
    OBVIOUS
  <2>3. x \in Seq(Piece) /\ "sendPayload" \in Places /\ "failed" \in Steps
    BY <2>2, PayloadSeq DEF MessageTypes, Places, Sending, Steps
  <2>4. (Step(e, "failed") /\ UNCHANGED pc) \/ Send(e, x, "sendPayload")
    BY <1>3, <2>2 DEF SendPayload
  <2>5. PortTypes'
    BY <2>1, <2>3, <2>4, BeginTypes, StepTypes
  <2> QED
    BY <2>1, <2>5
<1>4. CASE SendDone(e)
  <2>1. wire' = wire /\ ChannelTypes' /\ MessageTypes'
    BY <1>1, <1>4 DEF SendDone, MessageTypes
  <2>2. Header \in 0..Header + MaxPayload /\ "recvHeader" \in Places
    BY RpcAssumption DEF Places, Receiving
  <2>3. Receive(e, Header, "recvHeader")
    BY <1>4 DEF SendDone
  <2>4. PortTypes'
    BY <2>1, <2>2, <2>3, BeginTypes
  <2> QED
    BY <2>1, <2>4
<1>5. CASE ReceivedHeader(e)
  <2>1. io[e].in \in Seq(Piece)
    BY DEF PortTypes, IoType
  <2>2. PICK m \in Headers(io[e].in) : got' = [got EXCEPT ![e] = m] /\ ReceivePayload(e, m)
    BY <1>5 DEF ReceivedHeader
  <2>3. m \in Message
    BY <2>1, <2>2, HeadersMessage
  <2>4. wire' = wire /\ ChannelTypes' /\ UNCHANGED <<sent, calls, nextSequenceNumber>>
    BY <1>1, <1>5 DEF ReceivedHeader
  <2>5. PortTypes' /\ result' \in [Conns -> ResultType]
    BY <2>2, <2>3, <2>4, ReceivePayloadTypes
  <2>6. MessageTypes'
    BY <2>2, <2>3, <2>4, <2>5, MessageSet
  <2> QED
    BY <2>4, <2>5, <2>6
<1>6. CASE ReceivedPayload(e)
  <2>1. wire' = wire /\ ChannelTypes' /\ UNCHANGED <<sent, got, calls, nextSequenceNumber>>
    BY <1>1, <1>6 DEF ReceivedPayload
  <2>2. Throws(e) \/ Received(e)
    BY <1>6 DEF ReceivedPayload
  <2>3. PortTypes' /\ result' \in [Conns -> ResultType]
    BY <2>1, <2>2, ThrowsTypes
  <2>4. MessageTypes'
    BY <2>1, <2>3, MessageSet DEF MessageTypes
  <2> QED
    BY <2>1, <2>3, <2>4
<1> QED
  BY <1>3, <1>4, <1>5, <1>6, TransferTypes DEF PortStep

\* The steps of the client's call
LEMMA CallTypes ==
    ASSUME Types, NEW c \in Conns,
           \/ \E len \in 0..MaxPayload : Call(c, len)
           \/ CallFails(Client(c)) \/ CheckResponse(c)
    PROVE  Types'
<1> USE DEF Types
<1>1. Client(c) \in Ends /\ Client(c)[2] = c
  BY EndsOf
<1>2. ASSUME UNCHANGED channels PROVE ChannelTypes' /\ wire' = wire
  BY <1>2 DEF ChannelTypes, channels
<1>3. ASSUME NEW len \in 0..MaxPayload, Call(c, len) PROVE Types'
  <2>1. wire' = wire /\ ChannelTypes'
    BY <1>2, <1>3 DEF Call
  <2>2. PICK n : n = calls[c] + 1
    OBVIOUS
  <2>3. n \in 0..MaxCalls
    BY <1>3, <2>2, RpcAssumption DEF Call, MessageTypes
  <2>4. PICK type \in {"embedded", "data"} : type = IF len = 0 THEN "embedded" ELSE "data"
    OBVIOUS
  <2>5. PICK m : m = [call |-> n, seq |-> nextSequenceNumber[c], type |-> type, len |-> len,
                      status |-> "request"]
    OBVIOUS
  <2>6. m \in Message
    BY <2>3, <2>4, <2>5 DEF Message, MessageTypes
  <2>7. SendMessage(Client(c), m)
    BY <1>3, <2>2, <2>4, <2>5 DEF Call
  <2>8. PortTypes' /\ sent' = [sent EXCEPT ![Client(c)] = m]
    BY <1>1, <2>1, <2>6, <2>7, SendMessageTypes
  <2>9. nextSequenceNumber' \in [Conns -> Seqs]
    <3>1. PICK N \in Nat \ {0} : N = 2^SeqBits
      BY RpcAssumption
    <3>2. Seqs = 0..N - 1
      BY <3>1 DEF Seqs
    <3>3. nextSequenceNumber[c] \in Seqs
      BY DEF MessageTypes
    <3>4. PICK x \in 0..N - 1 : x = nextSequenceNumber[c]
      BY <3>2, <3>3
    <3>5. (x + 1) % N \in 0..N - 1
      OBVIOUS
    <3>6. nextSequenceNumber' = [nextSequenceNumber EXCEPT ![c] = (x + 1) % N]
      BY <1>3, <3>1, <3>4 DEF Call
    <3>7. PICK y \in Seqs : y = (x + 1) % N
      BY <3>2, <3>5
    <3> HIDE DEF Seqs
    <3> QED
      BY <3>6, <3>7 DEF MessageTypes
  <2>10. calls' = [calls EXCEPT ![c] = n] /\ result' = [result EXCEPT ![c] = "pending"] /\ got' = got
    BY <1>3, <2>2 DEF Call
  <2>11. MessageTypes'
    BY <1>1, <2>3, <2>6, <2>8, <2>9, <2>10 DEF MessageTypes
  <2> QED
    BY <2>1, <2>8, <2>11
<1>4. CASE CallFails(Client(c))
  <2>1. wire' = wire /\ ChannelTypes' /\ UNCHANGED <<sent, got, calls, nextSequenceNumber>>
    BY <1>2, <1>4 DEF CallFails
  <2>2. PortTypes' /\ result' \in [Conns -> ResultType]
    BY <1>1, <1>4, <2>1, ThrowsTypes DEF CallFails
  <2>3. MessageTypes'
    BY <2>1, <2>2 DEF MessageTypes, ResultType
  <2> QED
    BY <2>1, <2>2, <2>3
<1>5. CASE CheckResponse(c)
  <2>1. wire' = wire /\ ChannelTypes' /\ UNCHANGED <<sent, got, calls, nextSequenceNumber>>
    BY <1>2, <1>5 DEF CheckResponse
  <2>2. GoTo(Client(c), "idle") /\ "idle" \in Places
    BY <1>5 DEF CheckResponse, Places
  <2>3. PortTypes'
    BY <1>1, <2>1, <2>2, BeginTypes
  <2>4. \E v \in ResultType : result' = [result EXCEPT ![c] = v]
    BY <1>5 DEF CheckResponse, ResultType
  <2>5. MessageTypes'
    BY <2>1, <2>4 DEF MessageTypes, ResultType
  <2> QED
    BY <2>1, <2>3, <2>5
<1> QED
  BY <1>3, <1>4, <1>5

\* The steps of the worker
LEMMA WorkerTypes ==
    ASSUME Types, NEW c \in Conns,
           \/ \E type \in {"embedded", "data", "handles"}, len \in 0..MaxPayload,
                 status \in {"success", "failed"} : Handle(c, type, len, status)
           \/ HandlerFails(c) \/ ReplyFails(c) \/ WaitFails(c) \/ ClosePort(c)
    PROVE  Types'
<1> USE DEF Types
<1>1. Server(c) \in Ends
  BY EndsOf
<1>2. ASSUME UNCHANGED channels PROVE ChannelTypes' /\ wire' = wire
  BY <1>2 DEF ChannelTypes, channels
<1>3. ASSUME NEW type \in {"embedded", "data", "handles"}, NEW len \in 0..MaxPayload,
             NEW status \in {"success", "failed"}, Reply(c, type, len, status),
             UNCHANGED <<got, calls, nextSequenceNumber, result, channels>>
      PROVE  Types'
  <2>1. PICK m : m = [got[Server(c)] EXCEPT !.type = type, !.len = len, !.status = status]
    OBVIOUS
  <2>2. got[Server(c)] \in Message
    BY <1>1 DEF MessageTypes
  <2>3. m \in Message
    BY <2>1, <2>2 DEF Message
  <2>4. wire' = wire /\ ChannelTypes'
    BY <1>2, <1>3
  <2>5. SendMessage(Server(c), m)
    BY <1>3, <2>1 DEF Reply
  <2>6. PortTypes' /\ sent' = [sent EXCEPT ![Server(c)] = m]
    BY <1>1, <2>3, <2>4, <2>5, SendMessageTypes
  <2>7. MessageTypes'
    BY <1>1, <1>3, <2>3, <2>6 DEF MessageTypes
  <2> QED
    BY <2>4, <2>6, <2>7
<1>4. ASSUME NEW type \in {"embedded", "data", "handles"}, NEW len \in 0..MaxPayload,
             NEW status \in {"success", "failed"}, Handle(c, type, len, status)
      PROVE  Types'
  BY <1>3, <1>4 DEF Handle
<1>5. CASE ReplyFails(c)
  <2>1. CASE sent[Server(c)].status = "failed"
    <3>1. wire' = wire /\ ChannelTypes'
      BY <1>2, <1>5 DEF ReplyFails
    <3>2. GoTo(Server(c), "over") /\ "over" \in Places
      BY <1>5, <2>1 DEF ReplyFails, Places, Gone
    <3>3. PortTypes'
      BY <1>1, <3>1, <3>2, BeginTypes
    <3>4. MessageTypes'
      BY <1>5, <2>1 DEF ReplyFails, MessageTypes
    <3> QED
      BY <3>1, <3>3, <3>4
  <2>2. CASE sent[Server(c)].status # "failed"
    <3>1. 1 \in 0..MaxPayload
      BY RpcAssumption
    <3>2. Reply(c, "data", 1, "failed") /\ UNCHANGED <<got, calls, nextSequenceNumber, result, channels>>
      BY <1>5, <2>2 DEF ReplyFails
    <3> QED
      BY <1>3, <3>1, <3>2
  <2> QED
    BY <2>1, <2>2
<1>6. CASE WaitFails(c)
  <2>1. wire' = wire /\ ChannelTypes' /\ UNCHANGED <<sent, got, calls, nextSequenceNumber>>
    BY <1>2, <1>6 DEF WaitFails
  <2>2. PortTypes' /\ result' \in [Conns -> ResultType]
    BY <1>1, <1>6, <2>1, ThrowsTypes DEF WaitFails
  <2>3. MessageTypes'
    BY <2>1, <2>2 DEF MessageTypes, ResultType
  <2> QED
    BY <2>1, <2>2, <2>3
<1>7. CASE ClosePort(c)
  <2>1. PortTypes' /\ MessageTypes'
    BY <1>7 DEF ClosePort, PortTypes, MessageTypes, ports
  <2>2. ChannelTypes'
    BY <1>1, <1>7 DEF ClosePort, ChannelTypes
  <2> QED
    BY <2>1, <2>2
<1>8. CASE HandlerFails(c)
  <2>1. wire' = wire /\ ChannelTypes' /\ UNCHANGED <<sent, got, calls, nextSequenceNumber, result>>
    BY <1>2, <1>8 DEF HandlerFails
  <2>2. GoTo(Server(c), "over") /\ "over" \in Places
    BY <1>8 DEF HandlerFails, Places, Gone
  <2>3. PortTypes'
    BY <1>1, <2>1, <2>2, BeginTypes
  <2>4. MessageTypes'
    BY <2>1 DEF MessageTypes
  <2> QED
    BY <2>1, <2>3, <2>4
<1> QED
  BY <1>4, <1>5, <1>6, <1>7, <1>8

\* The state in which the program starts
LEMMA InitTypes == ASSUME Init PROVE Types
<1>1. NoMessage \in Message
  <2>1. 0 \in Seqs
    BY RpcAssumption DEF Seqs
  <2> QED
    BY <2>1, RpcAssumption DEF NoMessage, Message
<1>2. PortTypes
  <2>1. Idle \in IoType
    BY IdleIo
  <2>2. [Idle EXCEPT !.step = "ignore", !.need = Header] \in IoType
    <3>1. Header \in 0..Header + MaxPayload /\ <<>> \in Seq(Piece)
      BY RpcAssumption, EmptySeq
    <3> QED
      BY <3>1, FreshIo
  <2>3. <<>> \in Seq(Piece)
    BY EmptySeq
  <2>4. pc \in [Ends -> Places]
    BY DEF Init, Places, Receiving
  <2> HIDE DEF IoType
  <2>5. PICK r \in IoType : r = [Idle EXCEPT !.step = "ignore", !.need = Header]
    BY <2>2
  <2>6. io = [e \in Ends |-> IF IsServer(e) THEN r ELSE Idle]
    BY <2>5 DEF Init
  <2>7. io \in [Ends -> IoType]
    BY <2>1, <2>6
  <2>8. wire \in [Ends -> Seq(Piece)]
    BY <2>3 DEF Init
  <2> QED
    BY <2>4, <2>7, <2>8 DEF PortTypes
<1>3. MessageTypes
  BY <1>1, RpcAssumption DEF Init, MessageTypes
<1>4. ChannelTypes
  BY DEF Init, ChannelTypes
<1> QED
  BY <1>2, <1>3, <1>4 DEF Types

\* Every variable keeps its type.
THEOREM TypesKept == Spec => []Types
<1>1. Init => Types
  BY InitTypes
<1>2. Types /\ [Next]_vars => Types'
  <2> SUFFICES ASSUME Types, [Next]_vars PROVE Types'
    OBVIOUS
  <2>1. CASE UNCHANGED vars
    BY <2>1 DEF vars, Types, PortTypes, MessageTypes, ChannelTypes
  <2>2. ASSUME NEW c \in Conns,
               \/ \E len \in 0..MaxPayload : Call(c, len)
               \/ ClientStep(c) \/ ServerStep(c) \/ ClientLeaves(c)
        PROVE  Types'
    <3>1. Client(c) \in Ends /\ Server(c) \in Ends
      BY EndsOf
    <3>2. CASE PortStep(Client(c)) \/ PortStep(Server(c))
      BY <3>1, <3>2, PortStepTypes
    <3>3. CASE (\E len \in 0..MaxPayload : Call(c, len)) \/ CallFails(Client(c)) \/ CheckResponse(c)
      BY <3>3, CallTypes
    <3>4. CASE \/ \E type \in {"embedded", "data", "handles"}, len \in 0..MaxPayload,
                     status \in {"success", "failed"} : Handle(c, type, len, status)
               \/ HandlerFails(c) \/ ReplyFails(c) \/ WaitFails(c) \/ ClosePort(c)
      BY <3>4, WorkerTypes
    <3>5. CASE ClientLeaves(c)
      <4>1. "dead" \in Places
        BY DEF Places, Gone
      <4> HIDE DEF Places, IoType
      <4> QED
        BY <3>1, <3>5, <4>1 DEF ClientLeaves, Types, PortTypes, MessageTypes, ChannelTypes
    <3> QED
      BY <2>2, <3>2, <3>3, <3>4, <3>5 DEF ClientStep, ServerStep
  <2>3. ASSUME NEW p \in Clients, ClientDies(p) PROVE Types'
    BY <2>3, EndsTypes DEF ClientDies
  <2> QED
    BY <2>1, <2>2, <2>3 DEF Next
<1> QED
  BY <1>1, <1>2, PTL DEF Spec

\* TypeOK: no index, message or state of a port or channel leaves its range,
\* for any number of connections, calls and pieces.
THEOREM TypeCorrect == Spec => []TypeOK
<1>1. Types => TypeOK
  BY DEF Types, PortTypes, MessageTypes, ChannelTypes, TypeOK, IoType, Steps, Places, Sending,
     Receiving, Gone
<1> QED
  BY <1>1, TypesKept, PTL

-----------------------------------------------------------------------------
(* What two ends agree on                                                  *)

\* The part of a message that an end has read
Taken(e) ==
    IF pc[e] = "recvHeader" THEN io[e].in
    ELSE IF pc[e] = "recvPayload" THEN Cat(HeaderOf(got[e]), io[e].in) ELSE <<>>

\* The part of a message that an end has still to send
Unsent(e) ==
    IF pc[e] = "sendHeader" THEN Cat(io[e].out, Payload(sent[e]))
    ELSE IF pc[e] = "sendPayload" THEN io[e].out ELSE <<>>

\* What end e reads of the message of p
Flow(e, p) == Cat(Cat(Taken(e), wire[e]), Unsent(p))

SendInv(e) == pc[e] \in Sending =>
    /\ io[e].step # "off" /\ io[e].in = <<>> /\ io[e].need = 0
    /\ io[e].step \in {"ignore", "move", "undo", "failed"} => io[e].out # <<>>
    /\ io[e].step \in {"restore", "done"} => io[e].out = <<>>

ReceiveInv(e) == pc[e] \in Receiving =>
    /\ io[e].step # "off" /\ io[e].out = <<>>
    /\ io[e].need + Len(io[e].in) = IF pc[e] = "recvHeader" THEN Header ELSE Len(Payload(got[e]))
    /\ io[e].step \in {"ignore", "move", "undo", "failed"} => io[e].need > 0
    /\ io[e].step \in {"restore", "done"} => io[e].need = 0
    /\ pc[e] = "recvPayload" => Payload(got[e]) # <<>>

IoInv(e) ==
    /\ SendInv(e) /\ ReceiveInv(e)
    /\ pc[e] \notin Sending \cup Receiving => io[e] = Idle

\* A transfer fails when the other end is gone and has left nothing behind.
FailInv(e, p) == io[e].step \in {"undo", "failed"} =>
    ~connected[p] /\ (pc[e] \in Receiving => wire[e] = <<>>)

PlaceInv(c) ==
    /\ pc[Client(c)] \in Sending \cup Receiving \cup {"idle", "check", "dead"}
    /\ pc[Server(c)] \in Sending \cup Receiving \cup {"dispatch", "over", "dead"}
    /\ connected[Client(c)] <=> pc[Client(c)] # "dead"
    /\ ~connected[Server(c)] => pc[Server(c)] \in Gone

MessageInv(c) ==
    /\ sent[Client(c)].call = calls[c] /\ sent[Client(c)].type \in {"embedded", "data"}
    /\ sent[Server(c)].type # "other"
    /\ pc[Server(c)] \in {"recvPayload", "dispatch"} => got[Server(c)] = sent[Client(c)]
    /\ pc[Client(c)] \in {"recvPayload", "check"} => got[Client(c)] = sent[Server(c)]
    /\ result[c] \in {"returned", "peer"} => got[Client(c)].call = calls[c]
    /\ pc[Client(c)] \notin {"idle", "dead"} => result[c] = "pending"

ToServer(c) == Flow(Server(c), Client(c))
ToClient(c) == Flow(Client(c), Server(c))

\* What is under way is the front of the message that was sent last.
FlowInv(c) ==
    /\ pc[Server(c)] \notin Gone => Prefix(ToServer(c), Full(sent[Client(c)]))
    /\ pc[Client(c)] # "dead" => Prefix(ToClient(c), Full(sent[Server(c)]))

\* Only one end speaks.
TurnInv(c) ==
    /\ pc[Client(c)] = "idle" =>
         ToClient(c) = <<>> /\ (pc[Server(c)] \notin Gone => ToServer(c) = <<>>)
    /\ pc[Client(c)] # "dead" /\ (ToClient(c) # <<>> \/ pc[Client(c)] = "check") =>
         /\ sent[Server(c)].call = calls[c] /\ Unsent(Client(c)) = <<>>
         /\ pc[Server(c)] \notin Gone => ToServer(c) = <<>>
         /\ pc[Server(c)] # "dispatch"
    /\ pc[Client(c)] = "check" => ToClient(c) = <<>>
    /\ pc[Server(c)] = "dispatch" => ToServer(c) = <<>> /\ pc[Client(c)] # "idle"

Conv(c) ==
    /\ IoInv(Client(c)) /\ IoInv(Server(c))
    /\ FailInv(Client(c), Server(c)) /\ FailInv(Server(c), Client(c))
    /\ PlaceInv(c) /\ MessageInv(c) /\ FlowInv(c) /\ TurnInv(c)

\* What was sent and read last determines the answer.
LEMMA ConvInStep ==
    ASSUME Types, \A c \in Conns : Conv(c)
    PROVE  InStep
<1> SUFFICES ASSUME NEW c \in Conns
    PROVE  /\ result[c] \in {"returned", "peer"} => got[Client(c)].call = calls[c]
           /\ pc[Server(c)] = "dispatch" =>
                  got[Server(c)] = [sent[Client(c)] EXCEPT !.call = calls[c]]
  BY DEF InStep
<1>1. MessageInv(c)
  BY DEF Conv
<1>2. sent[Client(c)] \in Message
  BY EndsOf DEF Types, MessageTypes
<1>3. ASSUME NEW m \in Message PROVE [m EXCEPT !.call = m.call] = m
  BY DEF Message
<1> QED
  BY <1>1, <1>2, <1>3 DEF MessageInv

-----------------------------------------------------------------------------
(* An end whose turn it is goes on                                         *)

\* An end that nobody touches
EndSame(x) == pc'[x] = pc[x] /\ io'[x] = io[x] /\ sent'[x] = sent[x] /\ got'[x] = got[x]

\* It has read and has still to send what it had before.
LEMMA EndLeft ==
    ASSUME NEW x, EndSame(x)
    PROVE  Taken(x)' = Taken(x) /\ Unsent(x)' = Unsent(x) /\ (IoInv(x) => IoInv(x)')
<1>1. Taken(x)' = Taken(x)
  BY DEF EndSame, Taken
<1>2. Unsent(x)' = Unsent(x)
  BY DEF EndSame, Unsent
<1>3. IoInv(x) => IoInv(x)'
  BY DEF EndSame, IoInv, SendInv, ReceiveInv
<1> QED
  BY <1>1, <1>2, <1>3

\* End e goes on with its transfers.  No piece is lost or added.
Moved(e, p) ==
    /\ pc[e] \in Sending \cup Receiving /\ pc'[e] \in Sending \cup Receiving
    /\ IoInv(e)' /\ FailInv(e, p)'
    /\ EndSame(p) /\ sent'[e] = sent[e] /\ UNCHANGED <<connected, calls, result>>
    /\ pc'[e] = "recvPayload" => got'[e] = sent[p]
    /\ Flow(e, p)' = Flow(e, p) /\ Flow(p, e)' = Flow(p, e)
    /\ Unsent(e) = <<>> => Unsent(e)' = <<>>

\* The client goes on, and both ends still agree.
LEMMA ClientMoved ==
    ASSUME NEW c \in Conns, Conv(c), Moved(Client(c), Server(c))
    PROVE  Conv(c)'
<1>1. PICK k, s : k = Client(c) /\ s = Server(c)
  OBVIOUS
<1> USE DEF Moved
<1>2. IoInv(k)' /\ IoInv(s)' /\ FailInv(k, s)'
  BY <1>1, EndLeft DEF Conv
<1>3. connected[k]
  BY <1>1 DEF Conv, PlaceInv, Sending, Receiving
<1>4. FailInv(s, k)'
  BY <1>1, <1>3 DEF Conv, FailInv, EndSame
<1>5. PlaceInv(c)'
  BY <1>1 DEF Conv, PlaceInv, EndSame, Sending, Receiving, Gone
<1>6. MessageInv(c)'
  BY <1>1 DEF Conv, MessageInv, EndSame, Sending, Receiving
<1>7. FlowInv(c)'
  BY <1>1 DEF Conv, FlowInv, EndSame, Sending, Receiving, Gone, ToServer, ToClient
<1>8. TurnInv(c)'
  BY <1>1 DEF Conv, TurnInv, EndSame, Sending, Receiving, ToServer, ToClient
<1> QED
  BY <1>1, <1>2, <1>4, <1>5, <1>6, <1>7, <1>8 DEF Conv

-----------------------------------------------------------------------------
(* Transfers                                                               *)

\* The server goes on, and both ends still agree.
LEMMA ServerMoved ==
    ASSUME NEW c \in Conns, Conv(c), Moved(Server(c), Client(c))
    PROVE  Conv(c)'
<1>1. PICK k, s : k = Client(c) /\ s = Server(c)
  OBVIOUS
<1> USE DEF Moved
<1>2. IoInv(k)' /\ IoInv(s)' /\ FailInv(s, k)' /\ Unsent(k)' = Unsent(k)
  BY <1>1, EndLeft DEF Conv
<1>3. connected[s]
  BY <1>1 DEF Conv, PlaceInv, Sending, Receiving, Gone
<1>4. FailInv(k, s)'
  BY <1>1, <1>3 DEF Conv, FailInv, EndSame
<1>5. PlaceInv(c)'
  BY <1>1 DEF Conv, PlaceInv, EndSame, Sending, Receiving, Gone
<1>6. MessageInv(c)'
  BY <1>1 DEF Conv, MessageInv, EndSame, Sending, Receiving
<1>7. FlowInv(c)'
  BY <1>1 DEF Conv, FlowInv, EndSame, Sending, Receiving, Gone, ToServer, ToClient
<1>8. TurnInv(c)'
  BY <1>1, <1>2 DEF Conv, TurnInv, EndSame, Sending, Receiving, Gone, ToServer, ToClient
<1> QED
  BY <1>1, <1>2, <1>4, <1>5, <1>6, <1>7, <1>8 DEF Conv

\* Nothing before or after a sequence
LEMMA CatEmpty ==
    ASSUME NEW T, NEW x \in Seq(T)
    PROVE  Cat(x, <<>>) = x /\ Cat(<<>>, x) = x /\ <<>> \in Seq(T) /\ Len(<<>>) = 0
BY ConcatEmptySeq, EmptySeq DEF Cat

\* The types of what belongs to an end
EndTypes(e) ==
    /\ io[e] \in IoType /\ sent[e] \in Message /\ got[e] \in Message
    /\ wire[e] \in Seq(Piece) /\ Taken(e) \in Seq(Piece) /\ Unsent(e) \in Seq(Piece)

\* They follow from those of the state.
LEMMA EndTyped ==
    ASSUME Types, NEW e \in Ends
    PROVE  EndTypes(e)
<1>1. io[e] \in IoType /\ sent[e] \in Message /\ got[e] \in Message /\ wire[e] \in Seq(Piece)
  BY DEF Types, PortTypes, MessageTypes
<1>2. io[e].in \in Seq(Piece) /\ io[e].out \in Seq(Piece) /\ <<>> \in Seq(Piece)
  BY <1>1, EmptySeq DEF IoType
<1>3. HeaderOf(got[e]) \in Seq(Piece) /\ Payload(sent[e]) \in Seq(Piece)
  BY <1>1, HeaderRead, PayloadSeq
<1>4. Cat(HeaderOf(got[e]), io[e].in) \in Seq(Piece) /\ Cat(io[e].out, Payload(sent[e])) \in Seq(Piece)
  BY <1>2, <1>3, CatSeq
<1> QED
  BY <1>1, <1>2, <1>4 DEF EndTypes, Taken, Unsent

\* What an end relies on when it goes on
Ready(e, p) ==
    /\ p = Peer(e) /\ e # p
    /\ IoInv(e) /\ FailInv(e, p)
    /\ pc[e] = "recvPayload" => got[e] = sent[p]

\* A transfer under way
LEMMA StepMoved ==
    ASSUME Types, NEW e \in Ends, NEW p \in Ends, Ready(e, p), NEW st, Step(e, st), io[e].step # "off",
           UNCHANGED <<pc, sent, got, wire, connected, calls, result>>,
           \/ io[e].step \in {"ignore", "move"} /\ st \in {"move", "undo"}
           \/ io[e].step = "restore" /\ st = "done"
           \/ io[e].step = "undo" /\ st = "failed",
           FailInv(e, p)'
    PROVE  Moved(e, p)
<1> USE DEF Ready
<1>1. io \in [Ends -> IoType]
  BY DEF Types, PortTypes
<1>2. io'[e] = [io[e] EXCEPT !.step = st] /\ io'[p] = io[p]
  BY <1>1 DEF Step
<1>3. io'[e].step = st /\ io'[e].in = io[e].in /\ io'[e].out = io[e].out /\ io'[e].need = io[e].need
  BY <1>1, <1>2 DEF IoType
<1>4. pc[e] \in Sending \cup Receiving
  BY DEF IoInv, Idle
<1>5. Taken(e)' = Taken(e) /\ Unsent(e)' = Unsent(e)
  BY <1>3 DEF Taken, Unsent
<1>6. EndSame(p)
  BY <1>2 DEF EndSame
<1>7. Taken(p)' = Taken(p) /\ Unsent(p)' = Unsent(p)
  BY <1>6, EndLeft
<1>8. IoInv(e)'
  BY <1>3, <1>4 DEF IoInv, SendInv, ReceiveInv, Idle
<1>9. Flow(e, p)' = Flow(e, p) /\ Flow(p, e)' = Flow(p, e)
  BY <1>5, <1>7 DEF Flow
<1>10. pc[e] = "recvPayload" => got[e] = sent[p]
  OBVIOUS
<1> QED
  BY <1>4, <1>5, <1>6, <1>8, <1>9, <1>10 DEF Moved

\* SIGPIPE is ignored before a transfer and set back after it.
LEMMA SignalMoved ==
    ASSUME Types, NEW e \in Ends, NEW p \in Ends, Ready(e, p),
           IgnoreSignal(e) \/ RestoreSignal(e)
    PROVE  Moved(e, p)
<1>1. UNCHANGED <<pc, sent, got, wire, connected, calls, result>>
  BY DEF IgnoreSignal, RestoreSignal, ports
<1>2. io \in [Ends -> IoType]
  BY DEF Types, PortTypes
<1>3. CASE IgnoreSignal(e)
  <2>1. Step(e, "move") /\ io[e].step = "ignore"
    BY <1>3 DEF IgnoreSignal
  <2>2. io'[e].step = "move"
    BY <1>2, <2>1 DEF Step, IoType
  <2>3. FailInv(e, p)'
    BY <2>2 DEF FailInv
  <2> QED
    BY <1>1, <2>1, <2>3, StepMoved
<1>4. CASE RestoreSignal(e)
  <2>1. PICK st \in {"done", "failed"} :
           /\ Step(e, st) /\ io[e].step \in {"restore", "undo"}
           /\ st = IF io[e].step = "restore" THEN "done" ELSE "failed"
    BY <1>4 DEF RestoreSignal
  <2>2. io'[e].step = st
    BY <1>2, <2>1 DEF Step, IoType
  <2>3. FailInv(e, p)'
    BY <1>1, <2>1, <2>2 DEF FailInv, Ready
  <2> QED
    BY <1>1, <2>1, <2>3, StepMoved
<1> QED
  BY <1>3, <1>4

\* A transfer fails because the other end is gone.
LEMMA FailsMoved ==
    ASSUME Types, NEW e \in Ends, NEW p \in Ends, Ready(e, p),
           \/ SendFails(e) /\ ~ProcessEnds(Process(e))
           \/ ReceiveFails(e)
    PROVE  Moved(e, p)
<1>1. /\ Step(e, "undo") /\ io[e].step = "move" /\ ~connected[p]
      /\ UNCHANGED <<pc, sent, got, wire, connected, calls, result>>
      /\ io[e].out # <<>> \/ wire[e] = <<>>
  BY DEF SendFails, ReceiveFails, ports, Ready
<1>2. FailInv(e, p)'
  <2>1. pc[e] \in Receiving => io[e].out = <<>>
    BY DEF Ready, IoInv, ReceiveInv
  <2> QED
    BY <1>1, <2>1 DEF FailInv
<1> QED
  BY <1>1, <1>2, StepMoved

\* What has been sent of a message is under way.
LEMMA SentMoved ==
    ASSUME Types, NEW e \in Ends, NEW p \in Ends, Ready(e, p), MoveOut(e)
    PROVE  Moved(e, p)
<1>1. io \in [Ends -> IoType] /\ wire \in [Ends -> Seq(Piece)]
  BY DEF Types, PortTypes
<1>2. /\ UNCHANGED <<pc, sent, got, connected, calls, result>>
      /\ io[e].step = "move" /\ io[e].out # <<>>
      /\ p = Peer(e) /\ e # p
  BY DEF MoveOut, ports, Ready
<1>3. pc[e] \in Sending /\ io[e].in = <<>> /\ io[e].need = 0
  BY <1>2 DEF Ready, IoInv, SendInv, ReceiveInv, Idle
<1>4. PICK x \in Seq(Piece) : x = io[e].out
  BY <1>1 DEF IoType
<1>5. PICK k \in 1..Len(x) :
         /\ wire' = [wire EXCEPT ![p] = @ \o SubSeq(x, 1, k)]
         /\ io' = [io EXCEPT ![e].out = SubSeq(@, k + 1, Len(@)),
                             ![e].step = IF k = Len(x) THEN "restore" ELSE "move"]
  BY <1>2, <1>4 DEF MoveOut
<1>6. /\ SubSeq(x, k + 1, Len(x)) \in Seq(Piece)
      /\ Len(SubSeq(x, k + 1, Len(x))) = Len(x) - k /\ Len(x) \in Nat
  BY Cut, LenProperties
<1>7. PICK y \in Seq(Piece) : y = SubSeq(x, k + 1, Len(x))
  BY <1>6
<1>8. PICK st : st = IF k = Len(x) THEN "restore" ELSE "move"
  OBVIOUS
<1>9. io'[e] = [io[e] EXCEPT !.out = y, !.step = st] /\ io'[p] = io[p]
  BY <1>1, <1>2, <1>4, <1>5, <1>7, <1>8
<1>10. io'[e].step = st /\ io'[e].out = y /\ io'[e].in = <<>> /\ io'[e].need = 0
  BY <1>1, <1>3, <1>9 DEF IoType
<1>11. wire'[e] = wire[e] /\ wire'[p] = Cat(wire[p], SubSeq(x, 1, k))
  BY <1>1, <1>2, <1>5 DEF Cat
<1>12. y = <<>> <=> k = Len(x)
  <2>1. y = <<>> <=> Len(y) = 0
    BY EmptySeq
  <2>2. Len(y) = Len(x) - k /\ Len(x) \in Nat
    BY <1>6, <1>7
  <2> QED
    BY <2>1, <2>2
<1>13. EndSame(p)
  BY <1>2, <1>9 DEF EndSame
<1>14. Taken(p)' = Taken(p) /\ Unsent(p)' = Unsent(p)
  BY <1>13, EndLeft
<1>15. IoInv(e)'
  <2>1. SendInv(e)'
    BY <1>8, <1>10, <1>12 DEF SendInv
  <2> QED
    BY <2>1, <1>2, <1>3 DEF IoInv, ReceiveInv, Sending, Receiving
<1>16. FailInv(e, p)'
  BY <1>8, <1>10 DEF FailInv
<1>17. PICK z \in Seq(Piece) : z = IF pc[e] = "sendHeader" THEN Payload(sent[e]) ELSE <<>>
  BY PayloadSeq, EndTyped, EmptySeq DEF EndTypes
<1>18. Unsent(e) = Cat(x, z) /\ Unsent(e)' = Cat(y, z) /\ Taken(e)' = Taken(e)
  <2>1. CASE pc[e] = "sendHeader"
    BY <2>1, <1>2, <1>4, <1>10, <1>17 DEF Unsent, Taken
  <2>2. CASE pc[e] = "sendPayload"
    <3>1. Cat(x, z) = x /\ Cat(y, z) = y
      BY <2>2, <1>17, CatEmpty
    <3> QED
      BY <2>2, <3>1, <1>2, <1>4, <1>10 DEF Unsent, Taken
  <2> QED
    BY <1>3, <2>1, <2>2 DEF Sending
<1>19. Flow(p, e)' = Flow(p, e)
  <2>1. PICK t \in Seq(Piece) : t = Taken(p)
    BY EndTyped DEF EndTypes
  <2>2. PICK w \in Seq(Piece) : w = wire[p]
    BY <1>1
  <2>3. Cat(Cat(t, Cat(w, SubSeq(x, 1, k))), Cat(SubSeq(x, k + 1, Len(x)), z)) = Cat(Cat(t, w), Cat(x, z))
    BY Giving
  <2> QED
    BY <2>1, <2>2, <2>3, <1>7, <1>11, <1>14, <1>18 DEF Flow
<1>20. Flow(e, p)' = Flow(e, p)
  BY <1>11, <1>14, <1>18 DEF Flow
<1>21. Unsent(e) # <<>>
  <2>1. Cat(x, z) = <<>> => x = <<>>
    BY ConcatEqualIffEmpty DEF Cat
  <2> QED
    BY <2>1, <1>2, <1>4, <1>18
<1> QED
  BY <1>2, <1>3, <1>13, <1>15, <1>16, <1>19, <1>20, <1>21 DEF Moved, Sending

\* What has been read of a message is no longer under way.
LEMMA ReadMoved ==
    ASSUME Types, NEW e \in Ends, NEW p \in Ends, Ready(e, p), MoveIn(e)
    PROVE  Moved(e, p)
<1>1. io \in [Ends -> IoType] /\ wire \in [Ends -> Seq(Piece)]
  BY DEF Types, PortTypes
<1>2. /\ UNCHANGED <<pc, sent, got, connected, calls, result>>
      /\ io[e].step = "move" /\ io[e].need > 0
      /\ p = Peer(e) /\ e # p
  BY DEF MoveIn, ports, Ready
<1>3. pc[e] \in Receiving /\ io[e].out = <<>>
  BY <1>2 DEF Ready, IoInv, SendInv, ReceiveInv, Idle
<1>4. PICK y \in Seq(Piece) : y = wire[e]
  BY <1>1
<1>4a. PICK n \in Nat : n = io[e].need
  BY <1>1, IdleIo DEF IoType
<1>5. PICK k \in 1..n :
         /\ k <= Len(y)
         /\ wire' = [wire EXCEPT ![e] = SubSeq(@, k + 1, Len(@))]
         /\ io' = [io EXCEPT ![e].in = @ \o SubSeq(y, 1, k),
                             ![e].need = @ - k,
                             ![e].step = IF k = n THEN "restore" ELSE "move"]
  BY <1>2, <1>4, <1>4a DEF MoveIn
<1>6. k \in 1..Len(y)
  BY <1>5, LenProperties
<1>7. PICK x \in Seq(Piece) : x = io[e].in
  BY <1>1 DEF IoType
<1>8. PICK st : st = IF k = n THEN "restore" ELSE "move"
  OBVIOUS
<1>9. io'[e] = [io[e] EXCEPT !.in = Cat(x, SubSeq(y, 1, k)), !.need = n - k, !.step = st] /\ io'[p] = io[p]
  BY <1>1, <1>2, <1>4a, <1>5, <1>7, <1>8 DEF Cat
<1>10. /\ io'[e].step = st /\ io'[e].out = <<>> /\ io'[e].in = Cat(x, SubSeq(y, 1, k))
       /\ io'[e].need = n - k
  BY <1>1, <1>3, <1>9 DEF IoType
<1>11. wire'[p] = wire[p] /\ wire'[e] = SubSeq(y, k + 1, Len(y))
  BY <1>1, <1>2, <1>4, <1>5
<1>12. Len(Cat(x, SubSeq(y, 1, k))) = Len(x) + k /\ Len(x) \in Nat
  BY <1>6, Cut, ConcatProperties, LenProperties DEF Cat
<1>13. EndSame(p)
  BY <1>2, <1>9 DEF EndSame
<1>14. Taken(p)' = Taken(p) /\ Unsent(p)' = Unsent(p)
  BY <1>13, EndLeft
<1>15. IoInv(e)'
  <2>1. /\ n + Len(x) = IF pc[e] = "recvHeader" THEN Header ELSE Len(Payload(got[e]))
        /\ pc[e] = "recvPayload" => Payload(got[e]) # <<>>
    BY <1>3, <1>4a, <1>7 DEF Ready, IoInv, ReceiveInv
  <2>2. io'[e].need + Len(io'[e].in) = n + Len(x)
    BY <1>10, <1>12
  <2>3. io'[e].step \in {"move", "restore"} /\ (io'[e].step = "move" => io'[e].need > 0)
        /\ (io'[e].step = "restore" => io'[e].need = 0)
    BY <1>8, <1>10
  <2>4. ReceiveInv(e)'
    BY <1>2, <1>10, <2>1, <2>2, <2>3 DEF ReceiveInv
  <2> QED
    BY <2>4, <1>2, <1>3 DEF IoInv, SendInv, Sending, Receiving
<1>16. FailInv(e, p)'
  BY <1>8, <1>10 DEF FailInv
<1>17. PICK t \in Seq(Piece) : t = IF pc[e] = "recvPayload" THEN HeaderOf(got[e]) ELSE <<>>
  BY HeaderRead, EndTyped, EmptySeq DEF EndTypes
<1>18. /\ Taken(e) = Cat(t, x) /\ Taken(e)' = Cat(t, Cat(x, SubSeq(y, 1, k)))
       /\ Unsent(e) = <<>> /\ Unsent(e)' = <<>>
  <2>0. Unsent(e) = <<>> /\ Unsent(e)' = <<>>
    BY <1>2, <1>3 DEF Unsent, Receiving
  <2>1. CASE pc[e] = "recvPayload"
    BY <2>0, <2>1, <1>2, <1>7, <1>10, <1>17 DEF Taken
  <2>2. CASE pc[e] = "recvHeader"
    <3>1. Cat(x, SubSeq(y, 1, k)) \in Seq(Piece)
      BY <1>6, Cut, CatSeq
    <3>2. Cat(t, x) = x /\ Cat(t, Cat(x, SubSeq(y, 1, k))) = Cat(x, SubSeq(y, 1, k))
      BY <2>2, <3>1, <1>17, CatEmpty
    <3> QED
      BY <2>0, <2>2, <3>2, <1>2, <1>7, <1>10 DEF Taken
  <2> QED
    BY <1>3, <2>1, <2>2 DEF Receiving
<1>19. Flow(e, p)' = Flow(e, p)
  <2>1. Cat(Cat(Cat(t, Cat(x, SubSeq(y, 1, k))), SubSeq(y, k + 1, Len(y))), Unsent(p))
           = Cat(Cat(Cat(t, x), y), Unsent(p))
    BY <1>6, Taking
  <2> QED
    BY <2>1, <1>4, <1>11, <1>14, <1>18 DEF Flow
<1>20. Flow(p, e)' = Flow(p, e)
  BY <1>11, <1>14, <1>18 DEF Flow
<1> QED
  BY <1>2, <1>3, <1>13, <1>15, <1>16, <1>18, <1>19, <1>20 DEF Moved, Receiving, Ready

\* An end begins something new.
Afresh(e, at, out, n) ==
    /\ io'[e].step = "ignore" /\ io'[e].out = out /\ io'[e].need = n /\ io'[e].in = <<>>
    /\ pc'[e] = at
    /\ \A p \in Ends : p # e => io'[p] = io[p] /\ pc'[p] = pc[p]

\* Send leaves an end like that,
LEMMA SendAfresh ==
    ASSUME Types, NEW e \in Ends, NEW out, NEW at, Send(e, out, at)
    PROVE  Afresh(e, at, out, 0)
<1>1. pc \in [Ends -> Places] /\ io \in [Ends -> IoType]
  BY DEF Types, PortTypes
<1>2. io'[e] = [step |-> "ignore", out |-> out, need |-> 0, in |-> <<>>]
  BY <1>1 DEF Send, Idle
<1> QED
  BY <1>1, <1>2 DEF Send, Afresh

\* and so does Receive.
LEMMA ReceiveAfresh ==
    ASSUME Types, NEW e \in Ends, NEW n, NEW at, Receive(e, n, at)
    PROVE  Afresh(e, at, <<>>, n)
<1>1. pc \in [Ends -> Places] /\ io \in [Ends -> IoType]
  BY DEF Types, PortTypes
<1>2. io'[e] = [step |-> "ignore", out |-> <<>>, need |-> n, in |-> <<>>]
  BY <1>1 DEF Receive, Idle
<1> QED
  BY <1>1, <1>2 DEF Receive, Afresh

\* The payload follows the header.
LEMMA PayloadMoved ==
    ASSUME Types, NEW e \in Ends, NEW p \in Ends, Ready(e, p), "handles" \notin Faults,
           SendPayload(e)
    PROVE  Moved(e, p)
<1>1. /\ UNCHANGED <<sent, got, wire, connected, calls, result>>
      /\ pc[e] = "sendHeader" /\ io[e].step = "done"
      /\ Payload(sent[e]) # <<>> /\ Send(e, Payload(sent[e]), "sendPayload")
  BY DEF SendPayload, channels, MayFail
<1>2. PICK z \in Seq(Piece) : z = Payload(sent[e]) /\ z # <<>>
  BY <1>1, EndTyped, PayloadSeq DEF EndTypes
<1>3. /\ io'[e].step = "ignore" /\ io'[e].out = z /\ io'[e].need = 0 /\ io'[e].in = <<>>
      /\ pc'[e] = "sendPayload" /\ io'[p] = io[p] /\ pc'[p] = pc[p]
  <2>1. Afresh(e, "sendPayload", z, 0)
    BY <1>1, <1>2, SendAfresh
  <2> QED
    BY <2>1 DEF Afresh, Ready
<1>4. EndSame(p)
  BY <1>1, <1>3 DEF EndSame
<1>5. Taken(p)' = Taken(p) /\ Unsent(p)' = Unsent(p)
  BY <1>4, EndLeft
<1>6. Unsent(e) = z /\ Unsent(e)' = z /\ Taken(e) = <<>> /\ Taken(e)' = <<>>
  <2>1. io[e].out = <<>>
    BY <1>1 DEF Ready, IoInv, SendInv, Sending
  <2>2. Cat(<<>>, z) = z
    BY CatEmpty
  <2> QED
    BY <1>1, <1>2, <1>3, <2>1, <2>2 DEF Unsent, Taken
<1>7. IoInv(e)'
  BY <1>2, <1>3 DEF IoInv, SendInv, ReceiveInv, Sending, Receiving
<1>8. FailInv(e, p)'
  BY <1>3 DEF FailInv
<1>9. Flow(e, p)' = Flow(e, p) /\ Flow(p, e)' = Flow(p, e)
  BY <1>1, <1>5, <1>6 DEF Flow
<1> QED
  BY <1>1, <1>2, <1>3, <1>4, <1>6, <1>7, <1>8, <1>9 DEF Moved, Sending

\* A message was sent; the end waits for the next one.
LEMMA DoneMoved ==
    ASSUME Types, NEW e \in Ends, NEW p \in Ends, Ready(e, p), SendDone(e)
    PROVE  Moved(e, p) /\ Unsent(e) = <<>>
<1>1. /\ UNCHANGED <<sent, got, wire, connected, calls, result>>
      /\ io[e].step = "done" /\ Receive(e, Header, "recvHeader")
      /\ pc[e] = "sendPayload" \/ (pc[e] = "sendHeader" /\ Payload(sent[e]) = <<>>)
  BY DEF SendDone, channels
<1>2. Header \in Nat \ {0}
  BY RpcAssumption
<1>3. /\ io'[e].step = "ignore" /\ io'[e].out = <<>> /\ io'[e].need = Header /\ io'[e].in = <<>>
      /\ pc'[e] = "recvHeader" /\ io'[p] = io[p] /\ pc'[p] = pc[p]
  <2>1. Afresh(e, "recvHeader", <<>>, Header)
    BY <1>1, ReceiveAfresh
  <2> QED
    BY <2>1 DEF Afresh, Ready
<1>4. EndSame(p)
  BY <1>1, <1>3 DEF EndSame
<1>5. Taken(p)' = Taken(p) /\ Unsent(p)' = Unsent(p)
  BY <1>4, EndLeft
<1>6. Unsent(e) = <<>> /\ Unsent(e)' = <<>> /\ Taken(e) = <<>> /\ Taken(e)' = <<>>
  <2>1. io[e].out = <<>>
    BY <1>1 DEF Ready, IoInv, SendInv, Sending
  <2>2. Cat(<<>>, <<>>) = <<>>
    BY ConcatEqualIffEmpty, EmptySeq, Zenon DEF Cat
  <2> QED
    BY <1>1, <1>3, <2>1, <2>2 DEF Unsent, Taken
<1>7. IoInv(e)'
  <2>1. Len(<<>>) = 0
    BY EmptySeq
  <2> QED
    BY <2>1, <1>2, <1>3 DEF IoInv, SendInv, ReceiveInv, Sending, Receiving
<1>8. FailInv(e, p)'
  BY <1>3 DEF FailInv
<1>9. Flow(e, p)' = Flow(e, p) /\ Flow(p, e)' = Flow(p, e)
  BY <1>1, <1>5, <1>6 DEF Flow
<1> QED
  BY <1>1, <1>3, <1>4, <1>6, <1>7, <1>8, <1>9 DEF Moved, Sending, Receiving

\* What is on its way to e is the front of the message of p.
Whole(e, p) == Prefix(Flow(e, p), Full(sent[p]))

\* All of a message was read: nothing is left of it.
Arrived(e, p) ==
    /\ pc[e] \in Receiving /\ pc'[e] = IF IsServer(e) THEN "dispatch" ELSE "check"
    /\ io'[e] = Idle /\ got'[e] = sent[p] /\ sent'[e] = sent[e] /\ EndSame(p)
    /\ UNCHANGED <<wire, connected, calls, result>>
    /\ Flow(e, p) # <<>> /\ Flow(e, p)' = <<>> /\ Flow(p, e)' = Flow(p, e)
    /\ Unsent(p) = <<>> /\ Unsent(e)' = <<>>

\* What was read for a header is the header of the message.
LEMMA HeaderComplete ==
    ASSUME Types, NEW e \in Ends, NEW p \in Ends, Ready(e, p), Whole(e, p), ReceivedHeader(e)
    PROVE  /\ Taken(e) = HeaderOf(sent[p]) /\ got' = [got EXCEPT ![e] = sent[p]]
           /\ ReceivePayload(e, sent[p])
<1>1. EndTypes(e) /\ EndTypes(p)
  BY EndTyped
<1>2. pc[e] = "recvHeader" /\ io[e].step = "done" /\ Taken(e) = io[e].in
  BY DEF ReceivedHeader, Taken
<1>3. io[e].need + Len(io[e].in) = Header /\ io[e].need = 0
  BY <1>2 DEF Ready, IoInv, ReceiveInv, Receiving
<1>4. Len(Taken(e)) = Header
  <2>1. Len(Taken(e)) \in Nat
    BY <1>1, LenProperties DEF EndTypes
  <2> QED
    BY <2>1, <1>2, <1>3
<1>5. PICK m \in Message : m = sent[p]
  BY <1>1 DEF EndTypes
<1>6. /\ Headers(HeaderOf(m)) = {m} /\ HeaderOf(m) \in Seq(Piece) /\ Len(HeaderOf(m)) = Header
      /\ Payload(m) \in Seq(Piece)
  BY HeaderRead, PayloadSeq
<1>7. Taken(e) = HeaderOf(m)
  <2>1. PICK x \in Seq(Piece), y \in Seq(Piece), z \in Seq(Piece) :
           x = Taken(e) /\ y = wire[e] /\ z = Unsent(p)
    BY <1>1 DEF EndTypes
  <2>2. PICK g \in Seq(Piece), h \in Seq(Piece) : g = HeaderOf(m) /\ h = Payload(m)
    BY <1>6
  <2>3. Prefix(Cat(Cat(x, y), z), Cat(g, h))
    BY <1>5, <2>1, <2>2 DEF Whole, Flow, Full
  <2>4. Len(x) = Len(g)
    BY <1>4, <1>6, <2>1, <2>2
  <2>5. x = g
    BY <2>3, <2>4, FirstPart
  <2> QED
    BY <2>1, <2>2, <2>5
<1>8. PICK n \in Headers(HeaderOf(m)) : got' = [got EXCEPT ![e] = n] /\ ReceivePayload(e, n)
  BY <1>2, <1>7 DEF ReceivedHeader
<1> QED
  BY <1>5, <1>6, <1>7, <1>8

\* The payload that a header announces is read next.
LEMMA HeaderMoved ==
    ASSUME Types, NEW e \in Ends, NEW p \in Ends, Ready(e, p), Whole(e, p), ReceivedHeader(e),
           Payload(sent[p]) # <<>>,
           Receive(e, Len(Payload(sent[p])), "recvPayload"), UNCHANGED result
    PROVE  Moved(e, p)
<1>1. /\ UNCHANGED <<sent, wire, connected, calls, result>> /\ pc[e] = "recvHeader"
  BY DEF ReceivedHeader, channels
<1>2. Taken(e) = HeaderOf(sent[p]) /\ got' = [got EXCEPT ![e] = sent[p]]
  BY HeaderComplete
<1>3. PICK n \in Nat : n = Len(Payload(sent[p])) /\ n > 0
  BY EndTyped, PayloadSeq DEF EndTypes
<1>4. /\ io'[e].step = "ignore" /\ io'[e].out = <<>> /\ io'[e].need = n /\ io'[e].in = <<>>
      /\ pc'[e] = "recvPayload" /\ io'[p] = io[p] /\ pc'[p] = pc[p]
  <2>1. Afresh(e, "recvPayload", <<>>, n)
    BY <1>3, ReceiveAfresh
  <2> QED
    BY <2>1 DEF Afresh, Ready
<1>5. got'[e] = sent[p] /\ got'[p] = got[p]
  BY <1>2 DEF Ready, Types, MessageTypes
<1>6. EndSame(p)
  BY <1>1, <1>4, <1>5 DEF EndSame
<1>7. Taken(p)' = Taken(p) /\ Unsent(p)' = Unsent(p)
  BY <1>6, EndLeft
<1>8. Unsent(e) = <<>> /\ Unsent(e)' = <<>> /\ Taken(e)' = Taken(e)
  <2>1. HeaderOf(sent[p]) \in Seq(Piece)
    BY EndTyped, HeaderRead DEF EndTypes
  <2>2. Cat(HeaderOf(sent[p]), <<>>) = HeaderOf(sent[p])
    BY <2>1, CatEmpty
  <2>3. Taken(e)' = Cat(HeaderOf(got'[e]), <<>>)
    BY <1>4 DEF Taken
  <2> QED
    BY <1>1, <1>2, <1>4, <1>5, <2>2, <2>3 DEF Unsent
<1>9. IoInv(e)'
  <2>1. Len(<<>>) = 0
    BY EmptySeq
  <2>2. Payload(got'[e]) = Payload(sent[p])
    BY <1>5
  <2>3. ReceiveInv(e)'
    BY <2>1, <2>2, <1>3, <1>4 DEF ReceiveInv
  <2> QED
    BY <2>3, <1>4 DEF IoInv, SendInv, Sending, Receiving
<1>10. FailInv(e, p)'
  BY <1>4 DEF FailInv
<1>11. Flow(e, p)' = Flow(e, p) /\ Flow(p, e)' = Flow(p, e)
  BY <1>1, <1>7, <1>8 DEF Flow
<1> QED
  BY <1>1, <1>4, <1>5, <1>6, <1>8, <1>9, <1>10, <1>11 DEF Moved, Receiving

\* An end has nothing more to do with the channel.
LEMMA GoneTo ==
    ASSUME Types, NEW e \in Ends, NEW at, GoTo(e, at)
    PROVE  /\ pc'[e] = at /\ io'[e] = Idle
           /\ \A p \in Ends : p # e => io'[p] = io[p] /\ pc'[p] = pc[p]
<1>1. pc \in [Ends -> Places] /\ io \in [Ends -> IoType]
  BY DEF Types, PortTypes
<1> QED
  BY <1>1 DEF GoTo

\* As many pieces as the message has are all there is.
LEMMA Arrives ==
    ASSUME Types, NEW e \in Ends, NEW p \in Ends, Ready(e, p), Whole(e, p),
           pc[e] \in Receiving, Len(Taken(e)) = Len(Full(sent[p])), Received(e),
           got'[e] = sent[p], got'[p] = got[p], UNCHANGED <<sent, wire, connected, calls>>
    PROVE  Arrived(e, p)
<1>1. PICK at : at = IF IsServer(e) THEN "dispatch" ELSE "check"
  OBVIOUS
<1>2. GoTo(e, at) /\ UNCHANGED result
  BY <1>1 DEF Received
<1>3. pc'[e] = at /\ io'[e] = Idle /\ io'[p] = io[p] /\ pc'[p] = pc[p]
  BY <1>2, GoneTo DEF Ready
<1>4. EndSame(p)
  BY <1>3 DEF EndSame
<1>5. Taken(p)' = Taken(p) /\ Unsent(p)' = Unsent(p)
  BY <1>4, EndLeft
<1>6. EndTypes(e) /\ EndTypes(p)
  BY EndTyped
<1>7. PICK f \in Seq(Piece) : f = Full(sent[p])
  BY <1>6, FullSeq DEF EndTypes
<1>8. PICK x \in Seq(Piece), y \in Seq(Piece), z \in Seq(Piece) :
         x = Taken(e) /\ y = wire[e] /\ z = Unsent(p)
  BY <1>6 DEF EndTypes
<1>9. y = <<>> /\ z = <<>> /\ x = f
  <2>1. Prefix(Cat(Cat(x, y), z), f) /\ Len(x) = Len(f)
    BY <1>7, <1>8 DEF Whole, Flow
  <2> QED
    BY <2>1, AllThere
<1>10. x # <<>>
  <2>1. Len(f) = Header + Len(Payload(sent[p])) /\ Len(Payload(sent[p])) \in Nat /\ Header \in Nat \ {0}
    <3>1. PICK m \in Message : m = sent[p]
      BY <1>6 DEF EndTypes
    <3>2. Len(Full(m)) = Header + Len(Payload(m))
      BY FullSeq
    <3>3. Len(Payload(m)) \in 0..MaxPayload
      BY PayloadSeq
    <3> QED
      BY <3>1, <3>2, <3>3, <1>7, RpcAssumption
  <2> QED
    BY <2>1, <1>9, EmptySeq
<1>11. Flow(e, p) # <<>>
  <2>1. Three(Piece, x, y, z)
    BY Parts3
  <2> QED
    BY <2>1, <1>8, <1>10 DEF Three, Flow
<1>12. Taken(e)' = <<>> /\ Unsent(e)' = <<>> /\ Unsent(e) = <<>>
  <2>1. at \notin Sending \cup Receiving
    BY <1>1 DEF Sending, Receiving
  <2> QED
    BY <2>1, <1>3 DEF Taken, Unsent, Sending, Receiving
<1>13. Flow(e, p)' = <<>>
  <2>1. Cat(Cat(<<>>, <<>>), <<>>) = <<>>
    <3>1. <<>> \in Seq(Piece)
      BY EmptySeq
    <3> QED
      BY <3>1, CatEmpty
  <2> QED
    BY <2>1, <1>5, <1>8, <1>9, <1>12 DEF Flow
<1>14. Flow(p, e)' = Flow(p, e)
  BY <1>5, <1>12 DEF Flow
<1> QED
  BY <1>1, <1>2, <1>3, <1>4, <1>8, <1>9, <1>11, <1>12, <1>13, <1>14 DEF Arrived

\* A message without a payload has arrived with its header.
LEMMA HeaderArrived ==
    ASSUME Types, NEW e \in Ends, NEW p \in Ends, Ready(e, p), Whole(e, p), ReceivedHeader(e),
           Payload(sent[p]) = <<>>, Received(e)
    PROVE  Arrived(e, p)
<1>1. UNCHANGED <<sent, wire, connected, calls>> /\ pc[e] \in Receiving
  BY DEF ReceivedHeader, channels, Receiving
<1>2. Taken(e) = HeaderOf(sent[p]) /\ got' = [got EXCEPT ![e] = sent[p]]
  BY HeaderComplete
<1>3. got'[e] = sent[p] /\ got'[p] = got[p]
  BY <1>2 DEF Ready, Types, MessageTypes
<1>4. Full(sent[p]) = HeaderOf(sent[p])
  <2>1. HeaderOf(sent[p]) \in Seq(Piece)
    BY EndTyped, HeaderRead DEF EndTypes
  <2> QED
    BY <2>1, CatEmpty DEF Full
<1> QED
  BY <1>1, <1>2, <1>3, <1>4, Arrives

\* A message has arrived with its payload.  Handles are what they claim to be.
LEMMA PayloadArrived ==
    ASSUME Types, NEW e \in Ends, NEW p \in Ends, Ready(e, p), Whole(e, p), ReceivedPayload(e)
    PROVE  Arrived(e, p)
<1>1. /\ UNCHANGED <<sent, got, wire, connected, calls>>
      /\ pc[e] = "recvPayload" /\ io[e].step = "done" /\ got[e] = sent[p]
  BY DEF ReceivedPayload, channels, Ready
<1>2. PICK m \in Message : m = sent[p]
  BY EndTyped DEF EndTypes
<1>3. PICK x \in Seq(Piece) : x = io[e].in
  BY EndTyped DEF EndTypes, IoType
<1>4. PICK h \in Seq(Piece), g \in Seq(Piece) : h = HeaderOf(m) /\ g = Payload(m)
  BY HeaderRead, PayloadSeq
<1>5. Taken(e) = Cat(h, x) /\ Full(m) = Cat(h, g)
  BY <1>1, <1>2, <1>3, <1>4 DEF Taken, Full
<1>6. Len(x) = Len(g) /\ g # <<>>
  <2>1. /\ io[e].need + Len(io[e].in) = Len(Payload(got[e])) /\ io[e].need = 0
        /\ Payload(got[e]) # <<>>
    BY <1>1 DEF Ready, IoInv, ReceiveInv, Receiving
  <2>2. Len(x) \in Nat
    BY LenProperties
  <2> QED
    BY <2>1, <2>2, <1>1, <1>2, <1>3, <1>4
<1>7. Len(Cat(h, x)) = Len(Cat(h, g))
  <2>1. Len(Cat(h, x)) = Len(h) + Len(x)
    BY ConcatProperties, Zenon DEF Cat
  <2>2. Len(Cat(h, g)) = Len(h) + Len(g)
    BY ConcatProperties, Zenon DEF Cat
  <2> QED
    BY <2>1, <2>2, <1>6
<1>8. x = g
  <2>1. Cat(h, x) = Cat(h, g)
    <3>1. PICK u \in Seq(Piece), v \in Seq(Piece), w \in Seq(Piece), f \in Seq(Piece) :
             u = Cat(h, x) /\ v = wire[e] /\ w = Unsent(p) /\ f = Cat(h, g)
      BY EndTyped, CatSeq DEF EndTypes
    <3>2. Prefix(Cat(Cat(u, v), w), f) /\ Len(u) = Len(f)
      BY <3>1, <1>2, <1>5, <1>7 DEF Whole, Flow
    <3> QED
      BY <3>1, <3>2, AllThere
  <2> QED
    BY <2>1, ConcatSimplifications DEF Cat
<1>9. Received(e)
  <2>1. m.type = "handles" => g[1].part = "handles"
    BY <1>4, <1>6, PayloadSeq
  <2> QED
    BY <2>1, <1>1, <1>2, <1>3, <1>8 DEF ReceivedPayload
<1> QED
  BY <1>1, <1>2, <1>5, <1>7, <1>9, Arrives DEF Receiving

-----------------------------------------------------------------------------
(* A message has arrived; a worker leaves                                  *)

\* Nothing is the front of every message.
LEMMA NothingFirst ==
    ASSUME NEW m \in Message
    PROVE  Prefix(<<>>, Full(m)) /\ Prefix(Full(m), Full(m))
<1>1. Len(Full(m)) \in Nat /\ Len(<<>>) = 0
  BY FullSeq, EmptySeq
<1> QED
  BY <1>1 DEF Prefix

\* A request has arrived.
LEMMA ServerArrived ==
    ASSUME NEW c \in Conns, Types, Conv(c), Arrived(Server(c), Client(c))
    PROVE  Conv(c)'
<1>1. PICK k \in Ends, s \in Ends : k = Client(c) /\ s = Server(c) /\ k # s /\ IsServer(s)
  BY EndsOf
<1> USE DEF Arrived
<1>2. pc[s] \in Receiving /\ pc'[s] = "dispatch" /\ io'[s] = Idle /\ EndSame(k)
  BY <1>1
<1>3. IoInv(k)' /\ Unsent(k)' = Unsent(k)
  BY <1>1, <1>2, EndLeft DEF Conv
<1>4. IoInv(s)'
  BY <1>2 DEF IoInv, SendInv, ReceiveInv, Sending, Receiving
<1>5. connected[s]
  BY <1>1, <1>2 DEF Conv, PlaceInv, Receiving, Gone
<1>6. FailInv(k, s)' /\ FailInv(s, k)'
  BY <1>1, <1>2, <1>5 DEF Conv, FailInv, EndSame, Idle
<1>7. PlaceInv(c)'
  BY <1>1, <1>2 DEF Conv, PlaceInv, EndSame, Receiving, Gone
<1>8. MessageInv(c)'
  BY <1>1, <1>2 DEF Conv, MessageInv, EndSame
<1>9. FlowInv(c)'
  <2>1. Prefix(<<>>, Full(sent[k]))
    BY NothingFirst, EndTyped DEF EndTypes
  <2>2. ToServer(c)' = <<>> /\ ToClient(c)' = ToClient(c) /\ sent'[k] = sent[k] /\ sent'[s] = sent[s]
    BY <1>1, <1>2 DEF ToServer, ToClient, EndSame
  <2> QED
    BY <1>1, <1>2, <2>1, <2>2 DEF Conv, FlowInv, EndSame
<1>10. TurnInv(c)'
  <2>1. /\ ToServer(c) # <<>> /\ pc[s] \notin Gone
        /\ ToServer(c)' = <<>> /\ ToClient(c)' = ToClient(c) /\ pc'[k] = pc[k]
    BY <1>1, <1>2 DEF ToServer, ToClient, EndSame, Receiving, Gone
  <2>2. pc[k] # "idle" /\ (pc[k] # "dead" => ToClient(c) = <<>> /\ pc[k] # "check")
    BY <1>1, <2>1 DEF Conv, TurnInv
  <2> QED
    BY <1>1, <2>1, <2>2 DEF TurnInv
<1> QED
  BY <1>1, <1>3, <1>4, <1>6, <1>7, <1>8, <1>9, <1>10 DEF Conv

\* A response has arrived.
LEMMA ClientArrived ==
    ASSUME NEW c \in Conns, Types, Conv(c), Arrived(Client(c), Server(c))
    PROVE  Conv(c)'
<1>1. PICK k \in Ends, s \in Ends : k = Client(c) /\ s = Server(c) /\ k # s /\ ~IsServer(k)
  BY EndsOf
<1> USE DEF Arrived
<1>2. pc[k] \in Receiving /\ pc'[k] = "check" /\ io'[k] = Idle /\ EndSame(s)
  BY <1>1
<1>3. IoInv(s)' /\ Unsent(s)' = Unsent(s)
  BY <1>1, <1>2, EndLeft DEF Conv
<1>4. IoInv(k)'
  BY <1>2 DEF IoInv, SendInv, ReceiveInv, Sending, Receiving
<1>5. connected[k]
  BY <1>1, <1>2 DEF Conv, PlaceInv, Receiving
<1>6. FailInv(k, s)' /\ FailInv(s, k)'
  BY <1>1, <1>2, <1>5 DEF Conv, FailInv, EndSame, Idle
<1>7. PlaceInv(c)'
  BY <1>1, <1>2, <1>5 DEF Conv, PlaceInv, EndSame, Receiving
<1>8. MessageInv(c)'
  BY <1>1, <1>2 DEF Conv, MessageInv, EndSame, Receiving
<1>9. FlowInv(c)'
  <2>1. Prefix(<<>>, Full(sent[s]))
    BY NothingFirst, EndTyped DEF EndTypes
  <2>2. ToClient(c)' = <<>> /\ ToServer(c)' = ToServer(c) /\ sent'[k] = sent[k] /\ sent'[s] = sent[s]
    BY <1>1, <1>2 DEF ToServer, ToClient, EndSame
  <2> QED
    BY <1>1, <1>2, <2>1, <2>2 DEF Conv, FlowInv, EndSame
<1>10. TurnInv(c)'
  <2>1. /\ ToClient(c) # <<>> /\ pc[k] # "dead" /\ pc'[s] = pc[s] /\ sent'[s] = sent[s]
        /\ ToClient(c)' = <<>> /\ ToServer(c)' = ToServer(c) /\ Unsent(k)' = <<>> /\ calls' = calls
    BY <1>1, <1>2 DEF ToServer, ToClient, EndSame, Receiving
  <2>2. /\ sent[s].call = calls[c] /\ pc[s] # "dispatch"
        /\ pc[s] \notin Gone => ToServer(c) = <<>>
    BY <1>1, <2>1 DEF Conv, TurnInv
  <2> QED
    BY <1>1, <1>2, <2>1, <2>2 DEF TurnInv
<1> QED
  BY <1>1, <1>3, <1>4, <1>6, <1>7, <1>8, <1>9, <1>10 DEF Conv

\* The worker leaves its loop.
Leaves(s, k) ==
    /\ pc[s] \in Sending \cup Receiving \cup {"dispatch"} /\ pc'[s] = "over" /\ io'[s] = Idle
    /\ pc[s] \in Sending => ~connected[k]
    /\ sent'[s] = sent[s] /\ EndSame(k) /\ UNCHANGED <<wire, connected, calls, result>>

\* ServerSessionWorker: the worker has caught an exception of wait, of a handler,
\* or of a reply to a client that is gone.
LEMMA ServerLeaves ==
    ASSUME NEW c \in Conns, Types, Conv(c), Leaves(Server(c), Client(c))
    PROVE  Conv(c)'
<1>1. PICK k \in Ends, s \in Ends : k = Client(c) /\ s = Server(c) /\ k # s
  BY EndsOf
<1> USE DEF Leaves
<1>2. pc'[s] = "over" /\ io'[s] = Idle /\ EndSame(k)
  BY <1>1
<1>3. IoInv(k)' /\ Unsent(k)' = Unsent(k) /\ Taken(k)' = Taken(k)
  BY <1>1, <1>2, EndLeft DEF Conv
<1>4. IoInv(s)'
  BY <1>2 DEF IoInv, SendInv, ReceiveInv, Sending, Receiving
<1>5. connected[s] /\ (pc[s] \in Sending => pc[k] = "dead")
  BY <1>1, <1>2 DEF Conv, PlaceInv, Sending, Receiving, Gone
<1>6. FailInv(k, s)' /\ FailInv(s, k)'
  BY <1>1, <1>2, <1>5 DEF Conv, FailInv, EndSame, Idle
<1>7. PlaceInv(c)'
  BY <1>1, <1>2 DEF Conv, PlaceInv, EndSame, Gone
<1>8. MessageInv(c)'
  BY <1>1, <1>2 DEF Conv, MessageInv, EndSame
<1>9. pc[k] # "dead" => ToClient(c)' = ToClient(c)
  <2>1. pc[s] \in Receiving \cup {"dispatch"} => Unsent(s) = <<>> /\ Unsent(s)' = <<>>
    BY <1>2 DEF Unsent, Receiving
  <2> QED
    BY <1>1, <1>3, <1>5, <2>1 DEF ToClient, Flow
<1>10. FlowInv(c)'
  BY <1>1, <1>2, <1>9 DEF Conv, FlowInv, EndSame, Gone
<1>11. TurnInv(c)'
  BY <1>1, <1>2, <1>3, <1>9 DEF Conv, TurnInv, EndSame, Gone
<1> QED
  BY <1>1, <1>3, <1>4, <1>6, <1>7, <1>8, <1>10, <1>11 DEF Conv

-----------------------------------------------------------------------------
(* Calls and answers                                                       *)

\* An end begins a message.
LEMMA SendsAfresh ==
    ASSUME Types, NEW e \in Ends, NEW m \in Message, SendMessage(e, m)
    PROVE  /\ Afresh(e, "sendHeader", HeaderOf(m), 0)
           /\ sent'[e] = m /\ \A p \in Ends : p # e => sent'[p] = sent[p]
           /\ IoInv(e)' /\ Taken(e)' = <<>> /\ Unsent(e)' = Full(m)
<1>1. Send(e, HeaderOf(m), "sendHeader") /\ sent' = [sent EXCEPT ![e] = m]
  BY DEF SendMessage, HeaderOf
<1>2. Afresh(e, "sendHeader", HeaderOf(m), 0)
  BY <1>1, SendAfresh
<1>3. sent'[e] = m /\ \A p \in Ends : p # e => sent'[p] = sent[p]
  BY <1>1 DEF Types, MessageTypes
<1>4. IoInv(e)'
  BY <1>2, HeaderRead DEF Afresh, IoInv, SendInv, ReceiveInv, Sending, Receiving
<1>5. Taken(e)' = <<>>
  BY <1>2 DEF Afresh, Taken
<1>6. Unsent(e)' = Full(m)
  BY <1>2, <1>3 DEF Afresh, Unsent, Full
<1> QED
  BY <1>2, <1>3, <1>4, <1>5, <1>6

\* The parts of a flow that is empty, and a flow whose first parts are
LEMMA FlowParts ==
    ASSUME Types, NEW e \in Ends, NEW p \in Ends
    PROVE  Flow(e, p) = <<>> <=> Taken(e) = <<>> /\ wire[e] = <<>> /\ Unsent(p) = <<>>
<1>1. PICK x \in Seq(Piece), y \in Seq(Piece), z \in Seq(Piece) :
         x = Taken(e) /\ y = wire[e] /\ z = Unsent(p)
  BY EndTyped DEF EndTypes
<1>2. Three(Piece, x, y, z)
  BY Parts3
<1> QED
  BY <1>1, <1>2 DEF Three, Flow

\* A message behind nothing is the message.
LEMMA FlowOfOne ==
    ASSUME NEW m \in Message
    PROVE  Cat(Cat(<<>>, <<>>), Full(m)) = Full(m)
<1>1. <<>> \in Seq(Piece)
  BY EmptySeq
<1> QED
  BY <1>1, CatEmpty, FullSeq

\* A client calls: everything that was sent before has been read.
LEMMA CallBegins ==
    ASSUME NEW c \in Conns, Types, Conv(c), NEW len \in 0..MaxPayload, Call(c, len)
    PROVE  Conv(c)'
<1>1. PICK k \in Ends, s \in Ends : k = Client(c) /\ s = Server(c) /\ k # s
  BY EndsOf
<1>2. PICK m :
         m = [call |-> calls[c] + 1, seq |-> nextSequenceNumber[c],
              type |-> IF len = 0 THEN "embedded" ELSE "data", len |-> len,
              status |-> "request"]
  OBVIOUS
<1>3. m \in Message /\ m.call = calls[c] + 1 /\ m.type \in {"embedded", "data"}
  BY <1>2, RpcAssumption DEF Call, Types, MessageTypes, Message
<1>4. /\ pc[k] = "idle" /\ SendMessage(k, m) /\ UNCHANGED <<got, wire, connected>>
      /\ calls' = [calls EXCEPT ![c] = @ + 1] /\ result' = [result EXCEPT ![c] = "pending"]
  BY <1>1, <1>2 DEF Call, channels
<1>5. calls'[c] = m.call /\ result'[c] = "pending"
  BY <1>3, <1>4 DEF Types, MessageTypes
<1>6. /\ Afresh(k, "sendHeader", HeaderOf(m), 0) /\ sent'[k] = m /\ sent'[s] = sent[s]
      /\ IoInv(k)' /\ Taken(k)' = <<>> /\ Unsent(k)' = Full(m)
  BY <1>1, <1>3, <1>4, SendsAfresh
<1>7. pc'[k] = "sendHeader" /\ io'[k].step = "ignore" /\ EndSame(s)
  BY <1>1, <1>4, <1>6 DEF Afresh, EndSame
<1>8. IoInv(s)' /\ Unsent(s)' = Unsent(s) /\ Taken(s)' = Taken(s)
  BY <1>1, <1>7, EndLeft DEF Conv
<1>9. FailInv(k, s)' /\ FailInv(s, k)'
  BY <1>1, <1>4, <1>7 DEF Conv, FailInv, EndSame
<1>10. PlaceInv(c)'
  BY <1>1, <1>4, <1>7 DEF Conv, PlaceInv, EndSame, Sending
<1>11. /\ ToClient(c) = <<>> /\ pc[s] # "dispatch"
       /\ pc[s] \notin Gone => ToServer(c) = <<>>
  BY <1>1, <1>4 DEF Conv, TurnInv
<1>12. pc[s] # "recvPayload"
  <2>1. pc[s] = "recvPayload" => Taken(s) # <<>>
    <3>1. PICK h \in Seq(Piece), x \in Seq(Piece) : h = HeaderOf(got[s]) /\ h # <<>> /\ x = io[s].in
      BY EndTyped, HeaderRead DEF EndTypes, IoType
    <3>2. Cat(h, x) # <<>>
      BY <3>1, ConcatEqualIffEmpty DEF Cat
    <3> QED
      BY <3>1, <3>2 DEF Taken
  <2>2. pc[s] = "recvPayload" => Flow(s, k) = <<>>
    BY <1>1, <1>11 DEF ToServer, Gone
  <2> QED
    BY <2>1, <2>2, FlowParts
<1>13. MessageInv(c)'
  BY <1>1, <1>3, <1>4, <1>5, <1>6, <1>7, <1>11, <1>12 DEF Conv, MessageInv, EndSame
<1>14. ToClient(c)' = <<>>
  <2>1. Taken(k) = <<>>
    BY <1>4 DEF Taken
  <2> QED
    BY <2>1, <1>1, <1>4, <1>6, <1>8, <1>11 DEF ToClient, Flow
<1>15. pc[s] \notin Gone => ToServer(c)' = Full(m)
  <2>1. pc[s] \notin Gone => Taken(s) = <<>> /\ wire[s] = <<>>
    BY <1>1, <1>11, FlowParts DEF ToServer
  <2> QED
    BY <2>1, <1>1, <1>3, <1>4, <1>6, <1>8, FlowOfOne DEF ToServer, Flow
<1>16. FlowInv(c)'
  <2>1. Prefix(Full(m), Full(m)) /\ Prefix(<<>>, Full(sent[s]))
    BY <1>3, NothingFirst, EndTyped DEF EndTypes
  <2> QED
    BY <2>1, <1>1, <1>6, <1>7, <1>14, <1>15 DEF FlowInv, EndSame
<1>17. TurnInv(c)'
  BY <1>1, <1>7, <1>11, <1>14 DEF TurnInv, EndSame
<1> QED
  BY <1>1, <1>6, <1>8, <1>9, <1>10, <1>13, <1>16, <1>17 DEF Conv

\* A call fails when the worker has left: nothing of an answer is under way.
LEMMA CallGivenUp ==
    ASSUME NEW c \in Conns, Types, Conv(c), CallFails(Client(c))
    PROVE  Conv(c)'
<1>1. PICK k \in Ends, s \in Ends : k = Client(c) /\ s = Server(c) /\ k # s /\ ~IsServer(k) /\ k[2] = c
  BY EndsOf
<1>2. /\ io[k].step = "failed" /\ GoTo(k, "idle") /\ result' = [result EXCEPT ![c] = "thrown"]
      /\ UNCHANGED <<sent, got, calls, wire, connected>>
  BY <1>1 DEF CallFails, Throws, channels
<1>3. pc'[k] = "idle" /\ io'[k] = Idle /\ pc'[s] = pc[s] /\ io'[s] = io[s]
  BY <1>1, <1>2, GoneTo
<1>4. EndSame(s) /\ result'[c] = "thrown"
  BY <1>2, <1>3 DEF EndSame, Types, MessageTypes
<1>5. IoInv(s)' /\ Unsent(s)' = Unsent(s) /\ Taken(s)' = Taken(s)
  BY <1>1, <1>4, EndLeft DEF Conv
<1>6. IoInv(k)' /\ Taken(k)' = <<>> /\ Unsent(k)' = <<>>
  BY <1>3 DEF IoInv, SendInv, ReceiveInv, Sending, Receiving, Taken, Unsent
<1>7. pc[s] \in Gone /\ pc[k] \in Sending \cup Receiving
  BY <1>1, <1>2 DEF Conv, FailInv, PlaceInv, IoInv, Idle
<1>8. FailInv(k, s)' /\ FailInv(s, k)'
  BY <1>1, <1>2, <1>3, <1>4 DEF Conv, FailInv, EndSame, Idle
<1>9. PlaceInv(c)'
  BY <1>1, <1>2, <1>3, <1>4, <1>7 DEF Conv, PlaceInv, EndSame, Sending, Receiving
<1>10. MessageInv(c)'
  BY <1>1, <1>2, <1>3, <1>4 DEF Conv, MessageInv, EndSame
<1>11. wire[k] = <<>>
  <2>1. CASE pc[k] \in Receiving
    BY <2>1, <1>1, <1>2 DEF Conv, FailInv
  <2>2. CASE pc[k] \in Sending
    <3>1. io[k].out # <<>>
      BY <2>2, <1>1, <1>2 DEF Conv, IoInv, SendInv
    <3>2. PICK x \in Seq(Piece), z \in Seq(Piece) : x = io[k].out /\ z = Payload(sent[k])
      BY EndTyped, PayloadSeq DEF EndTypes, IoType
    <3>3. Cat(x, z) # <<>>
      BY <3>1, <3>2, ConcatEqualIffEmpty DEF Cat
    <3>4. Unsent(k) # <<>>
      BY <2>2, <3>1, <3>2, <3>3 DEF Unsent, Sending
    <3>5. Flow(k, s) = <<>>
      BY <2>2, <3>4, <1>1 DEF Conv, TurnInv, ToClient, Sending
    <3> QED
      BY <3>5, FlowParts
  <2> QED
    BY <2>1, <2>2, <1>7
<1>12. ToClient(c)' = <<>>
  <2>1. Unsent(s) = <<>>
    BY <1>7 DEF Unsent, Gone
  <2>2. <<>> \in Seq(Piece)
    BY EmptySeq
  <2>3. Cat(Cat(<<>>, <<>>), <<>>) = <<>>
    BY <2>2, CatEmpty
  <2> QED
    BY <2>1, <2>3, <1>1, <1>2, <1>5, <1>6, <1>11 DEF ToClient, Flow
<1>13. FlowInv(c)'
  <2>1. Prefix(<<>>, Full(sent[s]))
    BY NothingFirst, EndTyped DEF EndTypes
  <2> QED
    BY <2>1, <1>1, <1>2, <1>4, <1>7, <1>12 DEF FlowInv, EndSame
<1>14. TurnInv(c)'
  BY <1>1, <1>3, <1>4, <1>7, <1>12 DEF TurnInv, EndSame, Gone
<1> QED
  BY <1>1, <1>5, <1>6, <1>8, <1>9, <1>10, <1>13, <1>14 DEF Conv

\* A call returns or throws what the server threw.
LEMMA CallChecked ==
    ASSUME NEW c \in Conns, Types, Conv(c), CheckResponse(c)
    PROVE  Conv(c)'
<1>1. PICK k \in Ends, s \in Ends : k = Client(c) /\ s = Server(c) /\ k # s
  BY EndsOf
<1>2. /\ pc[k] = "check" /\ GoTo(k, "idle") /\ UNCHANGED <<sent, got, calls, wire, connected>>
      /\ \E r \in {"thrown", "returned", "peer"} : result' = [result EXCEPT ![c] = r]
  BY <1>1 DEF CheckResponse, channels
<1>3. pc'[k] = "idle" /\ io'[k] = Idle /\ pc'[s] = pc[s] /\ io'[s] = io[s]
  BY <1>1, <1>2, GoneTo
<1>4. EndSame(s)
  BY <1>2, <1>3 DEF EndSame
<1>5. IoInv(s)' /\ Unsent(s)' = Unsent(s) /\ Taken(s)' = Taken(s)
  BY <1>1, <1>4, EndLeft DEF Conv
<1>6. IoInv(k)' /\ Taken(k)' = Taken(k) /\ Unsent(k)' = Unsent(k)
  BY <1>2, <1>3 DEF IoInv, SendInv, ReceiveInv, Sending, Receiving, Taken, Unsent
<1>7. ToClient(c)' = ToClient(c) /\ ToServer(c)' = ToServer(c)
  BY <1>1, <1>2, <1>5, <1>6 DEF ToClient, ToServer, Flow
<1>8. connected[k]
  BY <1>1, <1>2 DEF Conv, PlaceInv
<1>9. FailInv(k, s)' /\ FailInv(s, k)'
  BY <1>1, <1>2, <1>3, <1>4, <1>8 DEF Conv, FailInv, EndSame, Idle
<1>10. PlaceInv(c)'
  BY <1>1, <1>2, <1>3, <1>4 DEF Conv, PlaceInv, EndSame
<1>11. /\ ToClient(c) = <<>> /\ sent[s].call = calls[c] /\ pc[s] # "dispatch"
       /\ pc[s] \notin Gone => ToServer(c) = <<>>
  BY <1>1, <1>2 DEF Conv, TurnInv
<1>12. MessageInv(c)'
  BY <1>1, <1>2, <1>3, <1>4, <1>11 DEF Conv, MessageInv, EndSame
<1>13. FlowInv(c)'
  BY <1>1, <1>2, <1>3, <1>4, <1>7 DEF Conv, FlowInv, EndSame
<1>14. TurnInv(c)'
  BY <1>1, <1>3, <1>4, <1>7, <1>11 DEF TurnInv, EndSame
<1> QED
  BY <1>1, <1>5, <1>6, <1>9, <1>10, <1>12, <1>13, <1>14 DEF Conv

\* The worker answers the request it was given; nothing else is under way.
LEMMA Answered ==
    ASSUME NEW c \in Conns, Types, Conv(c), NEW type \in {"embedded", "data", "handles"},
           NEW len \in 0..MaxPayload, NEW status \in {"success", "failed"},
           Handle(c, type, len, status)
    PROVE  Conv(c)'
<1>1. PICK k \in Ends, s \in Ends : k = Client(c) /\ s = Server(c) /\ k # s
  BY EndsOf
<1>2. PICK m : m = [got[s] EXCEPT !.type = type, !.len = len, !.status = status]
  OBVIOUS
<1>3. m \in Message /\ m.call = got[s].call /\ m.type # "other"
  <2>1. got[s] \in Message
    BY EndTyped DEF EndTypes
  <2> QED
    BY <1>2, <2>1 DEF Message
<1>4. pc[s] = "dispatch" /\ SendMessage(s, m) /\ UNCHANGED <<got, calls, result, wire, connected>>
  BY <1>1, <1>2 DEF Handle, Reply, channels
<1>5. /\ Afresh(s, "sendHeader", HeaderOf(m), 0) /\ sent'[s] = m /\ sent'[k] = sent[k]
      /\ IoInv(s)' /\ Taken(s)' = <<>> /\ Unsent(s)' = Full(m)
  BY <1>1, <1>3, <1>4, SendsAfresh
<1>6. pc'[s] = "sendHeader" /\ io'[s].step = "ignore" /\ EndSame(k)
  BY <1>1, <1>4, <1>5 DEF Afresh, EndSame
<1>7. IoInv(k)' /\ Unsent(k)' = Unsent(k) /\ Taken(k)' = Taken(k)
  BY <1>1, <1>6, EndLeft DEF Conv
<1>8. connected[s] /\ ToServer(c) = <<>> /\ pc[k] # "idle"
  BY <1>1, <1>4 DEF Conv, PlaceInv, TurnInv, Gone
<1>9. Taken(s) = <<>> /\ wire[s] = <<>> /\ Unsent(k) = <<>>
  BY <1>1, <1>8, FlowParts DEF ToServer
<1>10. FailInv(k, s)' /\ FailInv(s, k)'
  BY <1>1, <1>4, <1>6, <1>8 DEF Conv, FailInv, EndSame
<1>11. PlaceInv(c)'
  BY <1>1, <1>4, <1>6, <1>8 DEF Conv, PlaceInv, EndSame, Sending
<1>12. pc[k] # "dead" => ToClient(c) = <<>> /\ pc[k] # "check"
  BY <1>1, <1>4 DEF Conv, TurnInv
<1>13. pc[k] # "dead" => Taken(k) = <<>> /\ wire[k] = <<>>
  BY <1>1, <1>12, FlowParts DEF ToClient
<1>14. pc[k] # "recvPayload"
  <2>1. pc[k] = "recvPayload" => Taken(k) # <<>>
    <3>1. PICK h \in Seq(Piece), x \in Seq(Piece) : h = HeaderOf(got[k]) /\ h # <<>> /\ x = io[k].in
      BY EndTyped, HeaderRead DEF EndTypes, IoType
    <3>2. Cat(h, x) # <<>>
      BY <3>1, ConcatEqualIffEmpty DEF Cat
    <3> QED
      BY <3>1, <3>2 DEF Taken
  <2> QED
    BY <2>1, <1>13
<1>15. m.call = calls[c]
  BY <1>1, <1>3, <1>4 DEF Conv, MessageInv
<1>16. MessageInv(c)'
  BY <1>1, <1>3, <1>4, <1>5, <1>6, <1>12, <1>14, <1>15 DEF Conv, MessageInv, EndSame
<1>17. ToServer(c)' = <<>>
  <2>1. Cat(Cat(<<>>, <<>>), <<>>) = <<>>
    <3>1. <<>> \in Seq(Piece)
      BY EmptySeq
    <3> QED
      BY <3>1, CatEmpty
  <2> QED
    BY <2>1, <1>1, <1>4, <1>5, <1>7, <1>9 DEF ToServer, Flow
<1>18. pc[k] # "dead" => ToClient(c)' = Full(m)
  BY <1>1, <1>3, <1>4, <1>5, <1>7, <1>13, FlowOfOne DEF ToClient, Flow
<1>19. FlowInv(c)'
  <2>1. Prefix(Full(m), Full(m)) /\ Prefix(<<>>, Full(sent[k]))
    BY <1>3, NothingFirst, EndTyped DEF EndTypes
  <2> QED
    BY <2>1, <1>1, <1>5, <1>6, <1>17, <1>18 DEF FlowInv, EndSame
<1>20. TurnInv(c)'
  BY <1>1, <1>4, <1>5, <1>6, <1>7, <1>8, <1>9, <1>12, <1>15, <1>17 DEF TurnInv, EndSame, Gone
<1> QED
  BY <1>1, <1>5, <1>7, <1>10, <1>11, <1>16, <1>19, <1>20 DEF Conv

\* The exception is sent instead of a response that failed: the client is gone.
LEMMA AnsweredAgain ==
    ASSUME NEW c \in Conns, Types, Conv(c), ReplyFails(c), sent[Server(c)].status # "failed"
    PROVE  Conv(c)'
<1>1. PICK k \in Ends, s \in Ends : k = Client(c) /\ s = Server(c) /\ k # s
  BY EndsOf
<1>2. PICK m : m = [got[s] EXCEPT !.type = "data", !.len = 1, !.status = "failed"]
  OBVIOUS
<1>3. m \in Message /\ m.type # "other"
  <2>1. got[s] \in Message /\ 1 \in 0..MaxPayload
    BY EndTyped, RpcAssumption DEF EndTypes
  <2> QED
    BY <1>2, <2>1 DEF Message
<1>4. /\ io[s].step = "failed" /\ pc[s] \in Sending /\ SendMessage(s, m)
      /\ UNCHANGED <<got, calls, result, wire, connected>>
  BY <1>1, <1>2 DEF ReplyFails, Reply, channels, Sending
<1>5. /\ Afresh(s, "sendHeader", HeaderOf(m), 0) /\ sent'[s] = m /\ sent'[k] = sent[k]
      /\ IoInv(s)' /\ Taken(s)' = <<>> /\ Unsent(s)' = Full(m)
  BY <1>1, <1>3, <1>4, SendsAfresh
<1>6. pc'[s] = "sendHeader" /\ io'[s].step = "ignore" /\ EndSame(k)
  BY <1>1, <1>4, <1>5 DEF Afresh, EndSame
<1>7. IoInv(k)' /\ Unsent(k)' = Unsent(k) /\ Taken(k)' = Taken(k)
  BY <1>1, <1>6, EndLeft DEF Conv
<1>8. pc[k] = "dead" /\ connected[s]
  BY <1>1, <1>4 DEF Conv, FailInv, PlaceInv, Sending, Gone
<1>9. FailInv(k, s)' /\ FailInv(s, k)'
  BY <1>1, <1>4, <1>6, <1>8 DEF Conv, FailInv, EndSame
<1>10. PlaceInv(c)'
  BY <1>1, <1>4, <1>6, <1>8 DEF Conv, PlaceInv, EndSame, Sending
<1>11. MessageInv(c)'
  BY <1>1, <1>3, <1>4, <1>5, <1>6, <1>8 DEF Conv, MessageInv, EndSame
<1>12. ToServer(c)' = ToServer(c)
  <2>1. Taken(s) = <<>>
    BY <1>4 DEF Taken, Sending
  <2> QED
    BY <2>1, <1>1, <1>4, <1>5, <1>7 DEF ToServer, Flow
<1>13. FlowInv(c)'
  BY <1>1, <1>4, <1>5, <1>6, <1>8, <1>12 DEF Conv, FlowInv, EndSame, Sending, Gone
<1>14. TurnInv(c)'
  BY <1>1, <1>6, <1>8 DEF TurnInv, EndSame
<1> QED
  BY <1>1, <1>5, <1>7, <1>9, <1>10, <1>11, <1>13, <1>14 DEF Conv

\* The port of a worker that has left its loop is closed.
LEMMA PortClosed ==
    ASSUME NEW c \in Conns, Types, Conv(c), ClosePort(c)
    PROVE  Conv(c)'
<1>1. PICK k \in Ends, s \in Ends : k = Client(c) /\ s = Server(c) /\ k # s
  BY EndsOf
<1>2. /\ pc[s] = "over" /\ connected[s] /\ UNCHANGED <<pc, sent, got, calls, result, io, wire>>
      /\ connected' = [connected EXCEPT ![s] = FALSE]
  BY <1>1 DEF ClosePort, ports
<1>3. ~connected'[s] /\ connected'[k] = connected[k]
  BY <1>1, <1>2 DEF Types, ChannelTypes
<1>4. EndSame(k) /\ EndSame(s)
  BY <1>2 DEF EndSame
<1>5. /\ IoInv(s)' /\ Unsent(s)' = Unsent(s) /\ Taken(s)' = Taken(s)
      /\ IoInv(k)' /\ Unsent(k)' = Unsent(k) /\ Taken(k)' = Taken(k)
  BY <1>1, <1>4, EndLeft DEF Conv
<1>6. ToClient(c)' = ToClient(c) /\ ToServer(c)' = ToServer(c)
  BY <1>1, <1>2, <1>5 DEF ToClient, ToServer, Flow
<1>7. FailInv(k, s)' /\ FailInv(s, k)'
  BY <1>1, <1>2, <1>3 DEF Conv, FailInv
<1>8. PlaceInv(c)'
  BY <1>1, <1>2, <1>3 DEF Conv, PlaceInv, Gone
<1>9. MessageInv(c)'
  BY <1>1, <1>2 DEF Conv, MessageInv
<1>10. FlowInv(c)'
  BY <1>1, <1>2, <1>6 DEF Conv, FlowInv
<1>11. TurnInv(c)'
  BY <1>1, <1>2, <1>5, <1>6 DEF Conv, TurnInv
<1> QED
  BY <1>1, <1>5, <1>7, <1>8, <1>9, <1>10, <1>11 DEF Conv

-----------------------------------------------------------------------------
(* Processes that end                                                      *)

\* An end of a process that has come to its end
Ended(e) == pc'[e] = "dead" /\ io'[e] = Idle /\ ~connected'[e] /\ sent'[e] = sent[e]

\* What is under way shrinks to what the end has left behind.
LEMMA FlowCut ==
    ASSUME Types, NEW e \in Ends, NEW p \in Ends, EndSame(e), Ended(p), wire' = wire
    PROVE  /\ Unsent(p)' = <<>>
           /\ Flow(e, p) = <<>> => Flow(e, p)' = <<>>
           /\ \A m \in Message : Prefix(Flow(e, p), Full(m)) => Prefix(Flow(e, p)', Full(m))
<1>1. PICK x \in Seq(Piece), y \in Seq(Piece), z \in Seq(Piece) :
         x = Taken(e) /\ y = wire[e] /\ z = Unsent(p)
  BY EndTyped DEF EndTypes
<1>2. Taken(e)' = x /\ Unsent(p)' = <<>>
  BY <1>1, EndLeft DEF Ended, Unsent
<1>3. PICK w \in Seq(Piece) : w = Cat(x, y)
  BY CatSeq
<1>4. Flow(e, p)' = w /\ Flow(e, p) = Cat(w, z)
  <2>1. Cat(w, <<>>) = w
    BY CatEmpty
  <2> QED
    BY <2>1, <1>1, <1>2, <1>3 DEF Flow
<1>5. Cat(w, z) = <<>> => w = <<>>
  BY ConcatEqualIffEmpty DEF Cat
<1>6. ASSUME NEW m \in Message, Prefix(Cat(w, z), Full(m)) PROVE Prefix(w, Full(m))
  <2>1. PICK f : f = Full(m) /\ Len(f) \in Nat
    BY FullSeq
  <2>2. Prefix(Cat(w, z), f)
    BY <1>6, <2>1
  <2>3. Prefix(w, f)
    BY <2>1, <2>2, Shorter
  <2> QED
    BY <2>1, <2>3
<1> QED
  BY <1>2, <1>4, <1>5, <1>6

\* A client process ends.
LEMMA ClientEnds ==
    ASSUME NEW c \in Conns, Types, Conv(c), Ended(Client(c)), EndSame(Server(c)),
           connected'[Server(c)] = connected[Server(c)],
           got'[Client(c)] = got[Client(c)], UNCHANGED <<wire, calls, result>>
    PROVE  Conv(c)'
<1>1. PICK k \in Ends, s \in Ends : k = Client(c) /\ s = Server(c) /\ k # s
  BY EndsOf
<1>2. pc'[k] = "dead" /\ io'[k] = Idle /\ ~connected'[k] /\ sent'[k] = sent[k] /\ EndSame(s) /\ Ended(k)
  BY <1>1 DEF Ended
<1>3. IoInv(s)'
  BY <1>1, <1>2, EndLeft DEF Conv
<1>4. IoInv(k)'
  BY <1>2 DEF IoInv, SendInv, ReceiveInv, Sending, Receiving
<1>5. FailInv(k, s)' /\ FailInv(s, k)'
  BY <1>1, <1>2 DEF Conv, FailInv, EndSame, Idle
<1>6. PlaceInv(c)'
  BY <1>1, <1>2 DEF Conv, PlaceInv, EndSame
<1>7. MessageInv(c)'
  BY <1>1, <1>2 DEF Conv, MessageInv, EndSame
<1>8. /\ ToServer(c) = <<>> => ToServer(c)' = <<>>
      /\ \A m \in Message : Prefix(ToServer(c), Full(m)) => Prefix(ToServer(c)', Full(m))
  BY <1>1, <1>2, FlowCut DEF ToServer
<1>9. FlowInv(c)'
  <2>1. sent[k] \in Message
    BY EndTyped DEF EndTypes
  <2> QED
    BY <2>1, <1>1, <1>2, <1>8 DEF Conv, FlowInv, EndSame
<1>10. TurnInv(c)'
  BY <1>1, <1>2, <1>8 DEF Conv, TurnInv, EndSame
<1> QED
  BY <1>1, <1>3, <1>4, <1>5, <1>6, <1>7, <1>9, <1>10 DEF Conv

\* The server ends, and with it the worker of the connection.
LEMMA ServerEnds ==
    ASSUME NEW c \in Conns, Types, Conv(c), Ended(Server(c)), EndSame(Client(c)),
           connected'[Client(c)] = connected[Client(c)],
           UNCHANGED <<wire, calls, result>>
    PROVE  Conv(c)'
<1>1. PICK k \in Ends, s \in Ends : k = Client(c) /\ s = Server(c) /\ k # s
  BY EndsOf
<1>2. pc'[s] = "dead" /\ io'[s] = Idle /\ ~connected'[s] /\ sent'[s] = sent[s] /\ EndSame(k) /\ Ended(s)
  BY <1>1 DEF Ended
<1>3. IoInv(k)' /\ Unsent(k)' = Unsent(k)
  BY <1>1, <1>2, EndLeft DEF Conv
<1>4. IoInv(s)'
  BY <1>2 DEF IoInv, SendInv, ReceiveInv, Sending, Receiving
<1>5. FailInv(k, s)' /\ FailInv(s, k)'
  BY <1>1, <1>2 DEF Conv, FailInv, EndSame, Idle
<1>6. PlaceInv(c)'
  BY <1>1, <1>2 DEF Conv, PlaceInv, EndSame, Gone
<1>7. MessageInv(c)'
  BY <1>1, <1>2 DEF Conv, MessageInv, EndSame
<1>8. /\ ToClient(c) = <<>> => ToClient(c)' = <<>>
      /\ \A m \in Message : Prefix(ToClient(c), Full(m)) => Prefix(ToClient(c)', Full(m))
  BY <1>1, <1>2, FlowCut DEF ToClient
<1>9. FlowInv(c)'
  <2>1. sent[s] \in Message
    BY EndTyped DEF EndTypes
  <2> QED
    BY <2>1, <1>1, <1>2, <1>8 DEF Conv, FlowInv, EndSame, Gone
<1>10. TurnInv(c)'
  BY <1>1, <1>2, <1>3, <1>8 DEF Conv, TurnInv, EndSame, Gone
<1> QED
  BY <1>1, <1>3, <1>4, <1>5, <1>6, <1>7, <1>9, <1>10 DEF Conv

-----------------------------------------------------------------------------
(* A step of another connection                                            *)

\* Connection c is left alone.
Apart(c) ==
    /\ \A e \in {Client(c), Server(c)} :
         EndSame(e) /\ wire'[e] = wire[e] /\ connected'[e] = connected[e]
    /\ calls'[c] = calls[c] /\ result'[c] = result[c]

\* What a connection relies on is its own.
LEMMA LeftApart ==
    ASSUME NEW c \in Conns, Conv(c), Apart(c)
    PROVE  Conv(c)'
<1>1. PICK k, s : k = Client(c) /\ s = Server(c)
  OBVIOUS
<1>2. /\ EndSame(k) /\ EndSame(s)
      /\ wire'[k] = wire[k] /\ wire'[s] = wire[s]
      /\ connected'[k] = connected[k] /\ connected'[s] = connected[s]
      /\ calls'[c] = calls[c] /\ result'[c] = result[c]
  BY <1>1 DEF Apart
<1>3. /\ IoInv(k)' /\ Taken(k)' = Taken(k) /\ Unsent(k)' = Unsent(k)
      /\ IoInv(s)' /\ Taken(s)' = Taken(s) /\ Unsent(s)' = Unsent(s)
  BY <1>1, <1>2, EndLeft DEF Conv
<1>4. ToServer(c)' = ToServer(c) /\ ToClient(c)' = ToClient(c)
  BY <1>1, <1>2, <1>3 DEF ToServer, ToClient, Flow
<1>5. FailInv(k, s)' /\ FailInv(s, k)'
  BY <1>1, <1>2 DEF Conv, FailInv, EndSame
<1>6. PlaceInv(c)'
  BY <1>1, <1>2 DEF Conv, PlaceInv, EndSame
<1>7. MessageInv(c)'
  BY <1>1, <1>2 DEF Conv, MessageInv, EndSame
<1>8. FlowInv(c)'
  BY <1>1, <1>2, <1>4 DEF Conv, FlowInv, EndSame
<1>9. TurnInv(c)'
  BY <1>1, <1>2, <1>3, <1>4 DEF Conv, TurnInv, EndSame
<1> QED
  BY <1>1, <1>3, <1>5, <1>6, <1>7, <1>8, <1>9 DEF Conv

-----------------------------------------------------------------------------
(* Every step of a connection                                              *)

\* What a port's step does to the conversation
LEMMA PortStepIs ==
    ASSUME Faults \subseteq {"death", "reject", "handler"}, Types, NEW e \in Ends, NEW p \in Ends,
           Ready(e, p), pc[e] \in Receiving => Whole(e, p), sent[p].type # "other", PortStep(e)
    PROVE  \/ Moved(e, p) \/ Arrived(e, p)
           \/ ReceivedHeader(e) /\ IsServer(e) /\ Throws(e)
           \/ SendFails(e) /\ ProcessEnds(Process(e))
<1>1. CASE Transfer(e)
  BY <1>1, SignalMoved, FailsMoved, SentMoved, ReadMoved DEF Transfer
<1>2. CASE SendPayload(e)
  BY <1>2, PayloadMoved
<1>3. CASE SendDone(e)
  BY <1>3, DoneMoved
<1>4. CASE ReceivedHeader(e)
  <2>1. Whole(e, p)
    BY <1>4 DEF ReceivedHeader, Receiving
  <2>2. ReceivePayload(e, sent[p])
    BY <1>4, <2>1, HeaderComplete
  <2>3. CASE Payload(sent[p]) = <<>>
    <3>1. Received(e)
      BY <2>2, <2>3 DEF ReceivePayload
    <3> QED
      BY <1>4, <2>1, <2>3, <3>1, HeaderArrived
  <2>4. CASE Payload(sent[p]) # <<>>
    <3>1. \/ IsServer(e) /\ Throws(e)
          \/ Receive(e, Len(Payload(sent[p])), "recvPayload") /\ UNCHANGED result
      BY <2>2, <2>4 DEF ReceivePayload, MayFail
    <3> QED
      BY <1>4, <2>1, <2>4, <3>1, HeaderMoved
  <2> QED
    BY <2>3, <2>4
<1>5. CASE ReceivedPayload(e)
  <2>1. Whole(e, p)
    BY <1>5 DEF ReceivedPayload, Receiving
  <2> QED
    BY <1>5, <2>1, PayloadArrived
<1> QED
  BY <1>1, <1>2, <1>3, <1>4, <1>5 DEF PortStep

\* A step of ClientPort and its channel
LEMMA ClientPortStep ==
    ASSUME Faults \subseteq {"death", "reject", "handler"}, Types, NEW c \in Conns, Conv(c),
           PortStep(Client(c))
    PROVE  Conv(c)' \/ ProcessEnds(Process(Client(c)))
<1>1. PICK k \in Ends, s \in Ends :
         k = Client(c) /\ s = Server(c) /\ k # s /\ s = Peer(k) /\ ~IsServer(k)
  BY EndsOf
<1>2. Ready(k, s) /\ sent[s].type # "other"
  BY <1>1 DEF Conv, Ready, MessageInv
<1>3. pc[k] \in Receiving => Whole(k, s)
  BY <1>1 DEF Conv, FlowInv, Whole, ToClient, Receiving
<1>4. Moved(k, s) \/ Arrived(k, s) \/ ProcessEnds(Process(k))
  BY <1>1, <1>2, <1>3, PortStepIs
<1> QED
  BY <1>1, <1>4, ClientMoved, ClientArrived

\* A step of ServerPort and its channel
LEMMA ServerPortStep ==
    ASSUME Faults \subseteq {"death", "reject", "handler"}, Types, NEW c \in Conns, Conv(c),
           PortStep(Server(c))
    PROVE  Conv(c)' \/ ProcessEnds(ServerProcess)
<1>1. PICK k \in Ends, s \in Ends :
         k = Client(c) /\ s = Server(c) /\ k # s /\ k = Peer(s) /\ IsServer(s)
         /\ Process(s) = ServerProcess
  BY EndsOf
<1>2. Ready(s, k) /\ sent[k].type # "other"
  BY <1>1 DEF Conv, Ready, MessageInv
<1>3. pc[s] \in Receiving => Whole(s, k)
  BY <1>1 DEF Conv, FlowInv, Whole, ToServer, Receiving, Gone
<1>4. \/ Moved(s, k) \/ Arrived(s, k) \/ ProcessEnds(ServerProcess)
      \/ ReceivedHeader(s) /\ Throws(s)
  BY <1>1, <1>2, <1>3, PortStepIs
<1>5. CASE ReceivedHeader(s) /\ Throws(s)
  <2>1. /\ pc[s] \in Receiving /\ UNCHANGED <<sent, wire, connected, calls, result>>
        /\ GoTo(s, "over")
    BY <1>1, <1>5 DEF ReceivedHeader, Throws, channels, Receiving
  <2>2. pc'[s] = "over" /\ io'[s] = Idle /\ pc'[k] = pc[k] /\ io'[k] = io[k]
    BY <1>1, <2>1, GoneTo
  <2>3. got'[k] = got[k]
    BY <1>1, <1>5 DEF ReceivedHeader, Types, MessageTypes
  <2>4. Leaves(s, k)
    BY <2>1, <2>2, <2>3 DEF Leaves, EndSame, Sending, Receiving
  <2> QED
    BY <1>1, <2>4, ServerLeaves
<1> QED
  BY <1>1, <1>4, <1>5, ServerMoved, ServerArrived

\* The handler fails, and the worker drops the connection.
LEMMA NotAnswered ==
    ASSUME Types, NEW c \in Conns, Conv(c), HandlerFails(c)
    PROVE  Conv(c)'
<1>1. PICK k \in Ends, s \in Ends : k = Client(c) /\ s = Server(c) /\ k # s
  BY EndsOf
<1>2. /\ GoTo(s, "over") /\ UNCHANGED <<sent, got, wire, connected, calls, result>>
      /\ pc[s] = "dispatch"
  BY <1>1 DEF HandlerFails, channels
<1>3. pc'[s] = "over" /\ io'[s] = Idle /\ pc'[k] = pc[k] /\ io'[k] = io[k]
  BY <1>1, <1>2, GoneTo
<1>4. Leaves(s, k)
  BY <1>2, <1>3 DEF Leaves, EndSame, Sending
<1> QED
  BY <1>1, <1>4, ServerLeaves

\* The worker gives up.
LEMMA GivesUp ==
    ASSUME Types, NEW c \in Conns, Conv(c), WaitFails(c) \/ ReplyFails(c)
    PROVE  Conv(c)'
<1>1. PICK k \in Ends, s \in Ends : k = Client(c) /\ s = Server(c) /\ k # s /\ IsServer(s)
  BY EndsOf
<1>2. CASE ReplyFails(c) /\ sent[s].status # "failed"
  BY <1>1, <1>2, AnsweredAgain
<1>3. CASE WaitFails(c) \/ sent[s].status = "failed"
  <2>1. /\ GoTo(s, "over") /\ UNCHANGED <<sent, got, wire, connected, calls, result>>
        /\ io[s].step = "failed" /\ pc[s] \in Sending \cup Receiving
    BY <1>1, <1>3 DEF WaitFails, ReplyFails, Throws, channels, Sending, Receiving
  <2>2. pc'[s] = "over" /\ io'[s] = Idle /\ pc'[k] = pc[k] /\ io'[k] = io[k]
    BY <1>1, <2>1, GoneTo
  <2>3. ~connected[k]
    BY <1>1, <2>1 DEF Conv, FailInv
  <2>4. Leaves(s, k)
    BY <2>1, <2>2, <2>3 DEF Leaves, EndSame
  <2> QED
    BY <1>1, <2>4, ServerLeaves
<1> QED
  BY <1>1, <1>2, <1>3

-----------------------------------------------------------------------------
\* A step of connection c touches no other.
Within(c) ==
    /\ \A x \in Ends : x[2] # c =>
         EndSame(x) /\ wire'[x] = wire[x] /\ connected'[x] = connected[x]
    /\ \A d \in Conns : d # c => calls'[d] = calls[d] /\ result'[d] = result[d]

\* Every other connection is left alone.
LEMMA WithinApart ==
    ASSUME NEW c \in Conns, Within(c), NEW d \in Conns, d # c
    PROVE  Apart(d)
<1>1. Client(d) \in Ends /\ Server(d) \in Ends /\ Client(d)[2] = d /\ Server(d)[2] = d
  BY EndsOf
<1> QED
  BY <1>1 DEF Within, Apart

\* What the functions of the state are defined on
Domains ==
    /\ pc = [x \in Ends |-> pc[x]] /\ io = [x \in Ends |-> io[x]]
    /\ sent = [x \in Ends |-> sent[x]] /\ got = [x \in Ends |-> got[x]]
    /\ wire = [x \in Ends |-> wire[x]] /\ connected = [x \in Ends |-> connected[x]]
    /\ calls = [d \in Conns |-> calls[d]] /\ result = [d \in Conns |-> result[d]]

\* They follow from the types.
LEMMA TypedDomains == ASSUME Types PROVE Domains
BY DEF Types, PortTypes, MessageTypes, ChannelTypes, Domains

\* A step of a transfer touches the two ends of its connection.
LEMMA TransferWithin ==
    ASSUME Domains, NEW e \in Ends, Transfer(e), ~ProcessEnds(Process(e))
    PROVE  Within(e[2])
<1>1. Peer(e)[2] = e[2]
  <2>1. PICK c \in Conns : e = Client(c) \/ e = Server(c)
    BY EndIs
  <2> QED
    BY <2>1, EndsOf
<1>2. UNCHANGED <<pc, sent, got, calls, result, connected>>
  BY Zenon DEF Transfer, IgnoreSignal, MoveOut, SendFails, MoveIn, ReceiveFails, RestoreSignal, ports
<1>3. \A x \in Ends : x # e => io'[x] = io[x]
  BY Zenon DEF Transfer, IgnoreSignal, MoveOut, SendFails, MoveIn, ReceiveFails, RestoreSignal, Step, Domains
<1>4. \A x \in Ends : x # e /\ x # Peer(e) => wire'[x] = wire[x]
  <2>1. \/ wire' = wire
        \/ \E w : wire' = [wire EXCEPT ![e] = w]
        \/ \E w : wire' = [wire EXCEPT ![Peer(e)] = w]
    BY Zenon DEF Transfer, IgnoreSignal, MoveOut, SendFails, MoveIn, ReceiveFails, RestoreSignal
  <2> QED
    BY <2>1 DEF Domains
<1> QED
  BY <1>1, <1>2, <1>3, <1>4 DEF Within, EndSame

\* Of the ends only e does something.
Only(e) ==
    /\ \A x \in Ends : x # e => pc'[x] = pc[x] /\ io'[x] = io[x] /\ sent'[x] = sent[x] /\ got'[x] = got[x]
    /\ wire' = wire
    /\ \A x \in Ends : x # e => connected'[x] = connected[x]
    /\ \A d \in Conns : d # e[2] => calls'[d] = calls[d] /\ result'[d] = result[d]

\* The end belongs to one connection.
LEMMA OnlyWithin ==
    ASSUME NEW e \in Ends, Only(e)
    PROVE  Within(e[2])
BY DEF Only, Within, EndSame

\* Port: what happens between the transfers
LEMMA PortOnly ==
    ASSUME Domains, NEW e \in Ends,
           SendPayload(e) \/ SendDone(e) \/ ReceivedHeader(e) \/ ReceivedPayload(e)
    PROVE  Only(e)
<1>1. UNCHANGED <<sent, calls, wire, connected>>
  BY DEF SendPayload, SendDone, ReceivedHeader, ReceivedPayload, channels
<1>2. \A x \in Ends : x # e => got'[x] = got[x]
  BY DEF SendPayload, SendDone, ReceivedHeader, ReceivedPayload, Domains
<1>3. \A x \in Ends : x # e => pc'[x] = pc[x] /\ io'[x] = io[x]
  <2>1. CASE SendPayload(e) \/ SendDone(e)
    BY <2>1, Zenon DEF SendPayload, SendDone, Send, Receive, Step, Domains
  <2>2. CASE ReceivedHeader(e) \/ ReceivedPayload(e)
    BY <2>2, Zenon DEF ReceivedHeader, ReceivedPayload, ReceivePayload, Throws, Received, Receive, GoTo, Domains
  <2> QED
    BY <2>1, <2>2
<1>4. \A d \in Conns : d # e[2] => result'[d] = result[d]
  <2>1. CASE SendPayload(e) \/ SendDone(e)
    BY <2>1 DEF SendPayload, SendDone
  <2>2. CASE ReceivedHeader(e) \/ ReceivedPayload(e)
    BY <2>2 DEF ReceivedHeader, ReceivedPayload, ReceivePayload, Throws, Received, Domains
  <2> QED
    BY <2>1, <2>2
<1> QED
  BY <1>1, <1>2, <1>3, <1>4 DEF Only

\* ClientPort::call begins and ends at the client.
LEMMA CallOnly ==
    ASSUME Domains, NEW c \in Conns,
           \/ \E len \in 0..MaxPayload : Call(c, len)
           \/ CallFails(Client(c)) \/ CheckResponse(c)
    PROVE  Only(Client(c))
<1>1. Client(c) \in Ends /\ ~IsServer(Client(c)) /\ Client(c)[2] = c
  BY EndsOf
<1>2. PICK k \in Ends : k = Client(c) /\ k[2] = c /\ ~IsServer(k)
  BY <1>1
<1>3. CASE \E len \in 0..MaxPayload : Call(c, len)
  <2>0. PICK len : Call(c, len)
    BY <1>3
  <2>1. PICK m, h : Send(k, h, "sendHeader") /\ sent' = [sent EXCEPT ![k] = m]
    BY <1>2, <2>0 DEF Call, SendMessage
  <2>2. /\ UNCHANGED <<got, wire, connected>>
        /\ \A d \in Conns : d # c => calls'[d] = calls[d] /\ result'[d] = result[d]
    BY <2>0 DEF Call, channels, Domains
  <2> QED
    BY <1>2, <2>1, <2>2 DEF Send, Domains, Only
<1>4. CASE CallFails(Client(c)) \/ CheckResponse(c)
  <2>1. GoTo(k, "idle") /\ UNCHANGED <<sent, got, calls, wire, connected>>
    BY <1>2, <1>4 DEF CallFails, CheckResponse, Throws, channels
  <2>2. \E r : result' = [result EXCEPT ![c] = r]
    BY <1>2, <1>4 DEF CallFails, CheckResponse, Throws
  <2> QED
    BY <1>2, <2>1, <2>2 DEF GoTo, Domains, Only
<1> QED
  BY <1>3, <1>4

\* ServerSessionWorker::_run acts at the server's end.
LEMMA WorkerOnly ==
    ASSUME Domains, NEW c \in Conns,
           \/ \E type \in {"embedded", "data", "handles"}, len \in 0..MaxPayload,
                 status \in {"success", "failed"} : Handle(c, type, len, status)
           \/ HandlerFails(c) \/ ReplyFails(c) \/ WaitFails(c) \/ ClosePort(c)
    PROVE  Only(Server(c))
<1>1. PICK s \in Ends : s = Server(c) /\ s[2] = c /\ IsServer(s)
  BY EndsOf
<1>2. UNCHANGED <<got, calls, result, wire>>
  BY DEF Handle, HandlerFails, ReplyFails, WaitFails, ClosePort, Throws, channels, ports, IsServer, Server
<1>3. \A x \in Ends : x # s => connected'[x] = connected[x]
  BY <1>1 DEF Handle, HandlerFails, ReplyFails, WaitFails, ClosePort, channels, Domains
<1>4. \/ GoTo(s, "over") /\ sent' = sent
      \/ \E m, h : Send(s, h, "sendHeader") /\ sent' = [sent EXCEPT ![s] = m]
      \/ UNCHANGED <<pc, io, sent>>
  BY <1>1, Zenon DEF Handle, HandlerFails, ReplyFails, WaitFails, ClosePort, Reply, SendMessage, Throws, ports
<1>5. \A x \in Ends : x # s => pc'[x] = pc[x] /\ io'[x] = io[x] /\ sent'[x] = sent[x]
  BY <1>4 DEF GoTo, Send, Domains
<1> QED
  BY <1>1, <1>2, <1>3, <1>5 DEF Only

-----------------------------------------------------------------------------
\* What a process that ends leaves alone
LEMMA ProcessGone ==
    ASSUME Types, NEW p, ProcessEnds(p), NEW e \in Ends
    PROVE  /\ Process(e) = p => Ended(e)
           /\ Process(e) # p => EndSame(e) /\ connected'[e] = connected[e]
<1>1. /\ UNCHANGED <<sent, got>>
      /\ pc'[e] = IF Process(e) = p THEN "dead" ELSE pc[e]
      /\ io'[e] = IF Process(e) = p THEN Idle ELSE io[e]
      /\ connected'[e] = (connected[e] /\ Process(e) # p)
  BY DEF ProcessEnds
<1>2. connected[e] \in BOOLEAN
  BY DEF Types, ChannelTypes
<1> QED
  BY <1>1, <1>2 DEF Ended, EndSame

\* The invariant of the conversations
ConvInv == \A c \in Conns : Conv(c)

\* A process ends: a connection loses its worker, its client, or does not notice.
LEMMA ProcessEndsAll ==
    ASSUME Types, ConvInv, NEW p, ProcessEnds(p)
    PROVE  ConvInv'
<1> SUFFICES ASSUME NEW c \in Conns PROVE Conv(c)'
  BY DEF ConvInv
<1>1. Client(c) \in Ends /\ Server(c) \in Ends /\ Process(Client(c)) # Process(Server(c)) /\ Conv(c)
  BY EndsOf DEF ConvInv
<1>2. UNCHANGED <<got, wire, calls, result>>
  BY DEF ProcessEnds
<1>3. CASE Process(Client(c)) = p
  <2>1. Ended(Client(c)) /\ EndSame(Server(c)) /\ connected'[Server(c)] = connected[Server(c)]
    BY <1>1, <1>3, ProcessGone
  <2> QED
    BY <1>1, <1>2, <2>1, ClientEnds
<1>4. CASE Process(Server(c)) = p
  <2>1. Ended(Server(c)) /\ EndSame(Client(c)) /\ connected'[Client(c)] = connected[Client(c)]
    BY <1>1, <1>4, ProcessGone
  <2> QED
    BY <1>1, <1>2, <2>1, ServerEnds
<1>5. CASE Process(Client(c)) # p /\ Process(Server(c)) # p
  <2>1. Apart(c)
    BY <1>1, <1>2, <1>5, ProcessGone DEF Apart
  <2> QED
    BY <1>1, <2>1, LeftApart
<1> QED
  BY <1>3, <1>4, <1>5

\* A thread of a client leaves: the other connections do not notice.
LEMMA LeaverGone ==
    ASSUME Types, NEW c \in Conns, Conv(c), ClientLeaves(c)
    PROVE  Conv(c)' /\ Within(c)
<1>1. PICK k \in Ends, s \in Ends : k = Client(c) /\ s = Server(c) /\ k # s /\ k[2] = c
  BY EndsOf
<1>2. pc[k] = "idle" /\ io[k] = Idle
  BY <1>1 DEF ClientLeaves, Conv, IoInv, Sending, Receiving
<1>3. /\ pc' = [pc EXCEPT ![k] = "dead"] /\ connected' = [connected EXCEPT ![k] = FALSE]
      /\ UNCHANGED <<io, sent, got, wire, calls, result>>
  BY <1>1 DEF ClientLeaves
<1>4. Ended(k)
  BY <1>2, <1>3, TypedDomains DEF Domains, Ended
<1>5. Only(k)
  BY <1>3, TypedDomains DEF Domains, Only
<1>6. EndSame(s) /\ connected'[s] = connected[s]
  BY <1>1, <1>5 DEF Only, EndSame
<1>7. Conv(c)'
  BY <1>1, <1>3, <1>4, <1>6, ClientEnds
<1>8. Within(c)
  BY <1>1, <1>5, OnlyWithin
<1> QED
  BY <1>7, <1>8

\* A step of a connection keeps its own invariant.
LEMMA StepKeepsOne ==
    ASSUME Faults \subseteq {"death", "reject", "handler"}, Types, NEW c \in Conns, Conv(c),
           \/ \E len \in 0..MaxPayload : Call(c, len)
           \/ ClientStep(c) \/ ServerStep(c) \/ ClientLeaves(c)
    PROVE  (Conv(c)' /\ Within(c)) \/ \E p : ProcessEnds(p)
<1>1. PICK k \in Ends, s \in Ends :
         /\ k = Client(c) /\ s = Server(c) /\ k[2] = c /\ s[2] = c
         /\ Process(s) = ServerProcess
  BY EndsOf
<1>2. Domains
  BY TypedDomains
<1>3. CASE ClientLeaves(c)
  BY <1>3, LeaverGone
<1>4. CASE \E len \in 0..MaxPayload : Call(c, len)
  <2>1. Conv(c)'
    BY <1>4, CallBegins
  <2>2. Only(k)
    BY <1>1, <1>2, <1>4, CallOnly
  <2> QED
    BY <1>1, <2>1, <2>2, OnlyWithin
<1>5. CASE CallFails(k) \/ CheckResponse(c)
  <2>1. Conv(c)'
    BY <1>1, <1>5, CallGivenUp, CallChecked
  <2>2. Only(k)
    BY <1>1, <1>2, <1>5, CallOnly
  <2> QED
    BY <1>1, <2>1, <2>2, OnlyWithin
<1>6. CASE PortStep(k) /\ ~ProcessEnds(Process(k))
  <2>1. Conv(c)'
    BY <1>1, <1>6, ClientPortStep
  <2>2. Within(c)
    <3>1. Transfer(k) => Within(c)
      BY <1>1, <1>2, <1>6, TransferWithin
    <3>2. SendPayload(k) \/ SendDone(k) \/ ReceivedHeader(k) \/ ReceivedPayload(k) => Within(c)
      BY <1>1, <1>2, PortOnly, OnlyWithin
    <3> QED
      BY <1>6, <3>1, <3>2 DEF PortStep
  <2> QED
    BY <2>1, <2>2
<1>7. CASE PortStep(s) /\ ~ProcessEnds(ServerProcess)
  <2>1. Conv(c)'
    BY <1>1, <1>7, ServerPortStep
  <2>2. Within(c)
    <3>1. Transfer(s) => Within(c)
      BY <1>1, <1>2, <1>7, TransferWithin
    <3>2. SendPayload(s) \/ SendDone(s) \/ ReceivedHeader(s) \/ ReceivedPayload(s) => Within(c)
      BY <1>1, <1>2, PortOnly, OnlyWithin
    <3> QED
      BY <1>7, <3>1, <3>2 DEF PortStep
  <2> QED
    BY <2>1, <2>2
<1>8. CASE \/ \E type \in {"embedded", "data", "handles"}, len \in 0..MaxPayload,
              status \in {"success", "failed"} : Handle(c, type, len, status)
           \/ HandlerFails(c) \/ ReplyFails(c) \/ WaitFails(c) \/ ClosePort(c)
  <2>1. Conv(c)'
    BY <1>8, Answered, NotAnswered, GivesUp, PortClosed
  <2>2. Only(s)
    BY <1>1, <1>2, <1>8, WorkerOnly
  <2> QED
    BY <1>1, <2>1, <2>2, OnlyWithin
<1> QED
  BY <1>1, <1>3, <1>4, <1>5, <1>6, <1>7, <1>8 DEF ClientStep, ServerStep

-----------------------------------------------------------------------------
\* Before the first call nothing is under way.
LEMMA InitConv == ASSUME Init PROVE ConvInv
<1>1. Types
  BY InitTypes
<1> SUFFICES ASSUME NEW c \in Conns PROVE Conv(c)
  BY DEF ConvInv
<1>2. PICK k \in Ends, s \in Ends : k = Client(c) /\ s = Server(c) /\ k # s /\ IsServer(s) /\ ~IsServer(k)
  BY EndsOf
<1>3. Header \in Nat \ {0} /\ Len(<<>>) = 0 /\ <<>> \in Seq(Piece)
  BY RpcAssumption, EmptySeq
<1>4. /\ pc[k] = "idle" /\ pc[s] = "recvHeader" /\ io[k] = Idle
      /\ io[s] = [Idle EXCEPT !.step = "ignore", !.need = Header]
      /\ wire[k] = <<>> /\ wire[s] = <<>> /\ connected[k] /\ connected[s]
      /\ sent[k] = NoMessage /\ sent[s] = NoMessage /\ calls[c] = 0 /\ result[c] = "none"
  BY <1>2 DEF Init
<1>5. io[s].step = "ignore" /\ io[s].out = <<>> /\ io[s].need = Header /\ io[s].in = <<>>
  BY <1>4 DEF Idle
<1>6. /\ Taken(k) = <<>> /\ Unsent(k) = <<>> /\ Taken(s) = <<>> /\ Unsent(s) = <<>>
  BY <1>4, <1>5 DEF Taken, Unsent
<1>7. ToServer(c) = <<>> /\ ToClient(c) = <<>>
  <2>1. Cat(Cat(<<>>, <<>>), <<>>) = <<>>
    BY <1>3, CatEmpty
  <2> QED
    BY <2>1, <1>2, <1>4, <1>6 DEF ToServer, ToClient, Flow
<1>8. IoInv(k) /\ IoInv(s)
  BY <1>3, <1>4, <1>5 DEF IoInv, SendInv, ReceiveInv, Sending, Receiving
<1>9. FailInv(k, s) /\ FailInv(s, k)
  BY <1>4, <1>5 DEF FailInv, Idle
<1>10. PlaceInv(c)
  BY <1>2, <1>4 DEF PlaceInv, Receiving
<1>11. MessageInv(c)
  BY <1>2, <1>4 DEF MessageInv, NoMessage
<1>12. FlowInv(c)
  BY <1>1, <1>2, <1>7, NothingFirst, EndTyped DEF FlowInv, EndTypes
<1>13. TurnInv(c)
  BY <1>2, <1>4, <1>7 DEF TurnInv
<1> QED
  BY <1>2, <1>8, <1>9, <1>10, <1>11, <1>12, <1>13 DEF Conv

\* The inductive invariant: on every connection the pieces that one end has read,
\* those under way and those the other has still to send are, in this order, the
\* front of the message that was sent last, and only one end speaks.  It does not
\* hold when a client has no memory for a response or handles cannot be sent: then
\* a payload that was announced is not read, or not sent.
THEOREM Conversation ==
    ASSUME Faults \subseteq {"death", "reject", "handler"} PROVE Spec => []ConvInv
<1>1. Init => ConvInv
  BY InitConv
<1>2. Types /\ ConvInv /\ [Next]_vars => ConvInv'
  <2> SUFFICES ASSUME Types, ConvInv, [Next]_vars PROVE ConvInv'
    OBVIOUS
  <2>1. CASE UNCHANGED vars
    <3>1. \A c \in Conns : Apart(c)
      BY <2>1 DEF vars, Apart, EndSame
    <3> QED
      BY <3>1, LeftApart DEF ConvInv
  <2>2. ASSUME NEW p, ProcessEnds(p) PROVE ConvInv'
    BY <2>2, ProcessEndsAll
  <2>3. CASE Next
    <3>1. CASE \E p \in Clients : ClientDies(p)
      BY <2>2, <3>1 DEF ClientDies
    <3>2. ASSUME NEW c \in Conns,
                 \/ \E len \in 0..MaxPayload : Call(c, len)
                 \/ ClientStep(c) \/ ServerStep(c) \/ ClientLeaves(c)
          PROVE  ConvInv'
      <4>1. CASE Conv(c)' /\ Within(c)
        <5>1. ASSUME NEW d \in Conns, d # c PROVE Conv(d)'
          BY <4>1, <5>1, WithinApart, LeftApart DEF ConvInv
        <5> QED
          BY <4>1, <5>1 DEF ConvInv
      <4>2. (Conv(c)' /\ Within(c)) \/ \E p : ProcessEnds(p)
        BY <3>2, StepKeepsOne DEF ConvInv
      <4> QED
        BY <2>2, <4>1, <4>2
    <3> QED
      BY <2>3, <3>1, <3>2 DEF Next
  <2> QED
    BY <2>1, <2>3
<1> QED
  BY <1>1, <1>2, TypesKept, PTL DEF Spec

\* InStep: for any number of connections, calls, pieces and sequence numbers a
\* response belongs to the request of the call that is given it (ClientPort::call),
\* and the server dispatches the request of the current call (ServerPort::wait),
\* whenever a transfer is cut, a handler or a request fails or a client ends.
THEOREM StayInStep ==
    ASSUME Faults \subseteq {"death", "reject", "handler"} PROVE Spec => []InStep
<1>1. Types /\ ConvInv => InStep
  BY ConvInStep DEF ConvInv
<1> QED
  BY <1>1, TypesKept, Conversation, PTL

=============================================================================
