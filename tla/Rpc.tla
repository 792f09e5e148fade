-------------------------------- MODULE Rpc ---------------------------------
(***************************************************************************)
(* A call and its way to the server and back: classes ClientPort,          *)
(* ServerPort, Port and Message, LocalChannel and SocketChannel, and the   *)
(* request loop of ServerSessionWorker.                                    *)
(*                                                                         *)
(* A message is a header, followed by data or by handles if the header     *)
(* says so.  Nothing in the stream of bytes marks where a message begins:  *)
(* both ends have to read exactly what the other one writes.  ::send and   *)
(* ::recv move some of the bytes they are asked for; a call of them that   *)
(* is interrupted is repeated and changes nothing.                         *)
(*                                                                         *)
(* Around every transfer the signal SIGPIPE is ignored and set back to its *)
(* default, which ends the process.  That setting is one per process.  A   *)
(* connection belongs to a thread of a client process and to a thread of   *)
(* the server, so both may have several threads that transfer data.        *)
(***************************************************************************)
EXTENDS Integers, Sequences

CONSTANTS
    Clients,       \* client processes
    Threads,       \* threads of a client process that are attached to a session
    MaxCalls,      \* bound on the calls of a connection
    Header,        \* pieces of a header
    MaxPayload,    \* largest number of pieces of data
    SeqBits,       \* bits of a sequence number
    Faults         \* what may go wrong

\* 2^SeqBits is a positive number: so the provers are told, who know nothing
\* of powers.
ASSUME RpcAssumption ==
    /\ MaxCalls \in Nat /\ Header \in Nat \ {0} /\ MaxPayload \in Nat \ {0}
    /\ SeqBits \in Nat /\ 2^SeqBits \in Nat \ {0}
    /\ Faults \subseteq {"death", "reject", "handler", "memory", "handles"}

\* A thread of a client has a port of its own.
Conns == Clients \X Threads

Ends == {"client", "server"} \X Conns
Client(c) == <<"client", c>>
Server(c) == <<"server", c>>
IsServer(e) == e[1] = "server"
Peer(e) == IF IsServer(e) THEN Client(e[2]) ELSE Server(e[2])

\* All workers are threads of one process, as are the threads of a client.
ServerProcess == <<"server">>
ClientProcess(p) == <<"client", p>>
Process(e) == IF IsServer(e) THEN ServerProcess ELSE ClientProcess(e[2][1])

Seqs == 0..2^SeqBits - 1

\* The fields of struct Message that are sent, and the call it belongs to.
\* Type "other" is none of MessagePayloadType.
Message ==
    [call : 0..MaxCalls, seq : Seqs, type : {"embedded", "data", "handles", "other"},
     len : 0..MaxPayload, status : {"request", "success", "failed"}]

NoMessage == [call |-> 0, seq |-> 0, type |-> "embedded", len |-> 0, status |-> "request"]

Pieces(m, part, n) == [i \in 1..n |-> [m |-> m, part |-> part, i |-> i]]

VARIABLES
    pc,            \* where the thread of an end is
    io,            \* the transfer it is doing
    sent, got,     \* the messages it is sending and receiving
    wire,          \* the pieces on their way to an end
    connected,     \* the end has not closed its endpoint
    sigpipe,       \* the disposition of SIGPIPE in a process
    calls,         \* the number of the client's call
    nextSequenceNumber,
    result,        \* of the client's call
    killed,        \* processes that SIGPIPE has ended
    raced          \* history: processes in which a thread has set the signal
                   \* back while another one transferred data

vars == <<pc, io, sent, got, wire, connected, sigpipe, calls, nextSequenceNumber,
          result, killed, raced>>

Idle == [step |-> "off", out |-> <<>>, need |-> 0, in |-> <<>>]

TypeOK ==
    /\ pc \in [Ends -> {"idle", "sendHeader", "sendPayload", "recvHeader", "recvPayload",
                        "check", "dispatch", "over", "dead"}]
    /\ \A e \in Ends :
         /\ io[e].step \in {"off", "ignore", "move", "restore", "undo", "done", "failed"}
         /\ io[e].need \in 0..Header + MaxPayload
    /\ sent \in [Ends -> Message] /\ got \in [Ends -> Message]
    /\ connected \in [Ends -> BOOLEAN]
    /\ sigpipe \in [{Process(e) : e \in Ends} -> {"default", "ignored"}]
    /\ calls \in [Conns -> 0..MaxCalls]
    /\ nextSequenceNumber \in [Conns -> Seqs]
    /\ result \in [Conns -> {"none", "pending", "returned", "peer", "thrown"}]

\* _nextSequenceNumber is not initialized.
Init ==
    /\ pc = [e \in Ends |-> IF IsServer(e) THEN "recvHeader" ELSE "idle"]
    /\ io = [e \in Ends |-> IF IsServer(e) THEN [Idle EXCEPT !.step = "ignore", !.need = Header]
                            ELSE Idle]
    /\ sent = [e \in Ends |-> NoMessage] /\ got = [e \in Ends |-> NoMessage]
    /\ wire = [e \in Ends |-> <<>>]
    /\ connected = [e \in Ends |-> TRUE]
    /\ sigpipe = [p \in {Process(e) : e \in Ends} |-> "default"]
    /\ calls = [c \in Conns |-> 0]
    /\ nextSequenceNumber \in [Conns -> Seqs]
    /\ result = [c \in Conns |-> "none"]
    /\ killed = {} /\ raced = {}

-----------------------------------------------------------------------------
(* LocalChannel and SocketChannel: _send, _receive                         *)

ports == <<pc, sent, got, calls, nextSequenceNumber, result>>
fate == <<killed, raced>>

Step(e, step) == io' = [io EXCEPT ![e].step = step]

IgnoreSignal(e) ==
    /\ io[e].step = "ignore"
    /\ sigpipe' = [sigpipe EXCEPT ![Process(e)] = "ignored"]
    /\ Step(e, "move")
    /\ UNCHANGED <<ports, wire, connected, fate>>

\* ::send has taken some of the data.
MoveOut(e) ==
    /\ io[e].step = "move" /\ io[e].out # <<>>
    /\ connected[Peer(e)]
    /\ \E k \in 1..Len(io[e].out) :
         /\ wire' = [wire EXCEPT ![Peer(e)] = @ \o SubSeq(io[e].out, 1, k)]
         /\ io' = [io EXCEPT ![e].out = SubSeq(@, k + 1, Len(@)),
                             ![e].step = IF k = Len(io[e].out) THEN "restore" ELSE "move"]
    /\ UNCHANGED <<ports, connected, sigpipe, fate>>

\* A process has come to its end.
ProcessEnds(p) ==
    /\ pc' = [e \in Ends |-> IF Process(e) = p THEN "dead" ELSE pc[e]]
    /\ io' = [e \in Ends |-> IF Process(e) = p THEN Idle ELSE io[e]]
    /\ connected' = [e \in Ends |-> connected[e] /\ Process(e) # p]
    /\ UNCHANGED <<sent, got, wire, sigpipe, calls, nextSequenceNumber, result, raced>>

\* ::send to an endpoint that was closed: EPIPE, or the signal
SendFails(e) ==
    /\ io[e].step = "move" /\ io[e].out # <<>>
    /\ ~connected[Peer(e)]
    /\ IF sigpipe[Process(e)] = "ignored"
       THEN /\ Step(e, "undo")
            /\ UNCHANGED <<ports, wire, connected, sigpipe, fate>>
       ELSE /\ ProcessEnds(Process(e))
            /\ killed' = killed \cup {Process(e)}

\* ::recv has read some of the data.
MoveIn(e) ==
    /\ io[e].step = "move" /\ io[e].need > 0
    /\ \E k \in 1..io[e].need :
         /\ k <= Len(wire[e])
         /\ wire' = [wire EXCEPT ![e] = SubSeq(@, k + 1, Len(@))]
         /\ io' = [io EXCEPT ![e].in = @ \o SubSeq(wire[e], 1, k),
                             ![e].need = @ - k,
                             ![e].step = IF k = io[e].need THEN "restore" ELSE "move"]
    /\ UNCHANGED <<ports, connected, sigpipe, fate>>

\* Variant: a call that reads nothing is repeated like an interrupted one.
ReceiveFailsNot(e) == FALSE /\ UNCHANGED vars

\* ::recv returns 0: the peer is gone.
ReceiveFails(e) ==
    /\ io[e].step = "move" /\ io[e].need > 0
    /\ wire[e] = <<>> /\ ~connected[Peer(e)]
    /\ Step(e, "undo")
    /\ UNCHANGED <<ports, wire, connected, sigpipe, fate>>

RestoreSignal(e) ==
    /\ io[e].step \in {"restore", "undo"}
    /\ sigpipe' = [sigpipe EXCEPT ![Process(e)] = "default"]
    /\ Step(e, IF io[e].step = "restore" THEN "done" ELSE "failed")
    /\ raced' = raced \cup {p \in {Process(e)} :
                    \E f \in Ends \ {e} : Process(f) = p /\ io[f].step = "move"}
    /\ UNCHANGED <<ports, wire, connected, killed>>

Transfer(e) ==
    \/ IgnoreSignal(e) \/ MoveOut(e) \/ SendFails(e) \/ MoveIn(e) \/ ReceiveFails(e)
    \/ RestoreSignal(e)

-----------------------------------------------------------------------------
(* Port: _send, _receive                                                   *)

channels == <<wire, connected, sigpipe, fate>>

Send(e, pieces, at) ==
    /\ pc' = [pc EXCEPT ![e] = at]
    /\ io' = [io EXCEPT ![e] = [Idle EXCEPT !.step = "ignore", !.out = pieces]]

Receive(e, n, at) ==
    /\ pc' = [pc EXCEPT ![e] = at]
    /\ io' = [io EXCEPT ![e] = [Idle EXCEPT !.step = "ignore", !.need = n]]

GoTo(e, at) ==
    /\ pc' = [pc EXCEPT ![e] = at]
    /\ io' = [io EXCEPT ![e] = Idle]

SendMessage(e, m) ==
    /\ sent' = [sent EXCEPT ![e] = m]
    /\ Send(e, Pieces(m, "header", Header), "sendHeader")

\* What follows a header.  The handles are one piece, whatever their number.
Payload(m) ==
    CASE m.type = "data"    -> Pieces(m, "data", m.len)
      [] m.type = "handles" -> Pieces(m, "handles", IF m.len > 0 THEN 1 ELSE 0)
      [] OTHER              -> <<>>

\* Whether what a fault strikes fails
MayFail(fault, struck) == {fails \in BOOLEAN : fails => struck /\ fault \in Faults}

SendPayload(e) ==
    /\ pc[e] = "sendHeader" /\ io[e].step = "done"
    /\ Payload(sent[e]) # <<>>
    /\ \E fails \in MayFail("handles", sent[e].type = "handles") :
         IF fails THEN Step(e, "failed") /\ UNCHANGED pc
         ELSE Send(e, Payload(sent[e]), "sendPayload")
    /\ UNCHANGED <<sent, got, calls, nextSequenceNumber, result, channels>>

\* The client waits for the response, the server for the next request.
SendDone(e) ==
    /\ io[e].step = "done"
    /\ pc[e] = "sendPayload" \/ (pc[e] = "sendHeader" /\ Payload(sent[e]) = <<>>)
    /\ Receive(e, Header, "recvHeader")
    /\ UNCHANGED <<sent, got, calls, nextSequenceNumber, result, channels>>

\* The header in what was read.  Anything else than a header is taken for
\* one, with whatever the bytes say.
Headers(pieces) ==
    IF pieces = Pieces(pieces[1].m, "header", Header) THEN {pieces[1].m}
    ELSE {m \in Message : m.call = 0}

\* The exception leaves ClientPort::call, or ServerPort::wait and with it the
\* loop of the worker.
Throws(e) ==
    /\ GoTo(e, IF IsServer(e) THEN "over" ELSE "idle")
    /\ result' = IF IsServer(e) THEN result ELSE [result EXCEPT ![e[2]] = "thrown"]

Received(e) ==
    /\ GoTo(e, IF IsServer(e) THEN "dispatch" ELSE "check")
    /\ UNCHANGED result

\* Variant: the payload of an error is left alone.
ReceivePayloadOfSuccess(e, m) ==
    IF m.type = "other" THEN Throws(e)
    ELSE IF Payload(m) = <<>> \/ m.status = "failed" THEN Received(e)
    ELSE Receive(e, Len(Payload(m)), "recvPayload") /\ UNCHANGED result

\* The payload allocator of the server may reject the message, and a client
\* may have no memory for the data: then the payload is not read.
ReceivePayload(e, m) ==
    IF m.type = "other" THEN Throws(e)
    ELSE IF Payload(m) = <<>> THEN Received(e)
    ELSE \E fails \in MayFail(IF IsServer(e) THEN "reject" ELSE "memory", m.type = "data") :
            IF fails THEN Throws(e)
            ELSE Receive(e, Len(Payload(m)), "recvPayload") /\ UNCHANGED result

ReceivedHeader(e) ==
    /\ pc[e] = "recvHeader" /\ io[e].step = "done"
    /\ \E m \in Headers(io[e].in) :
         /\ got' = [got EXCEPT ![e] = m]
         /\ ReceivePayload(e, m)
    /\ UNCHANGED <<sent, calls, nextSequenceNumber, channels>>

\* Handles come with a magic number.
ReceivedPayload(e) ==
    /\ pc[e] = "recvPayload" /\ io[e].step = "done"
    /\ IF got[e].type = "handles" /\ io[e].in[1].part # "handles" THEN Throws(e)
       ELSE Received(e)
    /\ UNCHANGED <<sent, got, calls, nextSequenceNumber, channels>>

-----------------------------------------------------------------------------
(* ClientPort::call                                                        *)

Call(c, len) ==
    /\ pc[Client(c)] = "idle"
    /\ calls[c] < MaxCalls
    /\ calls' = [calls EXCEPT ![c] = @ + 1]
    /\ nextSequenceNumber' = [nextSequenceNumber EXCEPT ![c] = (@ + 1) % 2^SeqBits]
    /\ SendMessage(Client(c),
          [call |-> calls[c] + 1, seq |-> nextSequenceNumber[c],
           type |-> IF len = 0 THEN "embedded" ELSE "data", len |-> len,
           status |-> "request"])
    /\ result' = [result EXCEPT ![c] = "pending"]
    /\ UNCHANGED <<got, channels>>

CallFails(e) ==
    /\ ~IsServer(e) /\ io[e].step = "failed"
    /\ Throws(e)
    /\ UNCHANGED <<sent, got, calls, nextSequenceNumber, channels>>

CheckResponse(c) ==
    LET m == got[Client(c)] IN
    /\ pc[Client(c)] = "check"
    /\ result' = [result EXCEPT ![c] =
          IF m.seq # sent[Client(c)].seq THEN "thrown"
          ELSE IF m.status # "failed" THEN "returned"
          ELSE IF m.type = "data" THEN "peer" ELSE "thrown"]
    /\ GoTo(Client(c), "idle")
    /\ UNCHANGED <<sent, got, calls, nextSequenceNumber, channels>>

-----------------------------------------------------------------------------
(* ServerSessionWorker::_run                                               *)

Reply(c, type, len, status) ==
    SendMessage(Server(c),
        [got[Server(c)] EXCEPT !.type = type, !.len = len, !.status = status])

\* The handler answers the request: with a result, data or handles of its
\* own, or by throwing an exception, whose text is sent.  The worker
\* acknowledges the call that created the connection in the same way.
Handle(c, type, len, status) ==
    /\ pc[Server(c)] = "dispatch"
    /\ status = "failed" => type = "data"
    /\ type = "embedded" => len = 0
    /\ Reply(c, type, len, status)
    /\ UNCHANGED <<got, calls, nextSequenceNumber, result, channels>>

\* The handler is left by a std::exception that is none of the server's own:
\* "we better close the session".  There is no response.
HandlerFails(c) ==
    /\ "handler" \in Faults
    /\ pc[Server(c)] = "dispatch"
    /\ GoTo(Server(c), "over")
    /\ UNCHANGED <<sent, got, calls, nextSequenceNumber, result, channels>>

\* The response cannot be sent.  The worker tries to send the exception it
\* has caught instead, and gives up when that fails too.
ReplyFails(c) ==
    LET e == Server(c) IN
    /\ io[e].step = "failed"
    /\ pc[e] \in {"sendHeader", "sendPayload"}
    /\ IF sent[e].status = "failed" THEN GoTo(e, "over") /\ UNCHANGED sent
       ELSE Reply(c, "data", 1, "failed")
    /\ UNCHANGED <<got, calls, nextSequenceNumber, result, channels>>

WaitFails(c) ==
    LET e == Server(c) IN
    /\ io[e].step = "failed"
    /\ pc[e] \in {"recvHeader", "recvPayload"}
    /\ Throws(e)
    /\ UNCHANGED <<sent, got, calls, nextSequenceNumber, channels>>

\* The worker is finalized and its port closed.
ClosePort(c) ==
    /\ pc[Server(c)] = "over"
    /\ connected[Server(c)]
    /\ connected' = [connected EXCEPT ![Server(c)] = FALSE]
    /\ UNCHANGED <<ports, io, wire, sigpipe, fate>>

-----------------------------------------------------------------------------
\* A client process is killed, with all of its threads.
ClientDies(p) ==
    /\ "death" \in Faults
    /\ \E t \in Threads : connected[Client(<<p, t>>)]
    /\ ProcessEnds(ClientProcess(p))
    /\ UNCHANGED killed

\* A thread leaves the session, ClientSession::_detachFromContext: its port is
\* destroyed.
ClientLeaves(c) ==
    /\ pc[Client(c)] = "idle"
    /\ pc' = [pc EXCEPT ![Client(c)] = "dead"]
    /\ connected' = [connected EXCEPT ![Client(c)] = FALSE]
    /\ UNCHANGED <<io, sent, got, wire, sigpipe, calls, nextSequenceNumber, result, fate>>

PortStep(e) ==
    \/ Transfer(e)
    \/ SendPayload(e) \/ SendDone(e) \/ ReceivedHeader(e) \/ ReceivedPayload(e)

ClientStep(c) == PortStep(Client(c)) \/ CallFails(Client(c)) \/ CheckResponse(c)

ServerStep(c) ==
    \/ PortStep(Server(c))
    \/ \E type \in {"embedded", "data", "handles"}, len \in 0..MaxPayload,
          status \in {"success", "failed"} : Handle(c, type, len, status)
    \/ HandlerFails(c) \/ ReplyFails(c) \/ WaitFails(c) \/ ClosePort(c)

Next ==
    \/ \E c \in Conns :
         \/ \E len \in 0..MaxPayload : Call(c, len)
         \/ ClientStep(c) \/ ServerStep(c) \/ ClientLeaves(c)
    \/ \E p \in Clients : ClientDies(p)

Spec == Init /\ [][Next]_vars

\* The threads are scheduled and the handlers return, or fail.
FairSpec ==
    /\ Spec
    /\ \A c \in Conns : WF_vars(ClientStep(c)) /\ WF_vars(ServerStep(c))

-----------------------------------------------------------------------------
(* Properties                                                              *)

\* The two ends agree on where messages begin and to which call they belong:
\* a call that returns, or throws what the server threw, was given the
\* response to its own request, and the server executes the request of the
\* client's current call, although transfers are partial, handlers fail, a
\* payload may be rejected and sequence numbers wrap around.
InStep ==
    \A c \in Conns :
        /\ result[c] \in {"returned", "peer"} => got[Client(c)].call = calls[c]
        /\ pc[Server(c)] = "dispatch" =>
               got[Server(c)] = [sent[Client(c)] EXCEPT !.call = calls[c]]

\* "a failed transmission of the response. We drop the session."  A peer that
\* is gone costs the connection, and never ends a process by SIGPIPE.  Refuted
\* with two threads of a process.
OnlyConnectionLost == killed = {}

\* SIGPIPE ends a process, the server or a client, only if one of its threads
\* has ended a transfer and set the signal back (System::restoreSignal) while
\* another one was in the middle of its own: that is the only interleaving of
\* ignoreSignal, ::send and restoreSignal that exposes a process.
KilledByRace == killed \subseteq raced

\* Every call returns or throws, whatever the server answers and whenever the
\* worker gives up, unless the client process ends.
CallEnds ==
    \A c \in Conns :
        result[c] = "pending" ~> result[c] # "pending" \/ pc[Client(c)] = "dead"

=============================================================================
