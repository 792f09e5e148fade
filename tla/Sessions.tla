------------------------------ MODULE Sessions ------------------------------
(***************************************************************************)
(* The sessions of a client process and of the server: classes Session,    *)
(* ClientSession, ServerSession, their managers, ServerSessionWorker and   *)
(* the handlers of StorageServer.                                          *)
(*                                                                         *)
(* A client thread opens one connection per session it takes part in.  The *)
(* first connection creates the session of the server, later ones attach   *)
(* to it; on the server every connection has a worker thread, and the      *)
(* worker that leaves last closes the store and releases the session.      *)
(* SessionManager::close, called when the server goes down, works on raw   *)
(* pointers to the sessions it has found.                                  *)
(*                                                                         *)
(* Closing a store waits for the work on its streams, in the hand of a     *)
(* worker, and may fail; a worker that meets an unexpected exception drops *)
(* its connection although the client is there.                            *)
(*                                                                         *)
(* A call is one request and one reply on the connection of the thread.    *)
(* The first request of a connection is taken by a thread of the request   *)
(* pool, which hands the connection over to a worker.                      *)
(***************************************************************************)
EXTENDS Integers, FiniteSets

CONSTANTS
    Clients,        \* threads of the client process
    Connections,    \* each is used once
    MaxSessions,    \* bound on the sessions created
    ClientMayDie,   \* the client process may be killed
    MayShutDown     \* the server may go down

ASSUME SessionsAssumption ==
    /\ MaxSessions \in Nat
    /\ IsFiniteSet(Connections) /\ "closer" \notin Connections
    /\ ClientMayDie \in BOOLEAN /\ MayShutDown \in BOOLEAN

Ids == 1..MaxSessions

VARIABLES
    (* the client process *)
    cl,         \* its session objects
    call,       \* where a thread is, on which connection and session
    died,       \* it was killed
    (* the connections *)
    request, reply, connected,
    (* the server *)
    sess,       \* its session objects
    holder,     \* of Session::_lock
    wp,         \* where the request or the worker of a connection is
    wsess,      \* the session it works for
    state,      \* ThreadBase::_state of the worker
    canCreate,  \* _canCreateSession
    closer,     \* where SessionManager::close is
    lost,       \* connections whose threads met a session that was freed
    closing,    \* which workers are closing a store
    dropped,    \* workers that gave up although their peer is there, by a
                \* lost connection or by the end of the process
    unclosed    \* sessions whose store could not be closed

client == <<cl, call, died>>
wires == <<request, reply, connected>>
server == <<sess, holder, wp, wsess, state, canCreate, closer, lost>>
stores == <<closing, dropped, unclosed>>
vars == <<client, wires, server, stores>>

Phases == {"none", "open", "freed"}

Waiting == {"creating", "opening", "configuring", "storing", "unstoring",
            "emptying", "leaving"}

TypeOK ==
    /\ cl \in [Ids -> [phase : Phases, alive : BOOLEAN, threads : SUBSET Clients,
                       store : BOOLEAN]]
    /\ call \in [Clients -> [at : Waiting \cup {"out", "find", "in", "release", "broken", "dead"},
                             conn : SUBSET Connections, session : Ids \cup {0}]]
    /\ died \in BOOLEAN
    /\ request \in [Connections -> {"none", "create", "open", "configure", "store",
                                    "unstore", "close"}]
    /\ reply \in [Connections -> {"none", "ok", "failed"}]
    /\ connected \in [Connections -> {"unused", "yes", "no"}]
    /\ sess \in [Ids -> [phase : Phases, alive : BOOLEAN, refs : 0..Cardinality(Connections),
                         workers : SUBSET Connections, store : BOOLEAN]]
    /\ holder \in [Ids -> SUBSET (Connections \cup {"closer"})]
    /\ wp \in [Connections -> {"none", "request", "attach", "starting", "serve", "finish",
                               "detach", "last", "release", "done", "terminate"}]
    /\ wsess \in [Connections -> Ids \cup {0}]
    /\ state \in [Connections -> {"idle", "starting", "running", "stopping", "finished"}]
    /\ canCreate \in BOOLEAN
    /\ closer \in [at : {"off", "next", "lock", "workers", "stop", "wait", "done", "failed"},
                   todo : SUBSET Ids, session : Ids \cup {0},
                   left : SUBSET Connections, worker : SUBSET Connections]
    /\ lost \in SUBSET (Connections \cup {"closer"})
    /\ closing \in [Connections -> {"no", "yes", "missed"}]
    /\ dropped \in SUBSET Connections
    /\ unclosed \in SUBSET Ids

NoClient == [s \in Ids |-> [phase |-> "none", alive |-> FALSE, threads |-> {},
                           store |-> FALSE]]

Init ==
    /\ cl = NoClient
    /\ call = [c \in Clients |-> [at |-> "out", conn |-> {}, session |-> 0]]
    /\ died = FALSE
    /\ request = [k \in Connections |-> "none"]
    /\ reply = [k \in Connections |-> "none"]
    /\ connected = [k \in Connections |-> "unused"]
    /\ sess = [s \in Ids |-> [phase |-> "none", alive |-> FALSE, refs |-> 0,
                              workers |-> {}, store |-> FALSE]]
    /\ holder = [s \in Ids |-> {}]
    /\ wp = [k \in Connections |-> "none"]
    /\ wsess = [k \in Connections |-> 0]
    /\ state = [k \in Connections |-> "idle"]
    /\ canCreate = TRUE
    /\ closer = [at |-> "off", todo |-> {}, session |-> 0, left |-> {}, worker |-> {}]
    /\ lost = {}
    /\ closing = [k \in Connections |-> "no"]
    /\ dropped = {} /\ unclosed = {}

-----------------------------------------------------------------------------
(* The client                                                              *)

\* Locks follow from where the threads are.  createSession holds the lock of
\* the manager exclusively, openLocalSession holds it shared ...
ManagerFree == \A c \in Clients : call[c].at \notin {"creating", "find", "opening"}
ManagerShareable == \A c \in Clients : call[c].at # "creating"

\* Variant: attach and detach take no lock.
SessionFreeAlways(s) == TRUE

\* ... attach and detach hold the lock of the session ...
SessionFree(s) ==
    \A c \in Clients : call[c].session = s =>
        call[c].at \notin {"opening", "emptying", "leaving"}

\* ... and creating and closing a store that of the store.
StoreFree(s) ==
    \A c \in Clients : call[c].session = s =>
        call[c].at \notin {"configuring", "storing", "unstoring", "emptying"}

Move(c, at) == call' = [call EXCEPT ![c].at = at]

Send(k, r) ==
    /\ request' = [request EXCEPT ![k] = r]
    /\ reply' = [reply EXCEPT ![k] = "none"]

\* A call that goes on with another request on the same connection
Continue(c, at, r) ==
    /\ \E k \in call[c].conn : connected[k] = "yes" /\ Send(k, r)
    /\ Move(c, at)
    /\ UNCHANGED <<cl, died, connected, server>>

Unused == {k \in Connections : connected[k] = "unused"}

\* The server accepts connections: it does not go down and has not ended.
Accepts == closer.at = "off" /\ \A k \in Connections : wp[k] # "terminate"

\* A new connection is accepted and its first request taken by the pool.
Connect(c, at, s, r) ==
    LET k == CHOOSE k \in Unused : TRUE IN
    /\ Accepts
    /\ Unused # {}
    /\ connected' = [connected EXCEPT ![k] = "yes"]
    /\ Send(k, r)
    /\ wp' = [wp EXCEPT ![k] = "request"]
    /\ wsess' = [wsess EXCEPT ![k] = s]
    /\ call' = [call EXCEPT ![c] = [at |-> at, conn |-> {k}, session |-> s]]
    /\ UNCHANGED <<cl, died, sess, holder, state, canCreate, closer, lost>>

\* SessionManager::_createSession of the client
CreateSession(c) ==
    /\ call[c].at = "out"
    /\ ManagerFree
    /\ \E s \in Ids : cl[s].phase = "none"
    /\ Connect(c, "creating", 0, "create")

\* openLocalSession finds the session and waits for its lock ...
FindSession(c, s) ==
    /\ call[c].at = "out"
    /\ ManagerShareable
    /\ cl[s].phase = "open"
    /\ call' = [call EXCEPT ![c] = [at |-> "find", conn |-> {}, session |-> s]]

Find(c, s) == FindSession(c, s) /\ UNCHANGED <<cl, died, wires, server>>

\* ... to attach to it.
Attach(c) ==
    /\ call[c].at = "find"
    /\ SessionFree(call[c].session)
    /\ cl[call[c].session].alive
    /\ Connect(c, "opening", call[c].session, "open")

\* The session is not alive any more, or there is no connection.
AttachThrows(c) ==
    /\ call[c].at = "find"
    /\ SessionFree(call[c].session)
    /\ ~cl[call[c].session].alive \/ ~Accepts
    /\ call' = [call EXCEPT ![c] = [at |-> "out", conn |-> {}, session |-> 0]]
    /\ UNCHANGED <<cl, died, wires, server>>

\* createStore and openStore send the settings first.
OpenStore(c) ==
    /\ call[c].at = "in"
    /\ StoreFree(call[c].session)
    /\ ~cl[call[c].session].store
    /\ Continue(c, "configuring", "configure")

CloseStore(c) ==
    /\ call[c].at = "in"
    /\ StoreFree(call[c].session)
    /\ cl[call[c].session].store
    /\ Continue(c, "unstoring", "unstore")

\* The last thread of the session has to close the store before it leaves.
DetachStore(c) ==
    /\ cl[call[c].session].store
    /\ cl[call[c].session].threads = {c}

Detach(c) ==
    /\ call[c].at = "in"
    /\ SessionFree(call[c].session)
    /\ IF DetachStore(c)
       THEN StoreFree(call[c].session) /\ Continue(c, "emptying", "unstore")
       ELSE Continue(c, "leaving", "close")

Alone(s, c) == cl[s].threads \subseteq {c}

\* A reply to thread c
Answered(c, answer) == \E k \in call[c].conn : reply[k] = answer

Consume(c) == reply' = [k \in Connections |-> IF k \in call[c].conn THEN "none" ELSE reply[k]]

\* The connection of a thread that leaves is closed.
Hangup(c) == connected' =
    [k \in Connections |-> IF k \in call[c].conn THEN "no" ELSE connected[k]]

SetClient(s, field) == cl' = [cl EXCEPT ![s] = field]

Reply(c) ==
    LET s == call[c].session
        k == CHOOSE k \in call[c].conn : TRUE
    IN
    /\ call[c].at \in Waiting
    /\ Answered(c, "ok")
    /\ \/ /\ call[c].at = "creating"
          /\ SetClient(wsess[k], [phase |-> "open", alive |-> TRUE, threads |-> {c},
                                  store |-> FALSE])
          /\ call' = [call EXCEPT ![c].at = "in", ![c].session = wsess[k]]
          /\ Consume(c)
          /\ UNCHANGED <<request, connected>>
       \/ /\ call[c].at = "opening"
          /\ SetClient(s, [cl[s] EXCEPT !.threads = @ \cup {c}])
          /\ Move(c, "in")
          /\ Consume(c)
          /\ UNCHANGED <<request, connected>>
       \/ /\ call[c].at = "configuring"
          /\ Move(c, "storing")
          /\ Send(k, "store")
          /\ UNCHANGED <<cl, connected>>
       \/ /\ call[c].at = "storing"
          /\ SetClient(s, [cl[s] EXCEPT !.store = TRUE])
          /\ Move(c, "in")
          /\ Consume(c)
          /\ UNCHANGED <<request, connected>>
       \/ /\ call[c].at = "unstoring"
          /\ SetClient(s, [cl[s] EXCEPT !.store = FALSE])
          /\ Move(c, "in")
          /\ Consume(c)
          /\ UNCHANGED <<request, connected>>
       \/ /\ call[c].at = "emptying"
          /\ SetClient(s, [cl[s] EXCEPT !.store = FALSE])
          /\ Move(c, "leaving")
          /\ Send(k, "close")
          /\ UNCHANGED connected
       \/ /\ call[c].at = "leaving"
          /\ SetClient(s, [cl[s] EXCEPT !.threads = @ \ {c}, !.alive = ~Alone(s, c)])
          /\ IF Alone(s, c)
             THEN call' = [call EXCEPT ![c].at = "release", ![c].conn = {}]
             ELSE call' = [call EXCEPT ![c] = [at |-> "out", conn |-> {}, session |-> 0]]
          /\ Hangup(c)
          /\ Consume(c)
          /\ UNCHANGED request
    /\ UNCHANGED <<died, server>>

\* The reply is an error, or the connection is gone: the call throws.  A
\* thread that was not part of the session yet is out.  The destructor of
\* the store catches the exception, so the store is gone, and detach goes on
\* if it can; every other call leaves the session as it was.
CallThrows(c) ==
    LET s == call[c].session
        k == CHOOSE k \in call[c].conn : TRUE
        ending == call[c].at \in {"unstoring", "emptying"}
        going == call[c].at = "emptying" /\ connected[k] = "yes"
    IN
    /\ call[c].at \in Waiting
    /\ reply[k] = "failed" \/ (reply[k] = "none" /\ connected[k] = "no")
    /\ IF call[c].at \in {"creating", "opening"}
       THEN /\ call' = [call EXCEPT ![c] = [at |-> "out", conn |-> {}, session |-> 0]]
            /\ Hangup(c)
            /\ Consume(c)
            /\ UNCHANGED <<cl, request>>
       ELSE /\ SetClient(s, [cl[s] EXCEPT !.store = @ /\ ~ending])
            /\ IF going
               THEN Move(c, "leaving") /\ Send(k, "close")
               ELSE /\ Move(c, IF connected[k] = "yes" THEN "in" ELSE "broken")
                    /\ Consume(c)
                    /\ UNCHANGED request
            /\ UNCHANGED connected
    /\ UNCHANGED <<died, server>>

\* The destructor of the store catches what the close of a store throws on a
\* connection that is gone: the store of the session is gone, and its store
\* on the server, which the other threads still reach, is open.
LoseStore(c) ==
    LET s == call[c].session IN
    /\ call[c].at \in {"in", "broken"}
    /\ StoreFree(s)
    /\ cl[s].store
    /\ \A k \in call[c].conn : connected[k] = "no"
    /\ SetClient(s, [cl[s] EXCEPT !.store = FALSE])
    /\ Move(c, "broken")
    /\ UNCHANGED <<died, wires, server>>

\* _releaseSession of the client
Release(c) ==
    /\ call[c].at = "release"
    /\ ManagerFree
    /\ SetClient(call[c].session, [cl[call[c].session] EXCEPT !.phase = "freed"])
    /\ call' = [call EXCEPT ![c] = [at |-> "out", conn |-> {}, session |-> 0]]
    /\ UNCHANGED <<died, wires, server>>

\* The process is killed: what it had in memory is gone, and its connections
\* are closed.
Kill ==
    /\ ClientMayDie /\ ~died
    /\ died' = TRUE
    /\ call' = [c \in Clients |-> [at |-> "dead", conn |-> {}, session |-> 0]]
    /\ connected' = [k \in Connections |-> IF connected[k] = "yes" THEN "no" ELSE connected[k]]
    /\ cl' = NoClient
    /\ reply' = [k \in Connections |-> "none"]
    /\ UNCHANGED <<request, server>>

-----------------------------------------------------------------------------
(* The server                                                              *)

\* What the threads of the server do once one of them has used a session
\* that was freed, has thrown out of its finalization, or once the managers
\* are gone, is not modelled.
Up ==
    /\ lost = {}
    /\ closer.at \notin {"done", "failed"}
    /\ \A k \in Connections : wp[k] # "terminate"

isRunning(k) == state[k] \in {"starting", "running", "stopping"}
shouldStop(k) == state[k] = "stopping"

GoTo(k, at) == wp' = [wp EXCEPT ![k] = at]

\* ServerPort::ret.  A reply to a peer that is gone throws.
Ret(k, status) ==
    IF connected[k] = "yes"
    THEN reply' = [reply EXCEPT ![k] = status]
    ELSE UNCHANGED reply

Take(k) == request' = [request EXCEPT ![k] = "none"]

\* The port of a request that failed goes with the request.
DropRequest(k) ==
    /\ Take(k)
    /\ Ret(k, "failed")
    /\ GoTo(k, "done")
    /\ connected' = [connected EXCEPT ![k] = "no"]
    /\ UNCHANGED <<sess, holder, wsess, state, canCreate, closer, lost>>

\* A worker for connection k of session s, whose thread is started
AddWorker(k, s, session) ==
    /\ sess' = [sess EXCEPT ![s] = [session EXCEPT !.workers = @ \cup {k}]]
    /\ wsess' = [wsess EXCEPT ![k] = s]
    /\ state' = [state EXCEPT ![k] = "starting"]
    /\ GoTo(k, "starting")

\* _handleSessionCreate, under the lock of the manager
HandleSessionCreate(k) ==
    /\ Up /\ wp[k] = "request" /\ request[k] = "create"
    /\ IF canCreate
       THEN /\ Take(k)
            /\ \E s \in Ids :
                 /\ sess[s].phase = "none"
                 /\ \A t \in Ids : sess[t].phase = "none" => s <= t
                 /\ AddWorker(k, s, [phase |-> "open", alive |-> TRUE, refs |-> 1,
                                     workers |-> {}, store |-> FALSE])
            /\ UNCHANGED <<reply, connected, holder, canCreate, closer, lost>>
       ELSE DropRequest(k)
    /\ UNCHANGED client

\* _handleSessionOpen looks the session up without the lock of the manager
\* and keeps a pointer to it ...
HandleSessionOpen(k) ==
    /\ Up /\ wp[k] = "request" /\ request[k] = "open"
    /\ IF sess[wsess[k]].phase = "open"
       THEN /\ GoTo(k, "attach")
            /\ UNCHANGED <<wires, sess, holder, wsess, state, canCreate, closer, lost>>
       ELSE DropRequest(k)
    /\ UNCHANGED client

\* A thread meets a session that was freed.
Meets(x) ==
    /\ lost' = lost \cup {x}
    /\ UNCHANGED <<client, wires, sess, holder, wp, wsess, state, canCreate, closer>>

CountThread(session) == [session EXCEPT !.refs = @ + 1]

\* ... to attach to it under the lock of the session.
AttachSession(k) ==
    LET s == wsess[k] IN
    /\ Up /\ wp[k] = "attach"
    /\ \/ sess[s].phase = "freed" /\ Meets(k)
       \/ /\ sess[s].phase = "open" /\ holder[s] = {}
          /\ IF sess[s].alive
             THEN /\ Take(k)
                  /\ AddWorker(k, s, CountThread(sess[s]))
                  /\ UNCHANGED <<reply, connected, holder, canCreate, closer, lost>>
             ELSE DropRequest(k)
          /\ UNCHANGED client

\* The thread of the worker starts and acknowledges the connection.  A stop
\* request it has got before is overwritten.
WorkerStart(k) ==
    /\ Up /\ wp[k] = "starting"
    /\ state' = [state EXCEPT ![k] = "running"]
    /\ Ret(k, "ok")
    /\ GoTo(k, IF connected[k] = "yes" THEN "serve" ELSE "finish")
    /\ UNCHANGED <<client, request, connected, sess, holder, wsess, canCreate, closer, lost>>

\* The worker handled a request, or the handler threw.
Served(k, status) ==
    /\ Take(k)
    /\ Ret(k, status)
    /\ GoTo(k, IF connected[k] = "yes" THEN "serve" ELSE "finish")
    /\ UNCHANGED <<client, connected, holder, wsess, canCreate, closer, lost>>

\* The loop of the worker takes a request only when no stop was requested.
Serving(k, r) == Up /\ wp[k] = "serve" /\ ~shouldStop(k) /\ request[k] = r

\* Variant: the handler returns false and has not answered itself.
HandleSetConfigurationMute(k) ==
    /\ Serving(k, "configure")
    /\ holder[wsess[k]] = {}
    /\ Take(k)
    /\ UNCHANGED <<client, reply, wp, connected, holder, wsess, canCreate, closer, lost>>
    /\ UNCHANGED <<sess, state>>

\* applySetting waits for the lock of the session.
HandleSetConfiguration(k) ==
    /\ Serving(k, "configure")
    /\ holder[wsess[k]] = {}
    /\ Served(k, IF sess[wsess[k]].alive THEN "ok" ELSE "failed")
    /\ UNCHANGED <<sess, state>>

\* A worker that closes a store holds the lock of the store manager and the
\* store lock of its session until the store is closed.
ManagerLocked == \E k \in Connections : closing[k] # "no"
StoreLocked(s) == \E k \in Connections : wsess[k] = s /\ closing[k] # "no"

\* createStore and openStore throw when the session has a store, and when the
\* store cannot be created or opened.
HandleStoreCreate(k) ==
    LET s == wsess[k]
        refused == sess[s].store \/ ~sess[s].alive
    IN
    /\ Serving(k, "store")
    /\ ~StoreLocked(s)
    /\ refused \/ ~ManagerLocked
    /\ \E made \in BOOLEAN :
         /\ refused => ~made
         /\ sess' = [sess EXCEPT ![s].store = @ \/ made]
         /\ Served(k, IF made THEN "ok" ELSE "failed")
    /\ UNCHANGED state

\* The close takes the locks and waits for the work on the streams ...
BeginClose(k) ==
    /\ ~ManagerLocked
    /\ closing' = [closing EXCEPT ![k] = "yes"]
    /\ UNCHANGED <<client, wires, server, dropped, unclosed>>

\* ... where it may miss its wake-up (WaitContext).
MissWakeup(k) ==
    /\ Up /\ closing[k] = "yes"
    /\ closing' = [closing EXCEPT ![k] = "missed"]
    /\ UNCHANGED <<client, wires, server, dropped, unclosed>>

EndClose(k) == closing' = [closing EXCEPT ![k] = "no"]

\* closeStore does nothing when there is no store.
HandleStoreClose(k) ==
    /\ Serving(k, "unstore")
    /\ ~StoreLocked(wsess[k])
    /\ \/ sess[wsess[k]].store /\ BeginClose(k)
       \/ /\ ~sess[wsess[k]].store
          /\ Served(k, "ok")
          /\ UNCHANGED <<sess, state, stores>>

\* Variant: the store is left to the end of the session.
CloseStoreLater(k) ==
    /\ Up /\ wp[k] = "serve" /\ request[k] = "unstore" /\ closing[k] = "yes"
    /\ Served(k, "ok")
    /\ EndClose(k)
    /\ UNCHANGED <<sess, state, dropped, unclosed>>

\* The store is closed, or its close throws and the session keeps it.
CloseStoreDone(k) ==
    /\ Up /\ wp[k] = "serve" /\ request[k] = "unstore" /\ closing[k] = "yes"
    /\ \E closed \in BOOLEAN :
         /\ sess' = [sess EXCEPT ![wsess[k]].store = ~closed]
         /\ unclosed' = IF closed THEN unclosed ELSE unclosed \cup {wsess[k]}
         /\ Served(k, IF closed THEN "ok" ELSE "failed")
    /\ EndClose(k)
    /\ UNCHANGED <<state, dropped>>

HandleSessionClose(k) ==
    /\ Serving(k, "close")
    /\ state' = [state EXCEPT ![k] = "stopping"]
    /\ Served(k, "ok")
    /\ UNCHANGED sess

\* The worker leaves its loop: a stop was requested or the peer is gone.
LeaveLoop(k) ==
    /\ Up /\ wp[k] = "serve" /\ closing[k] = "no"
    /\ shouldStop(k) \/ connected[k] = "no"
    /\ GoTo(k, "finish")
    /\ UNCHANGED <<client, wires, sess, holder, wsess, state, canCreate, closer, lost>>

\* The worker gives its connection up although the peer is there: an exception
\* other than one of Simutrace leaves the wait for the request or its handler,
\* or the reply cannot be sent.
Drop(k) ==
    /\ Up /\ wp[k] = "serve" /\ request[k] # "none"
    /\ closing[k] # "missed"
    /\ GoTo(k, "finish")
    /\ dropped' = dropped \cup {k}
    /\ EndClose(k)
    /\ UNCHANGED <<client, wires, sess, holder, wsess, state, canCreate, closer, lost, unclosed>>

Finish(k) ==
    /\ Up /\ wp[k] = "finish"
    /\ state' = [state EXCEPT ![k] = "finished"]
    /\ GoTo(k, "detach")
    /\ UNCHANGED <<client, wires, sess, holder, wsess, canCreate, closer, lost>>

\* An exception leaves a finalization: the process ends.
Terminate(k) ==
    /\ GoTo(k, "terminate")
    /\ connected' = [j \in Connections |-> IF connected[j] = "yes" THEN "no" ELSE connected[j]]
    /\ UNCHANGED <<client, request, reply, sess, holder, wsess, state, canCreate, closer, lost>>

\* The worker is destroyed, and its port with it.
Gone(k) ==
    /\ state' = [state EXCEPT ![k] = "idle"]
    /\ request' = [request EXCEPT ![k] = "none"]
    /\ connected' = [connected EXCEPT ![k] = "no"]

\* Variant: the thread has given up its reference before it looks.
LastThreadLate(s) == sess[s].refs = 0

LastThread(s) == sess[s].refs = 1

\* Session::detach of a worker.  A thread that is not the last one leaves ...
DetachWorker(k) ==
    LET s == wsess[k] IN
    /\ Up /\ wp[k] = "detach"
    /\ holder[s] = {}
    /\ IF LastThread(s)
       THEN /\ GoTo(k, "last")
            /\ holder' = [holder EXCEPT ![s] = {k}]
            /\ UNCHANGED <<client, wires, sess, wsess, state, canCreate, closer, lost>>
       ELSE IF isRunning(k) THEN Terminate(k)
       ELSE /\ sess' = [sess EXCEPT ![s].workers = @ \ {k}, ![s].refs = @ - 1]
            /\ GoTo(k, "done")
            /\ Gone(k)
            /\ UNCHANGED <<client, reply, holder, wsess, canCreate, closer, lost>>

\* ... the last one closes the store ...
DetachStoreOfLast(k) ==
    /\ Up /\ wp[k] = "last"
    /\ sess[wsess[k]].store
    /\ BeginClose(k)

\* ... which may throw ...
DetachStoreThrows(k) ==
    /\ Up /\ wp[k] = "last" /\ closing[k] = "yes"
    /\ Terminate(k)
    /\ dropped' = dropped \cup {k}
    /\ EndClose(k)
    /\ UNCHANGED unclosed

\* ... and the session ...
DetachLast(k) ==
    LET s == wsess[k] IN
    /\ Up /\ wp[k] = "last"
    /\ closing[k] # "missed" /\ (sess[s].store => closing[k] = "yes")
    /\ EndClose(k) /\ UNCHANGED <<dropped, unclosed>>
    /\ IF isRunning(k) THEN Terminate(k)
       ELSE /\ sess' = [sess EXCEPT ![s].workers = @ \ {k}, ![s].refs = 0,
                                     ![s].alive = FALSE, ![s].store = FALSE]
            /\ holder' = [holder EXCEPT ![s] = {}]
            /\ GoTo(k, "release")
            /\ Gone(k)
            /\ UNCHANGED <<client, reply, wsess, canCreate, closer, lost>>

\* ... and has the manager free it.
ReleaseSession(k) ==
    /\ Up /\ wp[k] = "release"
    /\ \/ sess[wsess[k]].phase = "freed" /\ Meets(k)
       \/ /\ sess[wsess[k]].phase = "open"
          /\ sess' = [sess EXCEPT ![wsess[k]].phase = "freed"]
          /\ GoTo(k, "done")
          /\ UNCHANGED <<client, wires, holder, wsess, state, canCreate, closer, lost>>

-----------------------------------------------------------------------------
(* SessionManager::close, called by StorageServer::_finalizeServer         *)

\* Only closer changes.
ClosersOwn == <<client, wires, sess, wp, wsess, state, lost>>

\* The bindings and the request pool are closed: no request is under way.
CloseManager ==
    /\ MayShutDown /\ Up /\ closer.at = "off"
    /\ \A k \in Connections : wp[k] \notin {"request", "attach"}
    /\ canCreate' = FALSE
    /\ closer' = [closer EXCEPT !.at = "next",
                                !.todo = {s \in Ids : sess[s].phase = "open"}]
    /\ UNCHANGED <<ClosersOwn, holder>>

\* The closer throws, which ends the process.  The lock is released.
CloserThrows ==
    /\ closer' = [closer EXCEPT !.at = "failed"]
    /\ holder' = [s \in Ids |-> holder[s] \ {"closer"}]
    /\ connected' = [j \in Connections |-> IF connected[j] = "yes" THEN "no" ELSE connected[j]]
    /\ UNCHANGED <<client, request, reply, sess, wp, wsess, state, canCreate, lost>>

\* Session::close looks at _isAlive before it takes the lock.
CloseSession(s) ==
    /\ Up /\ closer.at = "next" /\ s \in closer.todo
    /\ \/ sess[s].phase = "freed" /\ Meets("closer")
       \/ sess[s].phase = "open" /\ ~sess[s].alive /\ CloserThrows
       \/ /\ sess[s].phase = "open" /\ sess[s].alive
          /\ closer' = [closer EXCEPT !.at = "lock", !.session = s, !.todo = @ \ {s}]
          /\ UNCHANGED <<ClosersOwn, holder, canCreate>>

CloserLocks ==
    LET s == closer.session IN
    /\ Up /\ closer.at = "lock"
    /\ \/ sess[s].phase = "freed" /\ Meets("closer")
       \/ /\ sess[s].phase = "open" /\ holder[s] = {}
          /\ holder' = [holder EXCEPT ![s] = {"closer"}]
          /\ closer' = [closer EXCEPT !.at = "workers", !.left = sess[s].workers]
          /\ UNCHANGED <<ClosersOwn, canCreate>>

\* ThreadBase::stop looks at the state of the worker ...
CloserStops(k) ==
    /\ Up /\ closer.at = "workers" /\ k \in closer.left
    /\ IF isRunning(k)
       THEN /\ closer' = [closer EXCEPT !.at = "stop", !.left = @ \ {k}, !.worker = {k}]
            /\ UNCHANGED <<ClosersOwn, holder, canCreate>>
       ELSE CloserThrows

\* ... and then writes it, whatever it is by now.  The port is closed too.
CloserSetsState(k) ==
    /\ Up /\ closer.at = "stop" /\ k \in closer.worker
    /\ state' = [state EXCEPT ![k] = "stopping"]
    /\ connected' = [connected EXCEPT ![k] = "no"]
    /\ closer' = [closer EXCEPT !.at = "wait"]
    /\ UNCHANGED <<client, request, reply, sess, holder, wp, wsess, canCreate, lost>>

\* Variant: the closer waits without a timeout.
CloserWaitsForever(k) ==
    /\ Up /\ closer.at = "wait" /\ k \in closer.worker
    /\ state[k] = "finished"
    /\ closer' = [closer EXCEPT !.at = "workers", !.worker = {}]
    /\ UNCHANGED <<ClosersOwn, holder, canCreate>>

\* Variant: the closer goes on with the next worker after the timeout.
CloserWaitsShort(k) ==
    /\ Up /\ closer.at = "wait" /\ k \in closer.worker
    /\ closer' = [closer EXCEPT !.at = "workers", !.worker = {}]
    /\ UNCHANGED <<ClosersOwn, holder, canCreate>>

\* The closer polls the state of the worker until server.session.closeTimeout.
CloserWaits(k) ==
    /\ Up /\ closer.at = "wait" /\ k \in closer.worker
    /\ \/ /\ state[k] = "finished"
          /\ closer' = [closer EXCEPT !.at = "workers", !.worker = {}]
          /\ UNCHANGED <<ClosersOwn, holder, canCreate>>
       \/ state[k] # "finished" /\ CloserThrows

\* All workers are told.  The session is left to the last of them; only when
\* there is none does the closer close the session and free it.
CloserLeaves ==
    LET s == closer.session IN
    /\ Up /\ closer.at = "workers" /\ closer.left = {}
    /\ \/ sess[s].phase = "freed" /\ Meets("closer")
       \/ /\ sess[s].phase = "open"
          /\ sess' = IF sess[s].refs > 0 THEN sess
                     ELSE [sess EXCEPT ![s].store = FALSE, ![s].alive = FALSE,
                                       ![s].phase = "freed"]
          /\ holder' = [holder EXCEPT ![s] = {}]
          /\ closer' = [closer EXCEPT !.at = "next"]
          /\ UNCHANGED <<client, wires, wp, wsess, state, canCreate, lost>>

\* The rest of _finalizeServer: the managers and the pools are freed and the
\* process ends.
FinalizeServer ==
    /\ Up /\ closer.at = "next" /\ closer.todo = {}
    /\ closer' = [closer EXCEPT !.at = "done"]
    /\ connected' = [j \in Connections |-> IF connected[j] = "yes" THEN "no" ELSE connected[j]]
    /\ UNCHANGED <<client, request, reply, sess, holder, wp, wsess, state, canCreate, lost>>

-----------------------------------------------------------------------------

ClientStep(c) == (Reply(c) \/ CallThrows(c) \/ Release(c)) /\ UNCHANGED stores

\* What the application asks for
ClientCall(c) ==
    /\ \/ CreateSession(c) \/ Attach(c) \/ AttachThrows(c)
       \/ \E s \in Ids : Find(c, s)
       \/ OpenStore(c) \/ CloseStore(c) \/ Detach(c) \/ LoseStore(c)
    /\ UNCHANGED stores

\* A step of the worker that is not about the close of a store
PlainStep(k) ==
    \/ HandleSessionCreate(k) \/ HandleSessionOpen(k) \/ AttachSession(k)
    \/ WorkerStart(k) \/ HandleSetConfiguration(k) \/ HandleStoreCreate(k)
    \/ HandleSessionClose(k) \/ LeaveLoop(k) \/ Finish(k)
    \/ DetachWorker(k) \/ ReleaseSession(k)

CloseStep(k) ==
    \/ HandleStoreClose(k) \/ CloseStoreDone(k) \/ MissWakeup(k) \/ Drop(k)
    \/ DetachStoreOfLast(k) \/ DetachStoreThrows(k) \/ DetachLast(k)

WorkerStep(k) == (PlainStep(k) /\ UNCHANGED stores) \/ CloseStep(k)

CloserStep ==
    /\ \/ \E s \in Ids : CloseSession(s)
       \/ CloserLocks
       \/ \E k \in Connections : CloserStops(k) \/ CloserSetsState(k) \/ CloserWaits(k)
       \/ CloserLeaves
       \/ FinalizeServer
    /\ UNCHANGED stores

Next ==
    \/ \E c \in Clients : ClientCall(c) \/ ClientStep(c)
    \/ \E k \in Connections : WorkerStep(k)
    \/ (Kill \/ CloseManager) /\ UNCHANGED stores
    \/ CloserStep

Spec == Init /\ [][Next]_vars

\* The threads of both processes are scheduled; what the application asks
\* for, the death of the client and the end of the server are not fair.
Fairness ==
    /\ \A c \in Clients : WF_vars(ClientStep(c))
    /\ \A k \in Connections : WF_vars(WorkerStep(k))
    /\ WF_vars(CloserStep)

FairSpec == Spec /\ Fairness

-----------------------------------------------------------------------------
(* Properties                                                              *)

\* A session counts the workers it has whenever its lock is free, it is alive
\* as long as there is one, and it is freed only after the last worker has
\* left and its store is closed (Session::attach, Session::detach).
RefsAreWorkers ==
    \A s \in Ids :
        /\ sess[s].phase = "open" /\ holder[s] = {} =>
               /\ sess[s].refs = Cardinality(sess[s].workers)
               /\ sess[s].alive <=> sess[s].refs > 0
        /\ sess[s].phase = "freed" => sess[s].workers = {} /\ ~sess[s].store

\* A thread of the client that is part of a session finds the session of the
\* server open and its own worker in it as long as its connection stands, and
\* both sides agree on whether a store is open, whatever the other threads
\* attach, detach, open and close meanwhile.  The server alone has a store
\* after it failed to close it, and when the server dropped a connection or
\* goes down nobody knows.
AttachedSessionLives ==
    \A c \in Clients : \A k \in call[c].conn :
        connected[k] = "yes"
        /\ call[c].at \in {"in", "configuring", "storing", "unstoring", "emptying"} =>
               /\ sess[call[c].session].phase = "open" /\ sess[call[c].session].alive
               /\ k \in sess[call[c].session].workers
               /\ closer.at = "off" /\ dropped = {} /\ StoreFree(call[c].session) =>
                      /\ cl[call[c].session].store => sess[call[c].session].store
                      /\ sess[call[c].session].store =>
                             cl[call[c].session].store \/ call[c].session \in unclosed

\* No thread of the server uses a session that was freed, although requests
\* look sessions up without a lock, unless the client is killed, the server
\* goes down or it dropped a connection of a client that lives: the client
\* asks to open a session only while it is part of it.
NoUseAfterFree == lost # {} => died \/ closer.at # "off" \/ dropped # {}

\* The check of Session::_detach that a worker has finished never throws out
\* of the finalization of its thread, although ThreadBase::stop may overwrite
\* the state of a thread that has just finished.
DetachAccepted ==
    \A k \in Connections :
        Up /\ ((wp[k] = "detach" /\ holder[wsess[k]] = {}) \/ wp[k] = "last") => ~isRunning(k)

\* A worker missed its wake-up in the close of a store, with the locks it holds.
Asleep == \E k \in Connections : closing[k] = "missed"

\* Every call of the client returns or throws, also when the server goes down
\* or drops a connection while it is handled, unless a thread of the server
\* meets a freed session or sleeps on in the close of a store.
CallReturns ==
    \A c \in Clients :
        call[c].at \in Waiting ~> call[c].at \notin Waiting \/ lost # {} \/ Asleep

\* A session of the server whose client is gone is closed and freed, unless
\* the server goes down first, a thread meets a freed session or one sleeps on
\* in the close of a store.
SessionEnds ==
    \A s \in Ids :
        sess[s].phase = "open" /\ (died \/ cl[s].phase = "freed")
            ~> sess[s].phase = "freed" \/ ~Up \/ Asleep

\* "All stores should be closed by now, because all sessions are closed."
\* (StorageServer::_finalizeServer)
FinalizedClean == closer.at = "done" => \A s \in Ids : sess[s].phase # "open"

\* No thread meets a session that was freed.
NobodyLost == lost = {}

\* "The server should never cross this check": Session::close never finds the
\* count of a session at zero.
NeverCrossed ==
    closer.at = "workers" /\ closer.left = {} => sess[closer.session].refs > 0

=============================================================================
