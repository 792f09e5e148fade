--------------------------- MODULE SessionsProofs ---------------------------
(***************************************************************************)
(* The theorems about module Sessions and their proofs.                    *)
(*                                                                         *)
(* The inductive invariant has three layers.  ServerInv says what holds on *)
(* the server whatever the client does: sessions count their workers,      *)
(* locks exclude each other, only a thread that has finished detaches.     *)
(* ClientInv adds the threads of the client and ties each to its           *)
(* connection and to the worker at its other end.  QInv adds what holds    *)
(* only until the client is killed, the server goes down or a worker drops *)
(* a connection: every connection stands until its thread has left, both   *)
(* sides agree on the store unless the server could not close it, and no   *)
(* freed session is used.  Each layer is kept with the help of the ones    *)
(* below it.                                                               *)
(***************************************************************************)
EXTENDS Sessions, FiniteSetTheorems, TLAPS

-----------------------------------------------------------------------------
(* Types.                                                                  *)

ClientType == [phase : Phases, alive : BOOLEAN, threads : SUBSET Clients, store : BOOLEAN]

Places == Waiting \cup {"out", "find", "in", "release", "broken", "dead"}

CallType == [at : Places, conn : SUBSET Connections, session : Ids \cup {0}]

Requests == {"none", "create", "open", "configure", "store", "unstore", "close"}

Answers == {"none", "ok", "failed"}

\* A session of the server.  How far it may count follows from what it counts.
SessionType == [phase : Phases, alive : BOOLEAN, refs : Int,
                workers : SUBSET Connections, store : BOOLEAN]

Progress == {"none", "request", "attach", "starting", "serve", "finish",
             "detach", "last", "release", "done", "terminate"}

States == {"idle", "starting", "running", "stopping", "finished"}

CloserType == [at : {"off", "next", "lock", "workers", "stop", "wait", "done", "failed"},
               todo : SUBSET Ids, session : Ids \cup {0},
               left : SUBSET Connections, worker : SUBSET Connections]

\* The closer works on a session.
Closing(b) == b.at \in {"lock", "workers", "stop", "wait"} => b.session \in Ids

ClientTypes ==
    /\ cl \in [Ids -> ClientType]
    /\ call \in [Clients -> CallType]
    /\ died \in BOOLEAN

WireTypes ==
    /\ request \in [Connections -> Requests]
    /\ reply \in [Connections -> Answers]
    /\ connected \in [Connections -> {"unused", "yes", "no"}]

ServerTypes ==
    /\ sess \in [Ids -> SessionType]
    /\ holder \in [Ids -> SUBSET (Connections \cup {"closer"})]
    /\ wp \in [Connections -> Progress]
    /\ wsess \in [Connections -> Ids \cup {0}]
    /\ state \in [Connections -> States]
    /\ canCreate \in BOOLEAN
    /\ closer \in CloserType /\ Closing(closer)
    /\ lost \in SUBSET (Connections \cup {"closer"})

StoreTypes ==
    /\ closing \in [Connections -> {"no", "yes", "missed"}]
    /\ dropped \in SUBSET Connections
    /\ unclosed \in SUBSET Ids

Types == ClientTypes /\ WireTypes /\ ServerTypes

\* A worker closes nothing when there is no store.
NothingToClose(k) ==
    /\ Serving(k, "unstore")
    /\ Served(k, "ok")
    /\ ~sess[wsess[k]].store
    /\ UNCHANGED <<sess, state, stores>>

\* A step of a worker that does more than begin to close a store or sleep in it
WorkerAct(k) ==
    \/ PlainStep(k) /\ UNCHANGED stores
    \/ NothingToClose(k) \/ CloseStoreDone(k) \/ Drop(k)
    \/ DetachStoreThrows(k) \/ DetachLast(k)

\* A worker that begins to close a store, or misses its wake-up in it, changes
\* nothing but that.
LEMMA WorkerActs ==
    ASSUME NEW k \in Connections, WorkerStep(k)
    PROVE  WorkerAct(k) \/ UNCHANGED <<client, wires, server, dropped, unclosed>>
  BY DEF WorkerStep, CloseStep, WorkerAct, HandleStoreClose, NothingToClose, BeginClose,
         MissWakeup, DetachStoreOfLast

\* A step that changes one session, for a session that changes as it should
LEMMA OneChanged ==
    ASSUME NEW T, NEW f \in [Ids -> T], NEW g, NEW s, NEW v, g = f \/ g = [f EXCEPT ![s] = v],
           s \in Ids => v \in T
    PROVE  g \in [Ids -> T]
  OBVIOUS

\* The application calls.
LEMMA CallTypes ==
    ASSUME Types, NEW c \in Clients, ClientCall(c)
    PROVE  Types'
<1> USE DEF Types, CallType, Places, Waiting, Requests, Answers, Progress, client, wires, server
<1>1. ASSUME NEW at \in Waiting, NEW s \in Ids \cup {0}, NEW r \in Requests, Connect(c, at, s, r)
      PROVE  Types'
  <2>1. PICK k : k = CHOOSE j \in Unused : TRUE
    OBVIOUS
  <2>2. k \in Connections
    BY <1>1, <2>1 DEF Connect, Unused
  <2>3. WireTypes'
    BY <1>1, <2>1, <2>2 DEF Connect, Send, WireTypes
  <2>4. ClientTypes'
    BY <1>1, <2>1, <2>2 DEF Connect, ClientTypes
  <2>5. ServerTypes'
    BY <1>1, <2>1, <2>2 DEF Connect, ServerTypes
  <2> QED
    BY <2>3, <2>4, <2>5
<1>2. ASSUME NEW at \in Waiting, NEW r \in Requests, Continue(c, at, r)
      PROVE  Types'
  <2>1. WireTypes'
    BY <1>2 DEF Continue, Send, WireTypes
  <2>2. ClientTypes'
    BY <1>2 DEF Continue, Move, ClientTypes
  <2>3. ServerTypes'
    BY <1>2 DEF Continue, ServerTypes
  <2> QED
    BY <2>1, <2>2, <2>3
<1>3. CASE CreateSession(c)
  BY <1>1, <1>3 DEF CreateSession
<1>4. CASE Attach(c)
  <2>1. call[c].session \in Ids \cup {0}
    BY DEF ClientTypes
  <2> QED
    BY <1>1, <1>4, <2>1 DEF Attach
<1>5. CASE AttachThrows(c)
  BY <1>5 DEF AttachThrows, ClientTypes, WireTypes, ServerTypes
<1>6. ASSUME NEW s \in Ids, Find(c, s)
      PROVE  Types'
  BY <1>6 DEF Find, FindSession, ClientTypes, WireTypes, ServerTypes
<1>7. CASE OpenStore(c) \/ CloseStore(c) \/ Detach(c)
  BY <1>2, <1>7 DEF OpenStore, CloseStore, Detach
<1>8. CASE LoseStore(c)
  <2>1. PICK s : s = call[c].session
    OBVIOUS
  <2>2. cl' = [cl EXCEPT ![s] = [cl[s] EXCEPT !.store = FALSE]] /\ Move(c, "broken")
        /\ UNCHANGED <<died, wires, server>>
    BY <1>8, <2>1 DEF LoseStore, SetClient
  <2>3. s \in Ids => [cl[s] EXCEPT !.store = FALSE] \in ClientType
    BY DEF ClientTypes, ClientType
  <2>4. cl' \in [Ids -> ClientType]
    BY <2>2, <2>3, OneChanged DEF ClientTypes
  <2>5. ClientTypes'
    BY <2>2, <2>4 DEF ClientTypes, Move
  <2> QED
    BY <2>2, <2>5 DEF WireTypes, ServerTypes
<1> QED
  BY <1>3, <1>4, <1>5, <1>6, <1>7, <1>8 DEF ClientCall

\* The sessions of the client, and what the calls make of them
NewClient(c) == [phase |-> "open", alive |-> TRUE, threads |-> {c}, store |-> FALSE]
Entered(r, c) == [r EXCEPT !.threads = @ \cup {c}]
Opened(r) == [r EXCEPT !.store = TRUE]
Closed(r) == [r EXCEPT !.store = FALSE]
Left(r, c) == [r EXCEPT !.threads = @ \ {c}, !.alive = ~(r.threads \subseteq {c})]
Released(r) == [r EXCEPT !.phase = "freed"]

\* What the calls make of a session object of the client, field by field
LEMMA ClientFields ==
    ASSUME NEW r \in ClientType, NEW c \in Clients
    PROVE  /\ NewClient(c) \in ClientType /\ NewClient(c).phase = "open" /\ NewClient(c).alive
           /\ NewClient(c).threads = {c} /\ ~NewClient(c).store
           /\ Entered(r, c) \in ClientType /\ Entered(r, c).threads = r.threads \cup {c}
           /\ Entered(r, c).phase = r.phase /\ Entered(r, c).store = r.store
           /\ Entered(r, c).alive = r.alive
           /\ Opened(r) \in ClientType /\ Opened(r).threads = r.threads /\ Opened(r).store
           /\ Opened(r).phase = r.phase /\ Opened(r).alive = r.alive
           /\ Closed(r) \in ClientType /\ Closed(r).threads = r.threads /\ ~Closed(r).store
           /\ Closed(r).phase = r.phase /\ Closed(r).alive = r.alive
           /\ Left(r, c) \in ClientType /\ Left(r, c).threads = r.threads \ {c}
           /\ Left(r, c).alive <=> Left(r, c).threads # {}
           /\ Left(r, c).phase = r.phase /\ Left(r, c).store = r.store
           /\ Released(r) \in ClientType /\ Released(r).threads = r.threads
           /\ Released(r).phase = "freed" /\ Released(r).alive = r.alive
<1>1. r.store \in BOOLEAN /\ r.threads \in SUBSET Clients
  BY DEF ClientType
<1>2. PICK b : b = ~(r.threads \subseteq {c})
  OBVIOUS
<1>3. b \in BOOLEAN /\ (b <=> r.threads \ {c} # {})
  BY <1>2
<1>4. Left(r, c) = [r EXCEPT !.threads = @ \ {c}, !.alive = b]
  BY <1>2 DEF Left
<1>5. NewClient(c) \in ClientType /\ NewClient(c).phase = "open" /\ NewClient(c).alive
      /\ NewClient(c).threads = {c} /\ ~NewClient(c).store
  BY DEF NewClient, ClientType, Phases
<1>6. /\ Entered(r, c) \in ClientType /\ Entered(r, c).threads = r.threads \cup {c}
      /\ Entered(r, c).phase = r.phase /\ Entered(r, c).store = r.store
      /\ Entered(r, c).alive = r.alive
  BY <1>1 DEF Entered, ClientType
<1>7. /\ Opened(r) \in ClientType /\ Opened(r).threads = r.threads /\ Opened(r).store
      /\ Opened(r).phase = r.phase /\ Opened(r).alive = r.alive
  BY <1>1 DEF Opened, ClientType
<1>8. /\ Closed(r) \in ClientType /\ Closed(r).threads = r.threads /\ ~Closed(r).store
      /\ Closed(r).phase = r.phase /\ Closed(r).alive = r.alive
  BY <1>1 DEF Closed, ClientType
<1>9. /\ Left(r, c) \in ClientType /\ Left(r, c).threads = r.threads \ {c}
      /\ Left(r, c).alive = b
      /\ Left(r, c).phase = r.phase /\ Left(r, c).store = r.store
  BY <1>1, <1>3, <1>4 DEF ClientType
<1>10. /\ Released(r) \in ClientType /\ Released(r).threads = r.threads
       /\ Released(r).phase = "freed" /\ Released(r).alive = r.alive
  BY <1>1 DEF Released, ClientType, Phases
<1> QED
  BY <1>3, <1>5, <1>6, <1>7, <1>8, <1>9, <1>10

\* The sessions of the server, and what the workers make of them
NewSession(k) == [phase |-> "open", alive |-> TRUE, refs |-> 1, workers |-> {k}, store |-> FALSE]
Joined(r, k) == [r EXCEPT !.refs = @ + 1, !.workers = @ \cup {k}]
Parted(r, k) == [r EXCEPT !.workers = @ \ {k}, !.refs = @ - 1]
Ended(r, k) == [r EXCEPT !.workers = @ \ {k}, !.refs = 0, !.alive = FALSE, !.store = FALSE]
Stored(r) == [r EXCEPT !.store = TRUE]
Unstored(r) == [r EXCEPT !.store = FALSE]
Freed(r) == [r EXCEPT !.phase = "freed"]
Dropped(r) == [r EXCEPT !.store = FALSE, !.alive = FALSE, !.phase = "freed"]

\* What the workers make of a session of the server, field by field
LEMMA SessionFields ==
    ASSUME NEW r \in SessionType, NEW k \in Connections
    PROVE  /\ NewSession(k) \in SessionType
           /\ NewSession(k).phase = "open" /\ NewSession(k).refs = 1 /\ NewSession(k).workers = {k}
           /\ NewSession(k).alive /\ ~NewSession(k).store
           /\ Joined(r, k) \in SessionType /\ Joined(r, k).phase = r.phase
           /\ Joined(r, k).refs = r.refs + 1 /\ Joined(r, k).workers = r.workers \cup {k}
           /\ Joined(r, k).alive = r.alive /\ Joined(r, k).store = r.store
           /\ Parted(r, k) \in SessionType /\ Parted(r, k).phase = r.phase
           /\ Parted(r, k).refs = r.refs - 1 /\ Parted(r, k).workers = r.workers \ {k}
           /\ Parted(r, k).alive = r.alive /\ Parted(r, k).store = r.store
           /\ Ended(r, k) \in SessionType /\ Ended(r, k).phase = r.phase
           /\ Ended(r, k).refs = 0 /\ Ended(r, k).workers = r.workers \ {k}
           /\ ~Ended(r, k).alive /\ ~Ended(r, k).store
           /\ Stored(r) \in SessionType /\ Stored(r).phase = r.phase
           /\ Stored(r).refs = r.refs /\ Stored(r).workers = r.workers
           /\ Stored(r).alive = r.alive /\ Stored(r).store
           /\ Unstored(r) \in SessionType /\ Unstored(r).phase = r.phase
           /\ Unstored(r).refs = r.refs /\ Unstored(r).workers = r.workers
           /\ Unstored(r).alive = r.alive /\ ~Unstored(r).store
           /\ Freed(r) \in SessionType /\ Freed(r).phase = "freed"
           /\ Freed(r).refs = r.refs /\ Freed(r).workers = r.workers
           /\ Freed(r).alive = r.alive /\ Freed(r).store = r.store
           /\ Dropped(r) \in SessionType /\ Dropped(r).phase = "freed"
           /\ Dropped(r).refs = r.refs /\ Dropped(r).workers = r.workers
           /\ ~Dropped(r).alive /\ ~Dropped(r).store
<1>1. r.refs \in Int /\ r.workers \in SUBSET Connections
  BY DEF SessionType
<1>2. PICK n, m, V, W :
        n = r.refs - 1 /\ m = r.refs + 1 /\ V = r.workers \cup {k} /\ W = r.workers \ {k}
  OBVIOUS
<1>3. n \in Int /\ m \in Int /\ V \in SUBSET Connections /\ W \in SUBSET Connections
  BY <1>1, <1>2
<1>4. /\ Joined(r, k) = [r EXCEPT !.refs = m, !.workers = V]
      /\ Parted(r, k) = [r EXCEPT !.workers = W, !.refs = n]
      /\ Ended(r, k) = [r EXCEPT !.workers = W, !.refs = 0, !.alive = FALSE, !.store = FALSE]
  BY <1>2 DEF Joined, Parted, Ended
<1>5. /\ NewSession(k) \in SessionType
      /\ NewSession(k).phase = "open" /\ NewSession(k).refs = 1 /\ NewSession(k).workers = {k}
      /\ NewSession(k).alive /\ ~NewSession(k).store
  BY DEF NewSession, SessionType, Phases
<1>6. /\ Joined(r, k) \in SessionType /\ Joined(r, k).phase = r.phase
      /\ Joined(r, k).refs = m /\ Joined(r, k).workers = V
      /\ Joined(r, k).alive = r.alive /\ Joined(r, k).store = r.store
  BY <1>3, <1>4 DEF SessionType
<1>7. /\ Parted(r, k) \in SessionType /\ Parted(r, k).phase = r.phase
      /\ Parted(r, k).refs = n /\ Parted(r, k).workers = W
      /\ Parted(r, k).alive = r.alive /\ Parted(r, k).store = r.store
  BY <1>3, <1>4 DEF SessionType
<1>8. /\ Ended(r, k) \in SessionType /\ Ended(r, k).phase = r.phase
      /\ Ended(r, k).refs = 0 /\ Ended(r, k).workers = W
      /\ ~Ended(r, k).alive /\ ~Ended(r, k).store
  <2>1. Ended(r, k) = [phase |-> r.phase, alive |-> FALSE, refs |-> 0, workers |-> W,
                       store |-> FALSE]
    BY <1>4 DEF SessionType
  <2>2. r.phase \in Phases
    BY DEF SessionType
  <2> QED
    BY <1>3, <2>1, <2>2 DEF SessionType
<1>9. /\ Stored(r) \in SessionType /\ Stored(r).phase = r.phase
      /\ Stored(r).refs = r.refs /\ Stored(r).workers = r.workers
      /\ Stored(r).alive = r.alive /\ Stored(r).store
  BY DEF Stored, SessionType
<1>10. /\ Unstored(r) \in SessionType /\ Unstored(r).phase = r.phase
      /\ Unstored(r).refs = r.refs /\ Unstored(r).workers = r.workers
      /\ Unstored(r).alive = r.alive /\ ~Unstored(r).store
  BY DEF Unstored, SessionType
<1>11. /\ Freed(r) \in SessionType /\ Freed(r).phase = "freed"
       /\ Freed(r).refs = r.refs /\ Freed(r).workers = r.workers
       /\ Freed(r).alive = r.alive /\ Freed(r).store = r.store
  BY DEF Freed, SessionType, Phases
<1>12. /\ Dropped(r) \in SessionType /\ Dropped(r).phase = "freed"
       /\ Dropped(r).refs = r.refs /\ Dropped(r).workers = r.workers
       /\ ~Dropped(r).alive /\ ~Dropped(r).store
  BY DEF Dropped, SessionType, Phases
<1> QED
  BY <1>2, <1>5, <1>6, <1>7, <1>8, <1>9, <1>10, <1>11, <1>12

\* A call returns, throws, or the last thread releases the session.
LEMMA ReturnTypes ==
    ASSUME Types, NEW c \in Clients, ClientStep(c)
    PROVE  Types'
<1> USE DEF Types, CallType, ClientType, Phases, Places, Waiting, Requests, Answers, server
<1>1. PICK s : s = call[c].session
  OBVIOUS
<1>2. PICK k : k = CHOOSE j \in call[c].conn : TRUE
  OBVIOUS
<1>3. s \in Ids \cup {0} /\ call[c].conn \in SUBSET Connections
  BY <1>1 DEF ClientTypes
<1>4. ASSUME ServerTypes PROVE wsess[k] \in Ids \cup {0} \/ k \notin Connections
  BY <1>4 DEF ServerTypes
<1>5. CASE Reply(c)
  <2>1. k \in Connections
    BY <1>2, <1>3, <1>5 DEF Reply, Answered
  <2>2. wsess[k] \in Ids \cup {0}
    BY <2>1 DEF ServerTypes
  <2>3. ServerTypes' /\ died' = died
    BY <1>5 DEF Reply, ServerTypes
  <2>4. WireTypes'
    BY <1>5, <1>1, <1>2, <2>1 DEF Reply, WireTypes, Consume, Send, Hangup
  <2>5. cl' \in [Ids -> ClientType]
    <3>1. cl \in [Ids -> ClientType]
      BY DEF ClientTypes
    <3>2. s \in Ids => cl[s] \in ClientType
      BY <3>1
    <3>3. Left(cl[s], c) = [cl[s] EXCEPT !.threads = @ \ {c}, !.alive = ~Alone(s, c)]
      BY DEF Left, Alone
    <3>4. \/ cl' = cl
          \/ cl' = [cl EXCEPT ![wsess[k]] = NewClient(c)]
          \/ cl' = [cl EXCEPT ![s] = Entered(cl[s], c)]
          \/ cl' = [cl EXCEPT ![s] = Opened(cl[s])]
          \/ cl' = [cl EXCEPT ![s] = Closed(cl[s])]
          \/ cl' = [cl EXCEPT ![s] = Left(cl[s], c)]
      BY <1>5, <1>1, <1>2, <3>3 DEF Reply, SetClient, NewClient, Entered, Opened, Closed
    <3>5. ASSUME NEW r \in ClientType
          PROVE  {NewClient(c), Entered(r, c), Opened(r), Closed(r), Left(r, c)} \subseteq ClientType
      BY ClientFields
    <3>6. NewClient(c) \in ClientType
      BY DEF NewClient
    <3>7. s \in Ids => {Entered(cl[s], c), Opened(cl[s]), Closed(cl[s]), Left(cl[s], c)} \subseteq ClientType
      BY <3>2, <3>5
    <3> QED
      BY <3>1, <3>4, <3>6, <3>7, OneChanged
  <2>6. call' \in [Clients -> CallType]
    <3>1. \/ call' = [call EXCEPT ![c].at = "in", ![c].session = wsess[k]]
          \/ \E at \in Places : Move(c, at)
          \/ call' = [call EXCEPT ![c].at = "release", ![c].conn = {}]
          \/ call' = [call EXCEPT ![c] = [at |-> "out", conn |-> {}, session |-> 0]]
      BY <1>5, <1>2 DEF Reply
    <3>2. CASE call' = [call EXCEPT ![c].at = "in", ![c].session = wsess[k]]
      <4>1. call \in [Clients -> CallType] /\ call[c] \in CallType
        BY DEF ClientTypes
      <4>2. [call[c] EXCEPT !.at = "in", !.session = wsess[k]] \in CallType
        BY <2>2, <4>1
      <4>3. call' = [call EXCEPT ![c] = [call[c] EXCEPT !.at = "in", !.session = wsess[k]]]
        BY <3>2, <4>1
      <4> HIDE DEF CallType
      <4> QED
        BY <4>1, <4>2, <4>3
    <3>3. ASSUME NEW at \in Places, Move(c, at) PROVE call' \in [Clients -> CallType]
      BY <3>3 DEF ClientTypes, Move
    <3>4. CASE call' = [call EXCEPT ![c].at = "release", ![c].conn = {}]
      <4>1. call \in [Clients -> CallType] /\ call[c] \in CallType
        BY DEF ClientTypes
      <4>2. [call[c] EXCEPT !.at = "release", !.conn = {}] \in CallType
        BY <4>1
      <4>3. call' = [call EXCEPT ![c] = [call[c] EXCEPT !.at = "release", !.conn = {}]]
        BY <3>4, <4>1
      <4> HIDE DEF CallType
      <4> QED
        BY <4>1, <4>2, <4>3
    <3>5. CASE call' = [call EXCEPT ![c] = [at |-> "out", conn |-> {}, session |-> 0]]
      BY <3>5 DEF ClientTypes
    <3> QED
      BY <3>1, <3>2, <3>3, <3>4, <3>5
  <2> QED
    BY <2>3, <2>4, <2>5, <2>6 DEF ClientTypes
<1>6. CASE CallThrows(c)
  <2>1. ServerTypes' /\ died' = died
    BY <1>6 DEF CallThrows, ServerTypes
  <2>2. WireTypes'
    <3>1. request' = request \/ request' = [request EXCEPT ![k] = "close"]
      BY <1>6, <1>2 DEF CallThrows, Send
    <3>2. reply' = [reply EXCEPT ![k] = "none"] \/ Consume(c)
      BY <1>6, <1>2 DEF CallThrows, Send
    <3>3. connected' = connected \/ Hangup(c)
      BY <1>6 DEF CallThrows
    <3>4. request' \in [Connections -> Requests]
      BY <3>1 DEF WireTypes
    <3>5. reply' \in [Connections -> Answers]
      BY <3>2 DEF WireTypes, Consume
    <3>6. connected' \in [Connections -> {"unused", "yes", "no"}]
      BY <3>3 DEF WireTypes, Hangup
    <3> QED
      BY <3>4, <3>5, <3>6 DEF WireTypes
  <2>3. cl' \in [Ids -> ClientType]
    <3>1. cl \in [Ids -> ClientType]
      BY DEF ClientTypes
    <3>2. s \in Ids => cl[s] \in ClientType
      BY <3>1
    <3>3. cl' = cl \/ cl' = [cl EXCEPT ![s] = [cl[s] EXCEPT !.store = @ /\ FALSE]]
          \/ cl' = [cl EXCEPT ![s] = [cl[s] EXCEPT !.store = @ /\ TRUE]]
      <4>1. CASE call[c].at \in {"unstoring", "emptying"}
        BY <1>6, <1>1, <4>1 DEF CallThrows, SetClient
      <4>2. CASE call[c].at \notin {"unstoring", "emptying"}
        BY <1>6, <1>1, <4>2 DEF CallThrows, SetClient
      <4> QED
        BY <4>1, <4>2
    <3>4. s \in Ids => /\ [cl[s] EXCEPT !.store = @ /\ FALSE] \in ClientType
                       /\ [cl[s] EXCEPT !.store = @ /\ TRUE] \in ClientType
      <4>1. ASSUME NEW r \in ClientType
            PROVE  [r EXCEPT !.store = FALSE] \in ClientType
        OBVIOUS
      <4>2. ASSUME NEW r \in ClientType
            PROVE  [r EXCEPT !.store = @ /\ FALSE] = [r EXCEPT !.store = FALSE]
        OBVIOUS
      <4>3. ASSUME NEW r \in ClientType
            PROVE  [r EXCEPT !.store = @ /\ TRUE] = r
        OBVIOUS
      <4> QED
        BY <3>2, <4>1, <4>2, <4>3
    <3> QED
      BY <3>1, <3>3, <3>4, OneChanged, SMTT(30)
  <2>4. call' \in [Clients -> CallType]
    <3>1. \/ call' = [call EXCEPT ![c] = [at |-> "out", conn |-> {}, session |-> 0]]
          \/ \E at \in Places : Move(c, at)
      BY <1>6 DEF CallThrows
    <3>2. ASSUME NEW at \in Places, Move(c, at) PROVE call' \in [Clients -> CallType]
      BY <3>2 DEF ClientTypes, Move
    <3>3. CASE call' = [call EXCEPT ![c] = [at |-> "out", conn |-> {}, session |-> 0]]
      BY <3>3 DEF ClientTypes
    <3> QED
      BY <3>1, <3>2, <3>3
  <2> QED
    BY <2>1, <2>2, <2>3, <2>4 DEF ClientTypes
<1>7. CASE Release(c)
  <2>1. cl' = [cl EXCEPT ![s] = Released(cl[s])] /\ (s \in Ids => Released(cl[s]) \in ClientType)
    <3>1. cl' = [cl EXCEPT ![s] = Released(cl[s])]
      BY <1>1, <1>7 DEF Release, SetClient, Released
    <3>2. s \in Ids => cl[s] \in ClientType
      BY DEF ClientTypes
    <3> QED
      BY <3>1, <3>2, ClientFields
  <2>2. ClientTypes'
    BY <1>7, <2>1 DEF Release, ClientTypes
  <2>3. UNCHANGED wires /\ UNCHANGED server
    BY <1>7 DEF Release
  <2>4. WireTypes'
    BY <2>3 DEF WireTypes, wires
  <2>5. ServerTypes'
    BY <2>3 DEF ServerTypes
  <2> QED
    BY <2>2, <2>4, <2>5
<1> QED
  BY <1>5, <1>6, <1>7 DEF ClientStep

\* What the creation and the close of a store make of a session
LEMMA StoreChanges ==
    ASSUME Types, NEW k \in Connections, HandleStoreCreate(k) \/ CloseStoreDone(k)
    PROVE  \/ sess' = sess
           \/ sess' = [sess EXCEPT ![wsess[k]] = Stored(sess[wsess[k]])]
           \/ sess' = [sess EXCEPT ![wsess[k]] = Unstored(sess[wsess[k]])]
<1>1. PICK s : s = wsess[k]
  OBVIOUS
<1>2. CASE CloseStoreDone(k)
  <2>1. PICK closed \in BOOLEAN : sess' = [sess EXCEPT ![s].store = ~closed]
    BY <1>1, <1>2 DEF CloseStoreDone
  <2>2. CASE closed
    BY <1>1, <2>1, <2>2 DEF Unstored
  <2>3. CASE ~closed
    BY <1>1, <2>1, <2>3 DEF Stored
  <2> QED
    BY <2>2, <2>3
<1>3. CASE HandleStoreCreate(k)
  <2>1. PICK made \in BOOLEAN : sess' = [sess EXCEPT ![s].store = @ \/ made]
    BY <1>1, <1>3 DEF HandleStoreCreate
  <2>2. CASE s \in Ids
    <3>1. sess[s].store \in BOOLEAN /\ sess[s] \in SessionType
      BY <2>2 DEF Types, ServerTypes, SessionType
    <3>2. PICK b \in BOOLEAN : b = (sess[s].store \/ made)
      BY <3>1
    <3>3. sess' = [sess EXCEPT ![s].store = b]
      BY <2>1, <2>2, <3>2 DEF Types, ServerTypes
    <3>4. CASE b
      BY <1>1, <3>3, <3>4 DEF Stored
    <3>5. CASE ~b
      BY <1>1, <3>3, <3>5 DEF Unstored
    <3> QED
      BY <3>4, <3>5
  <2>3. CASE s \notin Ids
    BY <2>1, <2>3 DEF Types, ServerTypes
  <2> QED
    BY <2>2, <2>3
<1> QED
  BY <1>2, <1>3

\* A thread of the server handles a request, or leaves.
LEMMA WorkerTypes ==
    ASSUME Types, NEW k \in Connections, WorkerAct(k)
    PROVE  Types'
<1> USE DEF Types, SessionType, Phases, Requests, Answers, Progress, States, client, wires
<1>1. PICK s : s = wsess[k]
  OBVIOUS
<1>2. s \in Ids \cup {0} /\ (s \in Ids => sess[s] \in SessionType)
  BY <1>1 DEF ServerTypes
<1>3. ClientTypes \/ ~Types
  OBVIOUS
<1>4. ASSUME DropRequest(k), UNCHANGED client PROVE Types'
  BY <1>4 DEF DropRequest, Take, Ret, GoTo, ClientTypes, WireTypes, ServerTypes
<1>5. CASE HandleSessionCreate(k)
  <2>1. CASE canCreate
    <3>1. UNCHANGED client /\ ClientTypes'
      BY <1>5 DEF HandleSessionCreate, ClientTypes
    <3>2. WireTypes'
      BY <1>5, <2>1 DEF HandleSessionCreate, WireTypes, Take
    <3>3. ServerTypes'
      <4>1. PICK new : new = [phase |-> "open", alive |-> TRUE, refs |-> 1,
                             workers |-> {}, store |-> FALSE]
        OBVIOUS
      <4>2. new \in SessionType
        BY <4>1
      <4>3. PICK n \in Ids : AddWorker(k, n, new)
        BY <1>5, <2>1, <4>1 DEF HandleSessionCreate
      <4>4. [new EXCEPT !.workers = @ \cup {k}] \in SessionType
        BY <4>2, SessionFields
      <4> QED
        BY <1>5, <2>1, <4>3, <4>4 DEF HandleSessionCreate, ServerTypes, AddWorker, GoTo
    <3> QED
      BY <3>1, <3>2, <3>3
  <2> QED
    BY <1>4, <1>5, <2>1 DEF HandleSessionCreate
<1>6. CASE HandleSessionOpen(k)
  <2>1. CASE sess[wsess[k]].phase = "open"
    <3>1. /\ wp' = [wp EXCEPT ![k] = "attach"]
          /\ UNCHANGED <<client, wires, sess, holder, wsess, state, canCreate, closer, lost>>
      BY <1>6, <2>1 DEF HandleSessionOpen, GoTo
    <3>2. ClientTypes' /\ WireTypes'
      BY <3>1 DEF ClientTypes, WireTypes
    <3> QED
      BY <3>1, <3>2 DEF ServerTypes
  <2>2. CASE sess[wsess[k]].phase # "open"
    BY <1>4, <1>6, <2>2 DEF HandleSessionOpen
  <2> QED
    BY <2>1, <2>2
<1>7. ASSUME NEW x \in Connections \cup {"closer"}, Meets(x) PROVE Types'
  BY <1>7 DEF Meets, ClientTypes, WireTypes, ServerTypes
<1>8. CASE AttachSession(k)
  <2>1. CASE Meets(k)
    BY <1>7, <2>1
  <2>2. CASE DropRequest(k) /\ UNCHANGED client
    BY <1>4, <2>2
  <2>3. CASE Take(k) /\ AddWorker(k, s, CountThread(sess[s]))
             /\ UNCHANGED <<reply, connected, holder, canCreate, closer, lost>> /\ UNCHANGED client
    <3>1. ClientTypes' /\ WireTypes'
      BY <2>3 DEF ClientTypes, WireTypes, Take
    <3>2. CASE s \in Ids
      <4>1. sess[s] \in SessionType
        BY <1>2, <3>2
      <4>2. [CountThread(sess[s]) EXCEPT !.workers = @ \cup {k}] = Joined(sess[s], k)
        BY DEF CountThread, Joined
      <4>3. [CountThread(sess[s]) EXCEPT !.workers = @ \cup {k}] \in SessionType
        BY <4>1, <4>2, SessionFields
      <4> QED
        BY <2>3, <3>1, <3>2, <4>3 DEF AddWorker, ServerTypes, GoTo
    <3>3. CASE s \notin Ids
      BY <1>2, <2>3, <3>1, <3>3 DEF AddWorker, ServerTypes, GoTo
    <3> QED
      BY <3>2, <3>3
  <2> QED
    BY <1>1, <1>8, <2>1, <2>2, <2>3 DEF AttachSession
<1>9. CASE WorkerStart(k)
  BY <1>9 DEF WorkerStart, Ret, GoTo, ClientTypes, WireTypes, ServerTypes
<1>10. CASE \/ HandleSetConfiguration(k) \/ HandleStoreCreate(k) \/ NothingToClose(k)
            \/ CloseStoreDone(k) \/ HandleSessionClose(k)
  <2>1. PICK status \in Answers : Served(k, status)
    BY <1>10 DEF HandleSetConfiguration, HandleStoreCreate, NothingToClose, CloseStoreDone,
          HandleSessionClose
  <2>2. ClientTypes' /\ WireTypes'
    BY <2>1 DEF Served, ClientTypes, WireTypes, Take, Ret
  <2>3. state' \in [Connections -> States]
    BY <1>10 DEF HandleSetConfiguration, HandleStoreCreate, NothingToClose, CloseStoreDone,
          HandleSessionClose, ServerTypes
  <2>4. sess' \in [Ids -> SessionType]
    <3>1. sess' = sess \/ sess' = [sess EXCEPT ![s] = Stored(sess[s])]
          \/ sess' = [sess EXCEPT ![s] = Unstored(sess[s])]
      BY <1>1, <1>10, StoreChanges DEF HandleSetConfiguration, NothingToClose, HandleSessionClose
    <3>2. s \in Ids => Stored(sess[s]) \in SessionType /\ Unstored(sess[s]) \in SessionType
      BY <1>2, SessionFields
    <3> QED
      BY <3>1, <3>2, OneChanged DEF ServerTypes
  <2> QED
    BY <2>1, <2>2, <2>3, <2>4 DEF Served, GoTo, ServerTypes
<1>11. CASE LeaveLoop(k) \/ Finish(k) \/ Drop(k)
  <2>1. \/ /\ wp' = [wp EXCEPT ![k] = "finish"] /\ state' = state
        \/ /\ wp' = [wp EXCEPT ![k] = "detach"] /\ state' = [state EXCEPT ![k] = "finished"]
    BY <1>11 DEF LeaveLoop, Finish, Drop, GoTo
  <2>2. UNCHANGED <<client, wires, sess, holder, wsess, canCreate, closer, lost>>
    BY <1>11 DEF LeaveLoop, Finish, Drop
  <2>3. wp' \in [Connections -> Progress] /\ state' \in [Connections -> States]
    BY <2>1 DEF ServerTypes
  <2> QED
    BY <2>2, <2>3 DEF ClientTypes, WireTypes, ServerTypes
<1>12. ASSUME Terminate(k) PROVE Types'
  BY <1>12 DEF Terminate, GoTo, ClientTypes, WireTypes, ServerTypes
<1>13. ASSUME NEW v, s \in Ids => v \in SessionType, sess' = [sess EXCEPT ![s] = v], Gone(k),
              NEW at \in Progress, GoTo(k, at), UNCHANGED <<client, reply, wsess, canCreate, closer, lost>>,
              holder' \in [Ids -> SUBSET (Connections \cup {"closer"})]
       PROVE  Types'
  <2>1. ClientTypes' /\ WireTypes'
    BY <1>13 DEF ClientTypes, WireTypes, Gone
  <2> QED
    BY <1>13, <2>1 DEF ServerTypes, Gone, GoTo
<1>14. CASE DetachWorker(k)
  <2>1. CASE Terminate(k)
    BY <1>12, <2>1
  <2>2. CASE LastThread(s)
    <3>1. /\ wp' = [wp EXCEPT ![k] = "last"] /\ holder' = [holder EXCEPT ![s] = {k}]
          /\ UNCHANGED <<client, wires, sess, wsess, state, canCreate, closer, lost>>
      BY <1>1, <1>14, <2>2 DEF DetachWorker, GoTo
    <3> QED
      BY <3>1 DEF ClientTypes, WireTypes, ServerTypes
  <2>3. CASE ~LastThread(s) /\ ~Terminate(k)
    <3>1. PICK v : v = Parted(sess[s], k)
      OBVIOUS
    <3>2. s \in Ids => v \in SessionType
      BY <1>2, <3>1, SessionFields
    <3>3. sess' = [sess EXCEPT ![s] = v]
      BY <1>1, <1>14, <2>3, <3>1 DEF DetachWorker, Parted
    <3> QED
      BY <1>1, <1>13, <1>14, <2>3, <3>2, <3>3 DEF DetachWorker, ServerTypes
  <2> QED
    BY <2>1, <2>2, <2>3
<1>15. CASE DetachLast(k)
  <2>1. CASE Terminate(k)
    BY <1>12, <2>1
  <2>2. CASE ~Terminate(k)
    <3>1. PICK v : v = Ended(sess[s], k)
      OBVIOUS
    <3>2. s \in Ids => v \in SessionType
      BY <1>2, <3>1, SessionFields
    <3>3. sess' = [sess EXCEPT ![s] = v]
      BY <1>1, <1>15, <2>2, <3>1 DEF DetachLast, Ended
    <3>4. holder' \in [Ids -> SUBSET (Connections \cup {"closer"})]
      BY <1>15, <2>2 DEF DetachLast, ServerTypes
    <3> QED
      BY <1>1, <1>13, <1>15, <2>2, <3>2, <3>3, <3>4 DEF DetachLast, ServerTypes
  <2> QED
    BY <2>1, <2>2
<1>16. CASE ReleaseSession(k)
  <2>1. PICK v : v = Freed(sess[s])
    OBVIOUS
  <2>2. s \in Ids => v \in SessionType
    BY <1>2, <2>1, SessionFields
  <2>3. CASE Meets(k)
    BY <1>7, <2>3
  <2>4. CASE /\ sess' = [sess EXCEPT ![s] = v] /\ GoTo(k, "done")
             /\ UNCHANGED <<client, wires, holder, wsess, state, canCreate, closer, lost>>
    BY <2>2, <2>4 DEF GoTo, ClientTypes, WireTypes, ServerTypes
  <2> QED
    BY <1>1, <1>16, <2>1, <2>3, <2>4 DEF ReleaseSession, Freed
<1>17. CASE DetachStoreThrows(k)
  BY <1>12, <1>17 DEF DetachStoreThrows
<1> QED
  BY <1>5, <1>6, <1>8, <1>9, <1>10, <1>11, <1>14, <1>15, <1>16, <1>17 DEF WorkerAct, PlainStep

\* The client is killed, or the server goes down.
LEMMA EndTypes ==
    ASSUME Types, Kill \/ CloseManager \/ CloserStep
    PROVE  Types'
<1> USE DEF Types, SessionType, ClientType, CallType, Places, Phases, CloserType, Closing, States, Answers,
        client, wires, ClosersOwn
<1>1. CASE Kill
  BY <1>1 DEF Kill, NoClient, ClientTypes, WireTypes, ServerTypes, server
<1>2. CASE CloseManager
  <2>1. {s \in Ids : sess[s].phase = "open"} \in SUBSET Ids
    OBVIOUS
  <2> QED
    BY <1>2, <2>1 DEF CloseManager, ClientTypes, WireTypes, ServerTypes
<1>3. ASSUME CloserThrows PROVE Types'
  BY <1>3 DEF CloserThrows, ClientTypes, WireTypes, ServerTypes
<1>4. ASSUME Meets("closer") PROVE Types'
  BY <1>4 DEF Meets, ClientTypes, WireTypes, ServerTypes
<1>5. ASSUME NEW s \in Ids, CloseSession(s) PROVE Types'
  <2>1. CASE CloserThrows \/ Meets("closer")
    BY <1>3, <1>4, <2>1
  <2>2. CASE /\ closer' = [closer EXCEPT !.at = "lock", !.session = s, !.todo = @ \ {s}]
             /\ UNCHANGED <<ClosersOwn, holder, canCreate>>
    <3>1. closer.todo \ {s} \in SUBSET Ids
      BY DEF ServerTypes
    <3>2. closer' \in CloserType
      BY <2>2, <3>1 DEF ServerTypes
    <3> QED
      BY <2>2, <3>2 DEF ClientTypes, WireTypes, ServerTypes
  <2> QED
    BY <1>5, <2>1, <2>2 DEF CloseSession
<1>6. CASE CloserLocks
  <2>1. PICK s : s = closer.session
    OBVIOUS
  <2>2. s \in Ids => sess[s].workers \in SUBSET Connections
    BY DEF ServerTypes
  <2>3. s \in Ids \cup {0}
    BY <2>1 DEF ServerTypes
  <2> QED
    <3>1. CASE /\ holder[s] = {} /\ holder' = [holder EXCEPT ![s] = {"closer"}]
               /\ closer' = [closer EXCEPT !.at = "workers", !.left = sess[s].workers]
               /\ UNCHANGED <<ClosersOwn, canCreate>>
      <4>1. holder' \in [Ids -> SUBSET (Connections \cup {"closer"})]
        BY <3>1 DEF ServerTypes
      <4>2. PICK W : W = sess[s].workers
        OBVIOUS
      <4>3. s \in Ids
        BY <1>6, <2>1 DEF CloserLocks, ServerTypes, Closing
      <4>4. closer' \in CloserType
        BY <2>2, <3>1, <4>2, <4>3 DEF ServerTypes
      <4>5. Closing(closer')
        BY <2>1, <3>1, <4>3 DEF ServerTypes
      <4> QED
        BY <3>1, <4>1, <4>4, <4>5 DEF ClientTypes, WireTypes, ServerTypes
    <3> QED
      BY <1>4, <1>6, <2>1, <3>1 DEF CloserLocks
<1>7. ASSUME NEW k \in Connections, CloserStops(k) \/ CloserSetsState(k) \/ CloserWaits(k)
      PROVE  Types'
  <2>1. CASE CloserThrows
    BY <1>3, <2>1
  <2>2. CASE CloserStops(k) /\ ~CloserThrows
    <3>1. closer' = [closer EXCEPT !.at = "stop", !.left = closer.left \ {k}, !.worker = {k}]
          /\ UNCHANGED <<ClosersOwn, holder, canCreate>>
      BY <2>2 DEF CloserStops
    <3>2. closer.left \ {k} \in SUBSET Connections /\ {k} \in SUBSET Connections
      BY DEF ServerTypes
    <3>3. closer' \in CloserType
      BY <3>1, <3>2 DEF ServerTypes
    <3>4. Closing(closer')
      BY <2>2, <3>1 DEF CloserStops, ServerTypes
    <3> QED
      BY <3>1, <3>3, <3>4 DEF ClientTypes, WireTypes, ServerTypes
  <2>3. CASE CloserSetsState(k)
    BY <2>3 DEF CloserSetsState, ClientTypes, WireTypes, ServerTypes
  <2>4. CASE CloserWaits(k) /\ ~CloserThrows
    <3>1. closer' = [closer EXCEPT !.at = "workers", !.worker = {}]
          /\ UNCHANGED <<ClosersOwn, holder, canCreate>> /\ closer.at = "wait"
      BY <2>4 DEF CloserWaits
    <3>2. closer' \in CloserType
      BY <3>1 DEF ServerTypes
    <3>3. Closing(closer')
      BY <3>1 DEF ServerTypes, Closing
    <3> QED
      BY <3>1, <3>2, <3>3 DEF ClientTypes, WireTypes, ServerTypes
  <2> QED
    BY <1>7, <2>1, <2>2, <2>3, <2>4
<1>8. CASE CloserLeaves
  <2>1. PICK s : s = closer.session
    OBVIOUS
  <2>2. CASE Meets("closer")
    BY <1>4, <2>2
  <2>3. CASE /\ sess' = IF sess[s].refs > 0 THEN sess ELSE [sess EXCEPT ![s] = Dropped(sess[s])]
             /\ holder' = [holder EXCEPT ![s] = {}]
             /\ closer' = [closer EXCEPT !.at = "next"]
             /\ UNCHANGED <<client, wires, wp, wsess, state, canCreate, lost>>
    <3>1. ASSUME NEW r \in SessionType PROVE Dropped(r) \in SessionType
      BY DEF Dropped
    <3>2. s \in Ids => Dropped(sess[s]) \in SessionType
      BY <3>1 DEF ServerTypes
    <3>3. sess' = sess \/ sess' = [sess EXCEPT ![s] = Dropped(sess[s])]
      BY <2>3
    <3>4. sess' \in [Ids -> SessionType]
      BY <3>2, <3>3, OneChanged DEF ServerTypes
    <3>5. holder' \in [Ids -> SUBSET (Connections \cup {"closer"})] /\ closer' \in CloserType
      BY <2>3 DEF ServerTypes
    <3> QED
      BY <2>3, <3>4, <3>5 DEF ClientTypes, WireTypes, ServerTypes
  <2> QED
    BY <1>8, <2>1, <2>2, <2>3 DEF CloserLeaves, Dropped
<1>9. CASE FinalizeServer
  BY <1>9 DEF FinalizeServer, ClientTypes, WireTypes, ServerTypes
<1> QED
  BY <1>1, <1>2, <1>5, <1>6, <1>7, <1>8, <1>9 DEF CloserStep

\* No step leaves the types.
LEMMA TypesKept ==
    ASSUME Types, [Next]_vars
    PROVE  Types'
<1>1. CASE UNCHANGED <<client, wires, server>>
  BY <1>1 DEF client, wires, server, Types, ClientTypes, WireTypes, ServerTypes
<1>2. ASSUME NEW k \in Connections, WorkerStep(k) PROVE Types'
  BY <1>1, <1>2, WorkerActs, WorkerTypes
<1>3. CASE Next
  BY <1>2, <1>3, CallTypes, ReturnTypes, EndTypes DEF Next
<1> QED
  BY <1>1, <1>3 DEF vars

-----------------------------------------------------------------------------
(* The sessions of the server, their workers and the closer.               *)

\* The worker of a connection is part of its session.
Inside == {"starting", "serve", "finish", "detach", "last", "terminate"}

WorkersOf(s) == {k \in Connections : wp[k] \in Inside /\ wsess[k] = s}

\* A session has exactly the workers that are part of it, and counts them.
SessionGood(s) ==
    /\ sess[s].workers = WorkersOf(s)
    /\ sess[s].refs = Cardinality(sess[s].workers)
    /\ sess[s].alive <=> sess[s].workers # {}
    /\ sess[s].phase # "open" => sess[s].workers = {}
    /\ sess[s].workers = {} => ~sess[s].store

\* Worker k knows its session.  The last worker has the lock, and a worker that
\* detaches has finished, unless the closer has just set its state.
WorkerGood(k) ==
    /\ connected[k] = "unused" => wp[k] = "none"
    /\ wp[k] \in Inside \cup {"attach", "release"} => wsess[k] \in Ids
    /\ wp[k] = "request" /\ request[k] = "open" => wsess[k] \in Ids
    /\ wp[k] = "last" => holder[wsess[k]] = {k} /\ sess[wsess[k]].refs = 1
    /\ wp[k] \in {"detach", "last"} =>
          state[k] = "finished" \/ (k \in closer.worker /\ closer.at \in {"wait", "failed"})
    /\ wp[k] = "release" => sess[wsess[k]].phase # "none" /\ sess[wsess[k]].workers = {}

\* The closer has the lock of the session whose workers it stops, one at a time.
CloserGood ==
    /\ closer.at \in {"workers", "stop", "wait"} =>
          /\ holder[closer.session] = {"closer"}
          /\ closer.left \cup closer.worker \subseteq sess[closer.session].workers
    /\ closer.worker # {} => closer.at \in {"stop", "wait", "failed"}
    /\ \A j, k \in closer.worker : j = k

ServerGood ==
    /\ \A s \in Ids : SessionGood(s)
    /\ \A k \in Connections : WorkerGood(k)
    /\ CloserGood

\* Finite sets of workers
LEMMA Counting ==
    ASSUME NEW W \in SUBSET Connections
    PROVE  /\ Cardinality(W) \in 0..Cardinality(Connections)
           /\ Cardinality(W) = 0 <=> W = {}
           /\ \A k \in Connections \ W : Cardinality(W \cup {k}) = Cardinality(W) + 1
           /\ \A k \in W : /\ Cardinality(W \ {k}) = Cardinality(W) - 1
                           /\ Cardinality(W) = 1 => W \ {k} = {}
<1>1. IsFiniteSet(Connections)
  BY SessionsAssumption
<1>2. IsFiniteSet(W) /\ Cardinality(W) <= Cardinality(Connections)
  BY <1>1, FS_Subset
<1>3. Cardinality(W) \in Nat /\ Cardinality(Connections) \in Nat
  BY <1>1, <1>2, FS_CardinalityType
<1>4. Cardinality(W) = 0 <=> W = {}
  BY <1>2, FS_EmptySet
<1>5. ASSUME NEW k \in Connections \ W
      PROVE  Cardinality(W \cup {k}) = Cardinality(W) + 1
  BY <1>2, <1>5, FS_AddElement
<1>6. ASSUME NEW k \in W
      PROVE  /\ Cardinality(W \ {k}) = Cardinality(W) - 1
             /\ Cardinality(W) = 1 => W \ {k} = {}
  <2>1. Cardinality(W \ {k}) = Cardinality(W) - 1 /\ IsFiniteSet(W \ {k})
    BY <1>2, <1>6, FS_RemoveElement
  <2>2. Cardinality(W \ {k}) = 0 <=> W \ {k} = {}
    BY <2>1, FS_EmptySet
  <2> QED
    BY <2>1, <2>2
<1> QED
  BY <1>2, <1>3, <1>4, <1>5, <1>6

\* A session that nobody changes, whose workers stay
SessionSame(s) == sess'[s] = sess[s] /\ WorkersOf(s)' = WorkersOf(s)

\* A session nobody touches stays good.
LEMMA SessionLeft ==
    ASSUME NEW s \in Ids, SessionGood(s), SessionSame(s)
    PROVE  SessionGood(s)'
  BY DEF SessionGood, SessionSame

\* A worker whose place, lock and session stay
WorkerSame(k) ==
    /\ wp'[k] = wp[k] /\ wsess'[k] = wsess[k] /\ state'[k] = state[k]
    /\ request'[k] \in {request[k], "none"}
    /\ connected'[k] = "unused" => connected[k] = "unused"
    /\ wp[k] = "last" => holder'[wsess[k]] = {k} /\ sess'[wsess[k]].refs = 1
    /\ wp[k] = "release" => /\ sess'[wsess[k]].phase # "none"
                            /\ sess'[wsess[k]].workers = {}

CloserSame == closer' = closer

\* So does a worker nobody touches.
LEMMA WorkerLeft ==
    ASSUME NEW k \in Connections, WorkerGood(k), WorkerSame(k), CloserSame
    PROVE  WorkerGood(k)'
  BY DEF WorkerGood, WorkerSame, CloserSame

\* The client does nothing to the server but connect, ask and hang up.
LEMMA ClientKeeps ==
    ASSUME Types, ServerGood, UNCHANGED <<sess, holder, wp, wsess, state, canCreate, closer, lost>>,
           \A k \in Connections : /\ connected'[k] = "unused" => connected[k] = "unused"
                                  /\ request'[k] = "open" => request[k] = "open"
    PROVE  ServerGood'
<1>1. ASSUME NEW s \in Ids PROVE SessionGood(s)'
  BY DEF ServerGood, SessionGood, WorkersOf
<1>2. ASSUME NEW k \in Connections PROVE WorkerGood(k)'
  BY DEF ServerGood, WorkerGood
<1>3. CloserGood'
  BY DEF ServerGood, CloserGood
<1> QED
  BY <1>1, <1>2, <1>3 DEF ServerGood

\* Thread k goes on to w, as a thread of session s.
Goes(k, w, s) == wp' = [wp EXCEPT ![k] = w] /\ wsess' = [wsess EXCEPT ![k] = s]

\* The workers of the sessions after one of them has moved
LEMMA WorkersMoved ==
    ASSUME Types, NEW k \in Connections, NEW w, NEW s, Goes(k, w, s)
    PROVE  /\ \A t : WorkersOf(t)' = (WorkersOf(t) \ {k}) \cup
                                      (IF w \in Inside /\ s = t THEN {k} ELSE {})
           /\ wp'[k] = w /\ wsess'[k] = s
           /\ \A j \in Connections \ {k} : wp'[j] = wp[j] /\ wsess'[j] = wsess[j]
  BY DEF Types, ServerTypes, Goes, WorkersOf

\* A new connection waits for its first request to be taken.
LEMMA ConnectGood ==
    ASSUME Types, ServerGood, NEW c \in Clients, NEW at, NEW s, NEW r, Connect(c, at, s, r),
           r = "open" => s \in Ids
    PROVE  ServerGood'
<1>1. PICK k : k = CHOOSE j \in Unused : TRUE
  OBVIOUS
<1>2. k \in Connections /\ connected[k] = "unused" /\ Goes(k, "request", s)
      /\ connected' = [connected EXCEPT ![k] = "yes"] /\ request' = [request EXCEPT ![k] = r]
      /\ UNCHANGED <<sess, holder, state, canCreate, closer, lost>>
  BY <1>1 DEF Connect, Unused, Send, Goes
<1>3. wp[k] = "none"
  BY <1>2 DEF ServerGood, WorkerGood
<1>4. ASSUME NEW t \in Ids PROVE SessionGood(t)'
  <2>1. WorkersOf(t)' = WorkersOf(t)
    BY <1>2, <1>3, WorkersMoved DEF WorkersOf, Inside
  <2> QED
    BY <1>2, <2>1, SessionLeft DEF ServerGood, SessionSame
<1>5. ASSUME NEW j \in Connections PROVE WorkerGood(j)'
  <2>1. CASE j # k
    <3>1. wp'[j] = wp[j] /\ wsess'[j] = wsess[j]
      BY <1>2, <2>1, WorkersMoved
    <3>2. connected'[j] = connected[j] /\ request'[j] = request[j]
      BY <1>2, <2>1 DEF Types, WireTypes
    <3>3. WorkerGood(j)
      BY DEF ServerGood
    <3>4. WorkerSame(j) /\ CloserSame
      BY <1>2, <3>1, <3>2, <3>3 DEF WorkerSame, CloserSame, WorkerGood
    <3> QED
      BY <3>3, <3>4, WorkerLeft
  <2>2. CASE j = k
    <3>1. wp'[k] = "request" /\ wsess'[k] = s
      BY <1>2, WorkersMoved
    <3>2. connected'[k] = "yes" /\ request'[k] = r
      BY <1>2 DEF Types, WireTypes
    <3> QED
      BY <1>2, <2>2, <3>1, <3>2 DEF WorkerGood, Inside
  <2> QED
    BY <2>1, <2>2
<1>6. CloserGood'
  BY <1>2 DEF ServerGood, CloserGood
<1> QED
  BY <1>4, <1>5, <1>6 DEF ServerGood

\* What a step of the thread of connection k leaves to the others
Others(k) ==
    \A j \in Connections \ {k} :
        /\ state'[j] = state[j] /\ request'[j] = request[j]
        /\ connected'[j] = "unused" => connected[j] = "unused"

\* A step of thread k that leaves the sessions and the lock alone
LEMMA StepGood ==
    ASSUME Types, ServerGood, NEW k \in Connections, NEW w, Goes(k, w, wsess[k]), Others(k),
           w \in Inside <=> wp[k] \in Inside,
           UNCHANGED <<sess, holder, closer>>, WorkerGood(k)'
    PROVE  ServerGood'
<1>1. ASSUME NEW t \in Ids PROVE SessionGood(t)'
  <2>1. WorkersOf(t)' = WorkersOf(t)
    BY WorkersMoved DEF WorkersOf
  <2> QED
    BY <2>1, SessionLeft DEF ServerGood, SessionSame
<1>2. ASSUME NEW j \in Connections \ {k} PROVE WorkerGood(j)'
  BY WorkersMoved, WorkerLeft DEF ServerGood, WorkerSame, CloserSame, Others, WorkerGood
<1>3. CloserGood'
  BY DEF ServerGood, CloserGood
<1> QED
  BY <1>1, <1>2, <1>3 DEF ServerGood

\* A step of thread k that changes its session, which it joins or leaves
SessionStep(k, w, s, v) ==
    /\ Goes(k, w, s) /\ Others(k) /\ closer' = closer
    /\ wp[k] \in Inside => wsess[k] = s
    /\ sess' = [sess EXCEPT ![s] = v]
    /\ \A j \in Connections \ {k} :
          /\ wp[j] = "last" => holder'[wsess[j]] = {j} /\ (wsess[j] = s => v.refs = 1)
          /\ wp[j] = "release" /\ wsess[j] = s => v.phase # "none" /\ v.workers = {}
    /\ closer.at \in {"workers", "stop", "wait"} =>
          /\ holder'[closer.session] = {"closer"}
          /\ closer.session = s => sess[s].workers \subseteq v.workers

\* A step of a worker that changes one session and keeps that session and the
\* worker good keeps all of the server good.
LEMMA SessionStepGood ==
    ASSUME Types, ServerGood, NEW k \in Connections, NEW w, NEW s \in Ids, NEW v,
           SessionStep(k, w, s, v), SessionGood(s)', WorkerGood(k)'
    PROVE  ServerGood'
<1> USE DEF SessionStep
<1>1. sess'[s] = v /\ \A t \in Ids \ {s} : sess'[t] = sess[t]
  BY DEF Types, ServerTypes
<1>2. ASSUME NEW t \in Ids PROVE SessionGood(t)'
  <2>1. CASE t # s
    <3>1. WorkersOf(t)' = WorkersOf(t)
      BY <2>1, WorkersMoved DEF WorkersOf
    <3> QED
      BY <1>1, <2>1, <3>1, SessionLeft DEF ServerGood, SessionSame
  <2> QED
    BY <2>1
<1>3. ASSUME NEW j \in Connections \ {k} PROVE WorkerGood(j)'
  <2>1. wp'[j] = wp[j] /\ wsess'[j] = wsess[j]
    BY WorkersMoved
  <2>2. WorkerGood(j)
    BY DEF ServerGood
  <2>3. wp[j] = "release" => /\ sess'[wsess[j]].phase # "none"
                            /\ sess'[wsess[j]].workers = {}
    BY <1>1, <2>2 DEF WorkerGood
  <2>4. wp[j] = "last" => holder'[wsess[j]] = {j} /\ sess'[wsess[j]].refs = 1
    BY <1>1, <2>2 DEF WorkerGood, Inside
  <2> QED
    BY <2>1, <2>2, <2>3, <2>4, WorkerLeft DEF WorkerSame, CloserSame, Others
<1>4. CloserGood'
  <2>1. closer.at \in {"workers", "stop", "wait"} =>
            sess[closer.session].workers \subseteq sess'[closer.session].workers
    BY <1>1 DEF Types, ServerTypes, Closing
  <2> QED
    BY <2>1 DEF ServerGood, CloserGood
<1> QED
  BY <1>2, <1>3, <1>4 DEF ServerGood

\* What holds of a worker that has come to the end: it has finished, so that the
\* check of its detachment passes, unless the closer holds the lock.
LEMMA HasFinished ==
    ASSUME Types, ServerGood, Up, NEW k \in Connections,
           \/ wp[k] = "detach" /\ holder[wsess[k]] = {}
           \/ wp[k] = "last"
    PROVE  state[k] = "finished" /\ ~isRunning(k)
<1>1. WorkerGood(k) /\ wsess[k] \in Ids
  BY DEF ServerGood, WorkerGood, Inside
<1>2. ASSUME k \in closer.worker, closer.at \in {"wait", "failed"} PROVE FALSE
  <2>1. closer.at = "wait"
    BY <1>2 DEF Up
  <2>2. closer.session \in Ids /\ k \in sess[closer.session].workers
        /\ holder[closer.session] = {"closer"}
    BY <1>2, <2>1 DEF ServerGood, CloserGood, Types, ServerTypes, Closing
  <2>3. closer.session = wsess[k]
    BY <2>2 DEF ServerGood, SessionGood, WorkersOf
  <2>4. holder[wsess[k]] \in {{}, {k}}
    BY <1>1 DEF WorkerGood
  <2> QED
    BY <2>2, <2>3, <2>4, SessionsAssumption
<1>3. state[k] = "finished"
  BY <1>1, <1>2 DEF WorkerGood
<1> QED
  BY <1>3 DEF isRunning

\* A worker that moves keeps its session.
LEMMA GoesOn ==
    ASSUME Types, NEW k \in Connections, NEW w, GoTo(k, w), UNCHANGED wsess
    PROVE  Goes(k, w, wsess[k])
  BY DEF GoTo, Goes, Types, ServerTypes

\* The port of a request that failed goes with it.
LEMMA DropGood ==
    ASSUME Types, ServerGood, NEW k \in Connections, wp[k] \in {"request", "attach"}, DropRequest(k)
    PROVE  ServerGood'
<1>1. Goes(k, "done", wsess[k])
  BY GoesOn DEF DropRequest
<1>2. Others(k)
  BY DEF Others, DropRequest, Take, Types, WireTypes
<1>3. WorkerGood(k)'
  BY <1>1, WorkersMoved DEF WorkerGood, DropRequest, Types, WireTypes, Inside
<1> QED
  BY <1>1, <1>2, <1>3, StepGood DEF DropRequest, Inside

\* A new session has its first worker.
LEMMA HandleSessionCreateGood ==
    ASSUME Types, ServerGood, NEW k \in Connections, HandleSessionCreate(k)
    PROVE  ServerGood'
<1>1. CASE ~canCreate
  BY <1>1, DropGood DEF HandleSessionCreate
<1>2. CASE canCreate
  <2>1. PICK new : new = [phase |-> "open", alive |-> TRUE, refs |-> 1,
                          workers |-> {}, store |-> FALSE]
    OBVIOUS
  <2>2. PICK s \in Ids : sess[s].phase = "none" /\ AddWorker(k, s, new)
    BY <1>2, <2>1 DEF HandleSessionCreate
  <2>3. [new EXCEPT !.workers = @ \cup {k}] = NewSession(k)
    <3>1. {} \cup {k} = {k}
      OBVIOUS
    <3>2. PICK W : W = {} \cup {k}
      OBVIOUS
    <3>3. new.workers = {}
      BY <2>1
    <3>4. [new EXCEPT !.workers = @ \cup {k}] = [new EXCEPT !.workers = W]
      BY <3>2, <3>3
    <3>5. [new EXCEPT !.workers = W] = [phase |-> "open", alive |-> TRUE, refs |-> 1,
                                        workers |-> W, store |-> FALSE]
      <4>1. new \in SessionType /\ new.phase = "open" /\ new.alive = TRUE /\ new.refs = 1
            /\ new.store = FALSE
        BY <2>1 DEF SessionType, Phases
      <4>2. [new EXCEPT !.workers = W] = [phase |-> new.phase, alive |-> new.alive,
                refs |-> new.refs, workers |-> W, store |-> new.store]
        BY <4>1 DEF SessionType
      <4> QED
        BY <4>1, <4>2
    <3> QED
      BY <3>1, <3>2, <3>4, <3>5 DEF NewSession
  <2>4. sess' = [sess EXCEPT ![s] = NewSession(k)] /\ Goes(k, "starting", s)
        /\ state' = [state EXCEPT ![k] = "starting"]
    BY <2>2, <2>3 DEF AddWorker, Goes, GoTo
  <2>5. wp[k] = "request" /\ UNCHANGED <<holder, closer, connected>> /\ Take(k)
    BY <1>2 DEF HandleSessionCreate
  <2>6. Others(k)
    BY <2>4, <2>5 DEF Others, Take, Types, WireTypes, ServerTypes
  <2>7. PICK v : v = NewSession(k)
    OBVIOUS
  <2>8. v.phase = "open" /\ v.workers = {k} /\ v.refs = 1 /\ v.alive /\ sess'[s] = v
    BY <2>4, <2>7, SessionFields DEF Types, ServerTypes, NewSession
  <2>9. sess[s].workers = {} /\ WorkersOf(s) = {}
    BY <2>2 DEF ServerGood, SessionGood
  <2>10. SessionGood(s)'
    <3>1. WorkersOf(s)' = {k}
      BY <2>4, <2>9, WorkersMoved DEF Inside
    <3>2. Cardinality({k}) = 1
      BY FS_Singleton
    <3> QED
      BY <2>8, <3>1, <3>2 DEF SessionGood
  <2>11. WorkerGood(k)'
    BY <2>4, <2>5, WorkersMoved DEF WorkerGood, Inside, ServerGood
  <2>12. \A j \in Connections \ {k} :
            /\ wp[j] = "last" => holder'[wsess[j]] = {j} /\ (wsess[j] = s => v.refs = 1)
            /\ wp[j] = "release" /\ wsess[j] = s => v.phase # "none" /\ v.workers = {}
    BY <2>2, <2>5, <2>8 DEF ServerGood, WorkerGood
  <2>13. closer.at \in {"workers", "stop", "wait"} =>
               /\ holder'[closer.session] = {"closer"}
               /\ closer.session = s => sess[s].workers \subseteq v.workers
    BY <2>5, <2>9 DEF ServerGood, CloserGood
  <2>14. wp[k] \in Inside => wsess[k] = s
    BY <2>5 DEF Inside
  <2>15. sess' = [sess EXCEPT ![s] = v] /\ closer' = closer
    BY <2>4, <2>5, <2>7
  <2>16. SessionStep(k, "starting", s, v)
    BY <2>4, <2>6, <2>12, <2>13, <2>14, <2>15 DEF SessionStep
  <2> QED
    BY <2>10, <2>11, <2>16, SessionStepGood
<1> QED
  BY <1>1, <1>2

\* A request that looks a session up changes none (_handleSessionOpen).
LEMMA HandleSessionOpenGood ==
    ASSUME Types, ServerGood, NEW k \in Connections, HandleSessionOpen(k)
    PROVE  ServerGood'
<1>1. CASE sess[wsess[k]].phase # "open"
  BY <1>1, DropGood DEF HandleSessionOpen
<1>2. CASE sess[wsess[k]].phase = "open"
  <2>1. Goes(k, "attach", wsess[k])
    BY <1>2, GoesOn DEF HandleSessionOpen
  <2>2. Others(k)
    BY <1>2 DEF Others, HandleSessionOpen, wires
  <2>3. WorkerGood(k)'
    BY <1>2, <2>1, WorkersMoved DEF HandleSessionOpen, WorkerGood, Inside, ServerGood, wires
  <2> QED
    BY <1>2, <2>1, <2>2, <2>3, StepGood DEF HandleSessionOpen, Inside
<1> QED
  BY <1>1, <1>2

\* A step that only marks a thread as lost
LEMMA MeetsGood ==
    ASSUME Types, ServerGood, NEW x, Meets(x)
    PROVE  ServerGood'
  BY DEF Meets, wires, ServerGood, SessionGood, WorkersOf, WorkerGood, CloserGood

\* Another worker joins a session that is alive.
LEMMA AttachSessionGood ==
    ASSUME Types, ServerGood, NEW k \in Connections, AttachSession(k)
    PROVE  ServerGood'
<1>1. PICK s : s = wsess[k]
  OBVIOUS
<1>2. wp[k] = "attach" /\ s \in Ids
  BY <1>1 DEF AttachSession, ServerGood, WorkerGood
<1>3. CASE Meets(k)
  BY <1>3, MeetsGood
<1>4. CASE DropRequest(k)
  BY <1>2, <1>4, DropGood
<1>5. CASE /\ sess[s].phase = "open" /\ holder[s] = {} /\ sess[s].alive
           /\ Take(k) /\ AddWorker(k, s, CountThread(sess[s]))
           /\ UNCHANGED <<reply, connected, holder, canCreate, closer, lost>>
  <2>1. sess[s] \in SessionType
    BY <1>2 DEF Types, ServerTypes
  <2>2. PICK v : v = Joined(sess[s], k)
    OBVIOUS
  <2>3. [CountThread(sess[s]) EXCEPT !.workers = @ \cup {k}] = v
    BY <2>2 DEF CountThread, Joined
  <2>4. sess' = [sess EXCEPT ![s] = v] /\ Goes(k, "starting", s)
        /\ state' = [state EXCEPT ![k] = "starting"]
    BY <1>5, <2>3 DEF AddWorker, Goes, GoTo
  <2>5. v.phase = "open" /\ v.workers = sess[s].workers \cup {k} /\ v.refs = sess[s].refs + 1
        /\ v.alive /\ v.store = sess[s].store
    <3>1. Joined(sess[s], k).phase = sess[s].phase
          /\ Joined(sess[s], k).workers = sess[s].workers \cup {k}
          /\ Joined(sess[s], k).refs = sess[s].refs + 1
          /\ Joined(sess[s], k).alive = sess[s].alive
          /\ Joined(sess[s], k).store = sess[s].store
      <4>1. ASSUME NEW r \in SessionType
            PROVE  Joined(r, k).phase = r.phase /\ Joined(r, k).workers = r.workers \cup {k}
                   /\ Joined(r, k).refs = r.refs + 1
                   /\ Joined(r, k).alive = r.alive /\ Joined(r, k).store = r.store
        BY SessionFields
      <4> QED
        BY <2>1, <4>1
    <3> QED
      BY <1>5, <2>2, <3>1
  <2>6. sess'[s] = v
    BY <1>2, <2>4 DEF Types, ServerTypes
  <2>7. Others(k)
    BY <1>5, <2>4 DEF Others, Take, Types, WireTypes, ServerTypes
  <2>8. SessionGood(s) /\ sess[s].workers # {} /\ k \notin WorkersOf(s)
    BY <1>2, <1>5 DEF ServerGood, SessionGood, WorkersOf, Inside
  <2>9. SessionGood(s)'
    <3>1. WorkersOf(s)' = WorkersOf(s) \cup {k}
      BY <2>4, <2>8, WorkersMoved DEF Inside
    <3>2. sess[s].workers \in SUBSET Connections
      BY <2>1 DEF SessionType
    <3>3. Cardinality(v.workers) = Cardinality(sess[s].workers) + 1
      BY <2>5, <2>8, <3>2, Counting DEF SessionGood
    <3> QED
      BY <2>5, <2>6, <2>8, <3>1, <3>3 DEF SessionGood
  <2>10. WorkerGood(k)'
    BY <1>1, <1>2, <1>5, <2>4, WorkersMoved DEF WorkerGood, Inside, ServerGood
  <2>11. \A j \in Connections \ {k} :
            /\ wp[j] = "last" => holder'[wsess[j]] = {j} /\ (wsess[j] = s => v.refs = 1)
            /\ wp[j] = "release" /\ wsess[j] = s => v.phase # "none" /\ v.workers = {}
    BY <1>5, <2>8 DEF ServerGood, WorkerGood
  <2>12. closer.at \in {"workers", "stop", "wait"} =>
               /\ holder'[closer.session] = {"closer"}
               /\ closer.session = s => sess[s].workers \subseteq v.workers
    BY <1>5, <2>5 DEF ServerGood, CloserGood
  <2>13. wp[k] \in Inside => wsess[k] = s
    BY <1>2 DEF Inside
  <2>14. closer' = closer
    BY <1>5
  <2>15. SessionStep(k, "starting", s, v)
    BY <2>4, <2>7, <2>11, <2>12, <2>13, <2>14 DEF SessionStep
  <2> QED
    BY <1>2, <2>9, <2>10, <2>15, SessionStepGood
<1> QED
  BY <1>1, <1>3, <1>4, <1>5 DEF AttachSession

\* The thread of a worker starts, leaves its loop, gives up or finishes.
LEMMA ThreadGood ==
    ASSUME Types, ServerGood, NEW k \in Connections,
           WorkerStart(k) \/ LeaveLoop(k) \/ Drop(k) \/ Finish(k)
    PROVE  ServerGood'
<1>1. UNCHANGED <<sess, holder, closer, wsess, connected, request>>
  BY DEF WorkerStart, LeaveLoop, Drop, Finish, wires
<1>2. PICK w : w = IF Finish(k) THEN "detach" ELSE wp'[k]
  OBVIOUS
<1>3. w \in Inside /\ wp[k] \in Inside /\ GoTo(k, w)
  BY <1>2 DEF WorkerStart, LeaveLoop, Drop, Finish, GoTo, Inside, Types, ServerTypes
<1>4. Goes(k, w, wsess[k])
  BY <1>1, <1>3, GoesOn
<1>5. Others(k)
  BY <1>1 DEF Others, WorkerStart, LeaveLoop, Drop, Finish, Types, ServerTypes
<1>6. w \in {"detach", "last"} => state'[k] = "finished"
  BY <1>2, <1>3 DEF WorkerStart, LeaveLoop, Drop, Finish, GoTo, Types, ServerTypes
<1>7. w # "last" /\ connected[k] # "unused" /\ wsess[k] \in Ids
  BY <1>2, <1>3 DEF WorkerStart, LeaveLoop, Drop, Finish, GoTo, Types, ServerTypes, ServerGood,
                    WorkerGood, Inside
<1>8. WorkerGood(k)'
  BY <1>1, <1>3, <1>4, <1>6, <1>7, WorkersMoved DEF WorkerGood, Inside
<1> QED
  BY <1>1, <1>3, <1>4, <1>5, <1>8, StepGood

\* A worker that serves its client
LEMMA ServingGood ==
    ASSUME Types, ServerGood, NEW k \in Connections, wp[k] = "serve", NEW status, Served(k, status)
    PROVE  /\ \E w \in {"serve", "finish"} : Goes(k, w, wsess[k])
           /\ wsess[k] \in Ids
           /\ (\A j \in Connections \ {k} : state'[j] = state[j]) => Others(k)
           /\ WorkerGood(k)'
           /\ k \in sess[wsess[k]].workers
           /\ \A j \in Connections : wp[j] = "release" => wsess[j] # wsess[k]
           /\ UNCHANGED <<holder, closer>>
<1>1. PICK w \in {"serve", "finish"} : GoTo(k, w)
  BY DEF Served
<1>2. Goes(k, w, wsess[k])
  BY <1>1, GoesOn DEF Served
<1>3. wsess[k] \in Ids /\ connected[k] # "unused"
  BY DEF ServerGood, WorkerGood, Inside
<1>4. k \in sess[wsess[k]].workers
  BY <1>3 DEF ServerGood, SessionGood, WorkersOf, Inside
<1>5. (\A j \in Connections \ {k} : state'[j] = state[j]) => Others(k)
  BY DEF Others, Served, Take, Types, WireTypes
<1>6. WorkerGood(k)'
  BY <1>2, <1>3, WorkersMoved DEF WorkerGood, Served, Inside
<1>7. \A j \in Connections : wp[j] = "release" => wsess[j] # wsess[k]
  BY <1>4 DEF ServerGood, WorkerGood
<1> QED
  BY <1>2, <1>3, <1>4, <1>5, <1>6, <1>7 DEF Served

\* The worker handles a request.
LEMMA ServedGood ==
    ASSUME Types, ServerGood, NEW k \in Connections,
           \/ HandleSetConfiguration(k) \/ HandleStoreCreate(k) \/ NothingToClose(k)
           \/ CloseStoreDone(k) \/ HandleSessionClose(k)
    PROVE  ServerGood'
<1>1. PICK s : s = wsess[k]
  OBVIOUS
<1>2. wp[k] = "serve"
  BY DEF HandleSetConfiguration, HandleStoreCreate, NothingToClose, CloseStoreDone,
         HandleSessionClose, Serving
<1>3. PICK status : Served(k, status)
  BY DEF HandleSetConfiguration, HandleStoreCreate, NothingToClose, CloseStoreDone,
         HandleSessionClose
<1>4. PICK w \in {"serve", "finish"} : Goes(k, w, s)
  BY <1>1, <1>2, <1>3, ServingGood
<1>5. /\ s \in Ids /\ WorkerGood(k)' /\ k \in sess[s].workers
      /\ \A j \in Connections : wp[j] = "release" => wsess[j] # s
      /\ UNCHANGED <<holder, closer>>
  BY <1>1, <1>2, <1>3, ServingGood
<1>6. Others(k)
  <2>1. \A j \in Connections \ {k} : state'[j] = state[j]
    BY DEF HandleSetConfiguration, HandleStoreCreate, NothingToClose, CloseStoreDone,
         HandleSessionClose,
           Types, ServerTypes
  <2> QED
    BY <1>2, <1>3, <2>1, ServingGood
<1>7. CASE sess' = sess
  <2>1. UNCHANGED <<sess, holder, closer>>
    BY <1>5, <1>7
  <2>2. w \in Inside <=> wp[k] \in Inside
    BY <1>2 DEF Inside
  <2> QED
    BY <1>1, <1>4, <1>5, <1>6, <2>1, <2>2, StepGood
<1>8. CASE sess' = [sess EXCEPT ![s] = Stored(sess[s])]
           \/ sess' = [sess EXCEPT ![s] = Unstored(sess[s])]
  <2>1. sess[s] \in SessionType
    BY <1>5 DEF Types, ServerTypes
  <2>2. PICK v : /\ sess' = [sess EXCEPT ![s] = v]
                 /\ v = Stored(sess[s]) \/ v = Unstored(sess[s])
    BY <1>8
  <2>3. v.phase = sess[s].phase /\ v.workers = sess[s].workers /\ v.refs = sess[s].refs
        /\ v.alive = sess[s].alive
    <3>1. ASSUME NEW r \in SessionType
          PROVE  /\ Stored(r).phase = r.phase /\ Stored(r).workers = r.workers
                 /\ Stored(r).refs = r.refs /\ Stored(r).alive = r.alive
                 /\ Unstored(r).phase = r.phase /\ Unstored(r).workers = r.workers
                 /\ Unstored(r).refs = r.refs /\ Unstored(r).alive = r.alive
      BY SessionFields
    <3> QED
      BY <2>1, <2>2, <3>1
  <2>4. sess'[s] = v
    BY <1>5, <2>2 DEF Types, ServerTypes
  <2>5. SessionGood(s)'
    <3>1. WorkersOf(s)' = WorkersOf(s)
      BY <1>1, <1>2, <1>4, <1>5, WorkersMoved DEF WorkersOf, Inside
    <3> QED
      BY <1>5, <2>3, <2>4, <3>1 DEF ServerGood, SessionGood
  <2>6. \A j \in Connections \ {k} :
            /\ wp[j] = "last" => holder'[wsess[j]] = {j} /\ (wsess[j] = s => v.refs = 1)
            /\ wp[j] = "release" /\ wsess[j] = s => v.phase # "none" /\ v.workers = {}
    BY <1>5, <2>3 DEF ServerGood, WorkerGood
  <2>7. closer.at \in {"workers", "stop", "wait"} =>
               /\ holder'[closer.session] = {"closer"}
               /\ closer.session = s => sess[s].workers \subseteq v.workers
    BY <1>5, <2>3 DEF ServerGood, CloserGood
  <2>8. closer' = closer /\ (wp[k] \in Inside => wsess[k] = s)
    BY <1>1, <1>5
  <2>9. SessionStep(k, w, s, v)
    BY <1>4, <1>6, <2>2, <2>6, <2>7, <2>8 DEF SessionStep
  <2> QED
    BY <1>5, <2>5, <2>9, SessionStepGood
<1> QED
  BY <1>1, <1>7, <1>8, StoreChanges DEF HandleSetConfiguration, NothingToClose, HandleSessionClose

SessionFieldsOf(r, k) ==
    /\ Ended(r, k).phase = r.phase /\ Ended(r, k).workers = r.workers \ {k}
    /\ Ended(r, k).refs = 0 /\ Ended(r, k).alive = FALSE /\ Ended(r, k).store = FALSE

\* The end of a session, field by field (Session::_detach)
LEMMA SessionFieldsHold ==
    ASSUME NEW r \in SessionType, NEW k \in Connections
    PROVE  SessionFieldsOf(r, k)
<1>1. PICK W : W = r.workers \ {k}
  OBVIOUS
<1>2. Ended(r, k) = [r EXCEPT !.workers = W, !.refs = 0, !.alive = FALSE, !.store = FALSE]
  BY <1>1 DEF Ended
<1>3. Ended(r, k) = [phase |-> r.phase, alive |-> FALSE, refs |-> 0,
                     workers |-> W, store |-> FALSE]
  BY <1>2 DEF SessionType
<1> QED
  BY <1>1, <1>3 DEF SessionFieldsOf

\* What the worker that leaves leaves behind
Leaves(k, w, s, v) ==
    /\ Goes(k, w, s) /\ sess' = [sess EXCEPT ![s] = v] /\ Gone(k) /\ closer' = closer

LeftGood(k, w, s, v) ==
    /\ v.phase = sess[s].phase /\ v.workers = sess[s].workers \ {k}
    /\ v.refs = Cardinality(v.workers)
    /\ v.alive <=> v.workers # {}
    /\ v.workers = {} => ~v.store
    /\ w = "release" => v.workers = {}
    /\ \A j \in Connections \ {k} : wp[j] = "last" => wsess[j] # s /\ holder'[wsess[j]] = {j}
    /\ closer.at \in {"workers", "stop", "wait"} =>
           closer.session # s /\ holder'[closer.session] = {"closer"}

\* A worker that leaves its session, last or not, keeps the server good.
LEMMA LeavesGood ==
    ASSUME Types, ServerGood, NEW k \in Connections, NEW s \in Ids, s = wsess[k],
           wp[k] \in {"detach", "last"}, NEW w \in {"done", "release"}, NEW v,
           Leaves(k, w, s, v), LeftGood(k, w, s, v)
    PROVE  ServerGood'
<1>1. wp[k] \in Inside /\ SessionGood(s) /\ k \in WorkersOf(s)
  BY DEF ServerGood, Inside, WorkersOf
<1>2. sess'[s] = v /\ Goes(k, w, s)
  BY DEF Leaves, Types, ServerTypes
<1>3. SessionGood(s)'
  <2>1. WorkersOf(s)' = WorkersOf(s) \ {k}
    BY <1>2, WorkersMoved DEF Inside
  <2>2. sess[s].phase = "open" /\ sess[s].workers = WorkersOf(s)
    BY <1>1 DEF SessionGood
  <2> QED
    BY <1>2, <2>1, <2>2 DEF SessionGood, LeftGood
<1>4. WorkerGood(k)'
  <2>1. connected'[k] = "no" /\ wp'[k] = w /\ wsess'[k] = s
    BY <1>2, WorkersMoved DEF Leaves, Gone, Types, WireTypes
  <2>2. w = "release" => sess'[s].phase # "none" /\ sess'[s].workers = {}
    BY <1>1, <1>2 DEF SessionGood, LeftGood
  <2> QED
    BY <2>1, <2>2 DEF WorkerGood, Inside
<1>5. Others(k)
  BY DEF Others, Leaves, Gone, Types, ServerTypes, WireTypes
<1>6. \A j \in Connections \ {k} : wp[j] = "release" => wsess[j] # s
  BY <1>1 DEF ServerGood, WorkerGood, SessionGood
<1>7. closer' = closer /\ sess' = [sess EXCEPT ![s] = v] /\ (wp[k] \in Inside => wsess[k] = s)
  BY DEF Leaves
<1>8. \A j \in Connections \ {k} :
          /\ wp[j] = "last" => holder'[wsess[j]] = {j} /\ (wsess[j] = s => v.refs = 1)
          /\ wp[j] = "release" /\ wsess[j] = s => v.phase # "none" /\ v.workers = {}
  BY <1>6 DEF LeftGood
<1>9. closer.at \in {"workers", "stop", "wait"} =>
             /\ holder'[closer.session] = {"closer"}
             /\ closer.session = s => sess[s].workers \subseteq v.workers
  BY DEF LeftGood
<1>10. SessionStep(k, w, s, v)
  BY <1>2, <1>5, <1>7, <1>8, <1>9 DEF SessionStep
<1> QED
  BY <1>3, <1>4, <1>10, SessionStepGood

\* A thread that is not the last one leaves, the last one takes the lock.
LEMMA DetachWorkerGood ==
    ASSUME Types, ServerGood, NEW k \in Connections, DetachWorker(k)
    PROVE  ServerGood'
<1>1. PICK s : s = wsess[k]
  OBVIOUS
<1>2. wp[k] = "detach" /\ s \in Ids /\ holder[s] = {} /\ Up /\ connected[k] # "unused"
  BY <1>1 DEF DetachWorker, ServerGood, WorkerGood, Inside
<1>3. ~isRunning(k) /\ state[k] = "finished"
  BY <1>1, <1>2, HasFinished
<1>4. sess[s] \in SessionType /\ SessionGood(s) /\ k \in sess[s].workers
  BY <1>1, <1>2 DEF Types, ServerTypes, ServerGood, SessionGood, WorkersOf, Inside
<1>5. closer.at \in {"workers", "stop", "wait"} =>
          closer.session # s /\ holder[closer.session] = {"closer"}
  BY <1>2 DEF ServerGood, CloserGood
<1>6. \A j \in Connections : wp[j] = "last" => wsess[j] # s /\ holder[wsess[j]] = {j}
  BY <1>2 DEF ServerGood, WorkerGood
<1>7. CASE sess[s].refs = 1
  <2>1. /\ GoTo(k, "last") /\ holder' = [holder EXCEPT ![s] = {k}]
        /\ UNCHANGED <<request, connected, sess, wsess, state, closer>>
    BY <1>1, <1>7 DEF DetachWorker, LastThread, wires
  <2>2. Goes(k, "last", s)
    BY <1>1, <2>1, GoesOn
  <2>3. Others(k)
    BY <2>1 DEF Others
  <2>4. PICK v : v = sess[s]
    OBVIOUS
  <2>5. sess' = [sess EXCEPT ![s] = v]
    BY <2>1, <2>4 DEF Types, ServerTypes
  <2>6. SessionGood(s)'
    <3>1. WorkersOf(s)' = WorkersOf(s)
      BY <1>1, <1>2, <2>2, WorkersMoved DEF WorkersOf, Inside
    <3> QED
      BY <1>4, <2>1, <3>1 DEF SessionGood
  <2>7. WorkerGood(k)'
    <3>1. holder'[s] = {k}
      BY <1>2, <2>1 DEF Types, ServerTypes
    <3> QED
      BY <1>2, <1>3, <1>7, <2>1, <2>2, <3>1, WorkersMoved DEF WorkerGood, Inside
  <2>8. \A j \in Connections \ {k} :
            /\ wp[j] = "last" => holder'[wsess[j]] = {j} /\ (wsess[j] = s => v.refs = 1)
            /\ wp[j] = "release" /\ wsess[j] = s => v.phase # "none" /\ v.workers = {}
    <3> TAKE j \in Connections \ {k}
    <3>1. WorkerGood(j)
      BY DEF ServerGood
    <3>2. wp[j] = "last" => holder'[wsess[j]] = {j} /\ wsess[j] # s
      BY <1>6, <2>1, <3>1 DEF WorkerGood, Inside, Types, ServerTypes
    <3>3. ~(wp[j] = "release" /\ wsess[j] = s)
      BY <1>4, <3>1 DEF WorkerGood
    <3> QED
      BY <3>2, <3>3
  <2>9. closer.at \in {"workers", "stop", "wait"} =>
               /\ holder'[closer.session] = {"closer"}
               /\ closer.session = s => sess[s].workers \subseteq v.workers
    BY <1>5, <2>1 DEF Types, ServerTypes, Closing
  <2>10. closer' = closer /\ (wp[k] \in Inside => wsess[k] = s)
    BY <1>1, <2>1
  <2>11. SessionStep(k, "last", s, v)
    BY <2>2, <2>3, <2>5, <2>8, <2>9, <2>10 DEF SessionStep
  <2> QED
    BY <1>2, <2>6, <2>7, <2>11, SessionStepGood
<1>8. CASE sess[s].refs # 1
  <2>1. PICK v : v = Parted(sess[s], k)
    OBVIOUS
  <2>2. /\ sess' = [sess EXCEPT ![s] = Parted(sess[s], k)]
        /\ GoTo(k, "done") /\ Gone(k) /\ UNCHANGED <<holder, wsess, closer>>
    <3>1. sess' = [sess EXCEPT ![s].workers = @ \ {k}, ![s].refs = @ - 1]
          /\ GoTo(k, "done") /\ Gone(k) /\ UNCHANGED <<holder, wsess, closer>>
      BY <1>1, <1>3, <1>8 DEF DetachWorker, LastThread
    <3>2. sess' = [sess EXCEPT ![s] = Parted(sess[s], k)]
      BY <1>2, <3>1 DEF Parted, Types, ServerTypes
    <3> QED
      BY <3>1, <3>2
  <2>3. Goes(k, "done", s) /\ Leaves(k, "done", s, v)
    BY <1>1, <2>1, <2>2, GoesOn DEF Leaves
  <2>4. v.phase = sess[s].phase /\ v.workers = sess[s].workers \ {k}
        /\ v.refs = sess[s].refs - 1 /\ v.alive = sess[s].alive
    <3>1. ASSUME NEW r \in SessionType
          PROVE  /\ Parted(r, k).phase = r.phase /\ Parted(r, k).workers = r.workers \ {k}
                 /\ Parted(r, k).refs = r.refs - 1 /\ Parted(r, k).alive = r.alive
      BY SessionFields
    <3> QED
      BY <1>4, <2>1, <3>1
  <2>5. PICK W : W = sess[s].workers
    OBVIOUS
  <2>6. W \in SUBSET Connections /\ k \in W /\ Cardinality(W) = sess[s].refs
    BY <1>4, <2>5 DEF SessionType, SessionGood
  <2>7. Cardinality(W \ {k}) = Cardinality(W) - 1 /\ W \ {k} # {}
    <3>1. Cardinality(W \ {k}) = Cardinality(W) - 1
      BY <2>6, Counting
    <3>2. (W \ {k}) \in SUBSET Connections
      BY <2>6
    <3>3. Cardinality(W \ {k}) = 0 <=> W \ {k} = {}
      BY <3>2, Counting
    <3>4. Cardinality(W) \in Int
      BY <2>6, Counting
    <3> QED
      BY <1>8, <2>6, <3>1, <3>3, <3>4
  <2>8. v.refs = Cardinality(v.workers) /\ v.workers # {} /\ v.alive
    BY <1>4, <2>4, <2>5, <2>6, <2>7 DEF SessionGood
  <2>9. holder' = holder
    BY <2>2
  <2>10. LeftGood(k, "done", s, v)
    BY <1>5, <1>6, <2>4, <2>8, <2>9 DEF LeftGood
  <2> QED
    BY <1>1, <1>2, <2>3, <2>10, LeavesGood
<1> QED
  BY <1>7, <1>8

\* The close of the store may throw out of the finalization of the last thread.
LEMMA DetachStoreThrowsGood ==
    ASSUME Types, ServerGood, NEW k \in Connections, DetachStoreThrows(k)
    PROVE  ServerGood'
<1>1. wp[k] = "last" /\ Terminate(k) /\ wsess[k] \in Ids /\ connected[k] # "unused"
  BY DEF DetachStoreThrows, ServerGood, WorkerGood, Inside
<1>2. Goes(k, "terminate", wsess[k])
  BY <1>1, GoesOn DEF Terminate
<1>3. \A j \in Connections : connected'[j] = "unused" => connected[j] = "unused"
  BY <1>1 DEF Terminate, Types, WireTypes
<1>4. Others(k)
  BY <1>1, <1>3 DEF Others, Terminate
<1>5. WorkerGood(k)'
  BY <1>1, <1>2, <1>3, WorkersMoved DEF WorkerGood, Inside
<1>6. UNCHANGED <<sess, holder, closer>>
  BY <1>1 DEF Terminate
<1> QED
  BY <1>1, <1>2, <1>4, <1>5, <1>6, StepGood DEF Inside

\* The last thread closes the session.
LEMMA DetachLastGood ==
    ASSUME Types, ServerGood, NEW k \in Connections, DetachLast(k)
    PROVE  ServerGood'
<1>1. PICK s : s = wsess[k]
  OBVIOUS
<1>2. wp[k] = "last" /\ s \in Ids /\ holder[s] = {k} /\ Up /\ sess[s].refs = 1
  BY <1>1 DEF DetachLast, ServerGood, WorkerGood, Inside
<1>3. ~isRunning(k)
  BY <1>1, <1>2, HasFinished
<1>4. sess[s] \in SessionType /\ SessionGood(s) /\ k \in sess[s].workers
  BY <1>1, <1>2 DEF Types, ServerTypes, ServerGood, SessionGood, WorkersOf, Inside
<1>5. /\ sess' = [sess EXCEPT ![s].workers = @ \ {k}, ![s].refs = 0,
                              ![s].alive = FALSE, ![s].store = FALSE]
      /\ holder' = [holder EXCEPT ![s] = {}]
      /\ GoTo(k, "release") /\ Gone(k) /\ UNCHANGED <<wsess, closer>>
  BY <1>1, <1>3 DEF DetachLast
<1>6. PICK v : v = Ended(sess[s], k)
  OBVIOUS
<1>7. sess' = [sess EXCEPT ![s] = v]
  BY <1>2, <1>5, <1>6 DEF Ended, Types, ServerTypes
<1>8. Goes(k, "release", s) /\ Leaves(k, "release", s, v)
  BY <1>1, <1>5, <1>7, GoesOn DEF Leaves
<1>9. v.phase = sess[s].phase /\ v.workers = sess[s].workers \ {k} /\ v.refs = 0
      /\ ~v.alive /\ ~v.store
  <2>1. ASSUME NEW r \in SessionType
        PROVE  /\ Ended(r, k).phase = r.phase /\ Ended(r, k).workers = r.workers \ {k}
               /\ Ended(r, k).refs = 0 /\ ~Ended(r, k).alive /\ ~Ended(r, k).store
    <3>1. SessionFieldsOf(r, k)
      BY <2>1, SessionFieldsHold
    <3> QED
      BY <3>1 DEF SessionFieldsOf
  <2> QED
    BY <1>4, <1>6, <2>1
<1>10. sess[s].workers \ {k} = {} /\ Cardinality({}) = 0
  <2>1. sess[s].workers \in SUBSET Connections /\ Cardinality(sess[s].workers) = 1
    BY <1>2, <1>4 DEF SessionType, SessionGood
  <2> QED
    BY <1>4, <2>1, Counting, FS_EmptySet
<1>11. \A j \in Connections \ {k} : wp[j] = "last" => wsess[j] # s /\ holder'[wsess[j]] = {j}
  <2> TAKE j \in Connections \ {k}
  <2>1. WorkerGood(j)
    BY DEF ServerGood
  <2> QED
    BY <1>2, <1>5, <2>1 DEF WorkerGood, Inside, Types, ServerTypes
<1>12. closer.at \in {"workers", "stop", "wait"} =>
           closer.session # s /\ holder'[closer.session] = {"closer"}
  <2>1. ASSUME closer.at \in {"workers", "stop", "wait"}
        PROVE  closer.session \in Ids /\ holder[closer.session] = {"closer"}
    BY <2>1 DEF ServerGood, CloserGood, Types, ServerTypes, Closing
  <2>2. {k} # {"closer"}
    BY SessionsAssumption
  <2> QED
    BY <1>2, <1>5, <2>1, <2>2 DEF Types, ServerTypes
<1>13. LeftGood(k, "release", s, v)
  BY <1>9, <1>10, <1>11, <1>12 DEF LeftGood
<1> QED
  BY <1>1, <1>2, <1>8, <1>13, LeavesGood

\* The manager frees the session.
LEMMA ReleaseSessionGood ==
    ASSUME Types, ServerGood, NEW k \in Connections, ReleaseSession(k)
    PROVE  ServerGood'
<1>1. PICK s : s = wsess[k]
  OBVIOUS
<1>2. CASE Meets(k)
  BY <1>2, MeetsGood
<1>3. ASSUME ~Meets(k) PROVE ServerGood'
  <2>1. /\ wp[k] = "release" /\ s \in Ids /\ sess[s].workers = {} /\ connected[k] # "unused"
        /\ sess' = [sess EXCEPT ![s].phase = "freed"] /\ GoTo(k, "done")
        /\ UNCHANGED <<request, connected, holder, wsess, state, closer>>
    BY <1>1, <1>3 DEF ReleaseSession, ServerGood, WorkerGood, wires
  <2>2. PICK v : v = Freed(sess[s])
    OBVIOUS
  <2>3. sess' = [sess EXCEPT ![s] = v]
    BY <2>1, <2>2 DEF Freed, Types, ServerTypes
  <2>4. v.phase = "freed" /\ v.workers = sess[s].workers /\ v.refs = sess[s].refs
        /\ v.alive = sess[s].alive /\ v.store = sess[s].store /\ sess'[s] = v
    <3>1. ASSUME NEW r \in SessionType
          PROVE  /\ Freed(r).phase = "freed" /\ Freed(r).workers = r.workers
                 /\ Freed(r).refs = r.refs /\ Freed(r).alive = r.alive
                 /\ Freed(r).store = r.store
      BY SessionFields
    <3>2. sess[s] \in SessionType /\ sess'[s] = v
      BY <2>1, <2>3 DEF Types, ServerTypes
    <3> QED
      BY <2>2, <3>1, <3>2
  <2>5. Goes(k, "done", s)
    BY <1>1, <2>1, GoesOn
  <2>6. Others(k)
    BY <2>1 DEF Others
  <2>7. SessionGood(s)'
    <3>1. WorkersOf(s)' = WorkersOf(s)
      BY <2>1, <2>5, WorkersMoved DEF WorkersOf, Inside
    <3> QED
      BY <2>1, <2>4, <3>1 DEF ServerGood, SessionGood
  <2>8. WorkerGood(k)'
    BY <2>1, <2>5, WorkersMoved DEF WorkerGood, Inside
  <2>9. \A j \in Connections \ {k} :
            /\ wp[j] = "last" => holder'[wsess[j]] = {j} /\ (wsess[j] = s => v.refs = 1)
            /\ wp[j] = "release" /\ wsess[j] = s => v.phase # "none" /\ v.workers = {}
    BY <2>1, <2>4 DEF ServerGood, WorkerGood
  <2>10. closer.at \in {"workers", "stop", "wait"} =>
               /\ holder'[closer.session] = {"closer"}
               /\ closer.session = s => sess[s].workers \subseteq v.workers
    BY <2>1, <2>4 DEF ServerGood, CloserGood
  <2>11. closer' = closer /\ (wp[k] \in Inside => wsess[k] = s)
    BY <1>1, <2>1
  <2>12. SessionStep(k, "done", s, v)
    BY <2>3, <2>5, <2>6, <2>9, <2>10, <2>11 DEF SessionStep
  <2> QED
    BY <2>1, <2>7, <2>8, <2>12, SessionStepGood
<1> QED
  BY <1>2, <1>3

\* A step of the closer that leaves the sessions, their workers and the wires
ClosersStep == UNCHANGED <<sess, wp, wsess, request>> /\
    \A k \in Connections : connected'[k] = "unused" => connected[k] = "unused"

\* The lock stays with the last workers.
LEMMA CloserKeeps ==
    ASSUME Types, ServerGood, ClosersStep,
           \A k \in Connections : wp[k] = "last" => holder'[wsess[k]] = {k},
           \A k \in Connections : wp[k] \in {"detach", "last"} =>
               \/ state'[k] = "finished"
               \/ k \in closer'.worker /\ closer'.at \in {"wait", "failed"},
           CloserGood'
    PROVE  ServerGood'
<1>1. ASSUME NEW s \in Ids PROVE SessionGood(s)'
  BY DEF ClosersStep, ServerGood, SessionGood, WorkersOf
<1>2. ASSUME NEW k \in Connections PROVE WorkerGood(k)'
  BY DEF ClosersStep, ServerGood, WorkerGood
<1> QED
  BY <1>1, <1>2 DEF ServerGood

\* The closer releases the lock of the session when it throws.
LEMMA CloserThrowsGood ==
    ASSUME Types, ServerGood, CloserThrows, closer.at \in {"next", "workers", "wait"}
    PROVE  ServerGood'
<1>1. ClosersStep
  BY DEF ClosersStep, CloserThrows, Types, WireTypes
<1>2. closer'.at = "failed" /\ closer'.worker = closer.worker
  BY DEF CloserThrows, Types, ServerTypes, CloserType
<1>3. \A k \in Connections : wp[k] = "last" => holder'[wsess[k]] = {k}
  <2> TAKE k \in Connections
  <2>1. WorkerGood(k) /\ {k} \ {"closer"} = {k}
    BY SessionsAssumption DEF ServerGood
  <2> QED
    BY <2>1 DEF WorkerGood, Inside, CloserThrows
<1>4. \A k \in Connections : wp[k] \in {"detach", "last"} =>
               \/ state'[k] = "finished"
               \/ k \in closer'.worker /\ closer'.at \in {"wait", "failed"}
  BY <1>2 DEF ServerGood, WorkerGood, CloserThrows
<1>5. CloserGood'
  BY <1>2 DEF ServerGood, CloserGood
<1> QED
  BY <1>1, <1>3, <1>4, <1>5, CloserKeeps

\* The closer is not between two looks at a worker.
LEMMA NoWorker ==
    ASSUME ServerGood, closer.at \in {"off", "next", "lock", "workers"}
    PROVE  /\ closer.worker = {}
           /\ \A k \in Connections : wp[k] \in {"detach", "last"} => state[k] = "finished"
  BY DEF ServerGood, CloserGood, WorkerGood

\* The closer starts, and takes up a session.
LEMMA CloseSessionGood ==
    ASSUME Types, ServerGood, CloseManager \/ (\E s \in Ids : CloseSession(s)) \/ FinalizeServer
    PROVE  ServerGood'
<1>1. CASE CloserThrows /\ closer.at = "next"
  BY <1>1, CloserThrowsGood
<1>2. CASE \E x : Meets(x)
  BY <1>2, MeetsGood
<1>3. CASE /\ ClosersStep /\ UNCHANGED <<holder, state>> /\ closer.at \in {"off", "next"}
           /\ closer'.at \in {"next", "lock", "done"} /\ closer'.worker = closer.worker
  <2>1. CloserGood'
    BY <1>3, NoWorker DEF CloserGood
  <2>2. \A k \in Connections : wp[k] = "last" => holder'[wsess[k]] = {k}
    BY <1>3 DEF ServerGood, WorkerGood
  <2> QED
    BY <1>3, <2>1, <2>2, NoWorker, CloserKeeps
<1>4. CASE CloseManager
  BY <1>3, <1>4 DEF CloseManager, ClosersOwn, ClosersStep, wires, Types, ServerTypes, CloserType
<1>5. CASE FinalizeServer
  BY <1>3, <1>5 DEF FinalizeServer, ClosersStep, Types, ServerTypes, CloserType, WireTypes
<1>6. ASSUME NEW s \in Ids, CloseSession(s) PROVE ServerGood'
  BY <1>1, <1>2, <1>3, <1>6
     DEF CloseSession, ClosersOwn, ClosersStep, wires, Types, ServerTypes, CloserType
<1> QED
  BY <1>4, <1>5, <1>6

\* The closer takes the lock of a session and remembers its workers.
LEMMA CloserLocksGood ==
    ASSUME Types, ServerGood, CloserLocks
    PROVE  ServerGood'
<1>1. PICK s : s = closer.session
  OBVIOUS
<1>2. CASE Meets("closer")
  BY <1>2, MeetsGood
<1>3. ASSUME ~Meets("closer") PROVE ServerGood'
  <2>1. /\ closer.at = "lock" /\ holder[s] = {} /\ s \in Ids
        /\ holder' = [holder EXCEPT ![s] = {"closer"}]
        /\ closer' = [closer EXCEPT !.at = "workers", !.left = sess[s].workers]
        /\ ClosersStep /\ UNCHANGED state
    BY <1>1, <1>3 DEF CloserLocks, ClosersOwn, ClosersStep, wires, Types, ServerTypes, Closing
  <2>2. closer'.at = "workers" /\ closer'.left = sess[s].workers /\ closer'.session = s
        /\ closer'.worker = {}
    BY <1>1, <2>1, NoWorker DEF Types, ServerTypes, CloserType
  <2>3. holder'[s] = {"closer"}
    BY <2>1 DEF Types, ServerTypes
  <2>4. CloserGood'
    BY <2>1, <2>2, <2>3 DEF CloserGood, ClosersStep
  <2>5. \A k \in Connections : wp[k] = "last" => holder'[wsess[k]] = {k}
    BY <2>1 DEF ServerGood, WorkerGood, Inside, Types, ServerTypes
  <2> QED
    BY <2>1, <2>4, <2>5, NoWorker, CloserKeeps
<1> QED
  BY <1>2, <1>3

\* The closer looks at the state of a worker, writes it, and waits.
LEMMA CloserWorksGood ==
    ASSUME Types, ServerGood, NEW k \in Connections,
           CloserStops(k) \/ CloserSetsState(k) \/ CloserWaits(k)
    PROVE  ServerGood'
<1>1. CASE CloserThrows /\ closer.at \in {"workers", "wait"}
  BY <1>1, CloserThrowsGood
<1>2. ASSUME UNCHANGED holder
      PROVE  \A j \in Connections : wp[j] = "last" => holder'[wsess[j]] = {j}
  BY <1>2 DEF ServerGood, WorkerGood
<1>3. CASE CloserStops(k) /\ isRunning(k)
  <2>1. /\ closer' = [closer EXCEPT !.at = "stop", !.left = @ \ {k}, !.worker = {k}]
        /\ ClosersStep /\ UNCHANGED <<holder, state, sess>>
        /\ closer.at = "workers" /\ k \in closer.left
    BY <1>3 DEF CloserStops, ClosersOwn, ClosersStep, wires
  <2>2. closer'.at = "stop" /\ closer'.left = closer.left \ {k} /\ closer'.worker = {k}
        /\ closer'.session = closer.session
    BY <2>1 DEF Types, ServerTypes, CloserType
  <2>3. CloserGood'
    BY <2>1, <2>2 DEF ServerGood, CloserGood
  <2> QED
    BY <1>2, <2>1, <2>3, NoWorker, CloserKeeps
<1>4. CASE CloserSetsState(k)
  <2>1. /\ closer' = [closer EXCEPT !.at = "wait"] /\ state' = [state EXCEPT ![k] = "stopping"]
        /\ ClosersStep /\ UNCHANGED <<holder, sess>>
        /\ closer.at = "stop" /\ k \in closer.worker
    BY <1>4 DEF CloserSetsState, ClosersStep, Types, WireTypes
  <2>2. closer'.at = "wait" /\ closer'.left = closer.left /\ closer'.worker = closer.worker
        /\ closer'.session = closer.session
    BY <2>1 DEF Types, ServerTypes, CloserType
  <2>3. CloserGood'
    BY <2>1, <2>2 DEF ServerGood, CloserGood
  <2>4. \A j \in Connections : wp[j] \in {"detach", "last"} =>
               \/ state'[j] = "finished"
               \/ j \in closer'.worker /\ closer'.at \in {"wait", "failed"}
    BY <2>1, <2>2 DEF ServerGood, WorkerGood, Types, ServerTypes
  <2> QED
    BY <1>2, <2>1, <2>3, <2>4, CloserKeeps
<1>5. CASE CloserWaits(k) /\ state[k] = "finished"
  <2>1. /\ closer' = [closer EXCEPT !.at = "workers", !.worker = {}]
        /\ ClosersStep /\ UNCHANGED <<holder, state, sess>>
        /\ closer.at = "wait" /\ k \in closer.worker
    BY <1>5 DEF CloserWaits, ClosersOwn, ClosersStep, wires
  <2>2. closer'.at = "workers" /\ closer'.left = closer.left /\ closer'.worker = {}
        /\ closer'.session = closer.session
    BY <2>1 DEF Types, ServerTypes, CloserType
  <2>3. CloserGood'
    BY <2>1, <2>2 DEF ServerGood, CloserGood
  <2>4. \A j \in Connections : wp[j] \in {"detach", "last"} => state'[j] = "finished"
    BY <1>5, <2>1 DEF ServerGood, WorkerGood, CloserGood
  <2> QED
    BY <1>2, <2>1, <2>3, <2>4, CloserKeeps
<1> QED
  BY <1>1, <1>3, <1>4, <1>5 DEF CloserStops, CloserWaits

\* The closer leaves the session to its last worker, or frees it.
LEMMA CloserLeavesGood ==
    ASSUME Types, ServerGood, CloserLeaves
    PROVE  ServerGood'
<1>1. PICK s : s = closer.session
  OBVIOUS
<1>2. CASE Meets("closer")
  BY <1>2, MeetsGood
<1>3. ASSUME ~Meets("closer") PROVE ServerGood'
  <2>1. /\ closer.at = "workers" /\ s \in Ids /\ sess[s].phase = "open"
        /\ sess' = IF sess[s].refs > 0 THEN sess
                   ELSE [sess EXCEPT ![s].store = FALSE, ![s].alive = FALSE,
                                     ![s].phase = "freed"]
        /\ holder' = [holder EXCEPT ![s] = {}]
        /\ closer' = [closer EXCEPT !.at = "next"]
        /\ UNCHANGED <<request, connected, wp, wsess, state>>
    BY <1>1, <1>3 DEF CloserLeaves, wires, Types, ServerTypes, Closing
  <2>2. closer'.at = "next" /\ closer'.worker = {} /\ CloserGood'
    BY <2>1, NoWorker DEF Types, ServerTypes, CloserType, CloserGood
  <2>3. holder[s] = {"closer"}
    BY <1>1, <2>1 DEF ServerGood, CloserGood
  <2>4. \A k \in Connections : wp[k] = "last" => wsess[k] # s /\ holder'[wsess[k]] = {k}
    <3> TAKE k \in Connections
    <3>1. WorkerGood(k) /\ {k} # {"closer"}
      BY SessionsAssumption DEF ServerGood
    <3> QED
      BY <2>1, <2>3, <3>1 DEF WorkerGood, Inside, Types, ServerTypes
  <2>5. CASE sess' = sess
    <3>1. ClosersStep
      BY <2>1, <2>5 DEF ClosersStep
    <3> QED
      BY <2>1, <2>2, <2>4, <3>1, NoWorker, CloserKeeps
  <2>6. CASE ~(sess[s].refs > 0)
    <3>1. PICK v : v = Dropped(sess[s])
      OBVIOUS
    <3>2. sess' = [sess EXCEPT ![s] = v]
      BY <2>1, <2>6, <3>1 DEF Dropped, Types, ServerTypes
    <3>3. sess'[s] = v /\ \A t \in Ids \ {s} : sess'[t] = sess[t]
      BY <2>1, <3>2 DEF Types, ServerTypes
    <3>4. v.phase = "freed" /\ v.workers = sess[s].workers /\ v.refs = sess[s].refs
          /\ ~v.alive /\ ~v.store
      <4>1. ASSUME NEW r \in SessionType
            PROVE  /\ Dropped(r).phase = "freed" /\ Dropped(r).workers = r.workers
                   /\ Dropped(r).refs = r.refs /\ ~Dropped(r).alive /\ ~Dropped(r).store
        BY DEF Dropped, SessionType
      <4>2. sess[s] \in SessionType
        BY <2>1 DEF Types, ServerTypes
      <4> QED
        BY <3>1, <4>1, <4>2
    <3>5. SessionGood(s) /\ sess[s].workers = {}
      <4>1. SessionGood(s)
        BY <2>1 DEF ServerGood
      <4>2. sess[s].workers \in SUBSET Connections
        BY <2>1 DEF Types, ServerTypes, SessionType
      <4>3. Cardinality(sess[s].workers) \in 0..Cardinality(Connections)
            /\ (Cardinality(sess[s].workers) = 0 <=> sess[s].workers = {})
        BY <4>2, Counting
      <4> QED
        BY <2>6, <4>1, <4>3 DEF SessionGood
    <3>6. ASSUME NEW t \in Ids PROVE SessionGood(t)'
      <4>1. WorkersOf(t)' = WorkersOf(t)
        BY <2>1 DEF WorkersOf
      <4>2. CASE t = s
        BY <3>3, <3>4, <3>5, <4>1, <4>2 DEF SessionGood
      <4>3. CASE t # s
        BY <3>3, <4>1, <4>3, SessionLeft DEF ServerGood, SessionSame
      <4> QED
        BY <4>2, <4>3
    <3>7. ASSUME NEW k \in Connections PROVE WorkerGood(k)'
      <4>1. WorkerGood(k)
        BY DEF ServerGood
      <4>2. wp[k] \in {"detach", "last"} => state[k] = "finished"
        BY <2>1, NoWorker
      <4>3. wp[k] = "release" => sess'[wsess[k]].phase # "none" /\ sess'[wsess[k]].workers = {}
        BY <3>3, <3>4, <3>5, <4>1 DEF WorkerGood, Inside
      <4>4. wp[k] = "last" => holder'[wsess[k]] = {k} /\ sess'[wsess[k]].refs = 1
        BY <2>4, <3>3, <4>1 DEF WorkerGood, Inside
      <4> QED
        BY <2>1, <4>1, <4>2, <4>3, <4>4 DEF WorkerGood
    <3> QED
      BY <2>2, <3>6, <3>7 DEF ServerGood
  <2> QED
    BY <2>1, <2>5, <2>6
<1> QED
  BY <1>2, <1>3

\* A thread that has found a session knows it.
Found == \A c \in Clients : call[c].at = "find" => call[c].session \in Ids

ServerInv == Types /\ ServerGood /\ Found

\* What the application calls leaves the server good.
LEMMA CallGood ==
    ASSUME ServerInv, NEW c \in Clients, ClientCall(c)
    PROVE  ServerGood' /\ Found'
<1> USE DEF ServerInv
<1>1. CASE CreateSession(c)
  <2>1. Connect(c, "creating", 0, "create")
    BY <1>1 DEF CreateSession
  <2>2. ServerGood'
    BY <2>1, ConnectGood
  <2>3. Found'
    BY <2>1 DEF Found, Connect, Types, ClientTypes
  <2> QED
    BY <2>2, <2>3
<1>2. CASE Attach(c)
  <2>1. Connect(c, "opening", call[c].session, "open") /\ call[c].session \in Ids
    BY <1>2 DEF Attach, Found
  <2>2. ServerGood'
    BY <2>1, ConnectGood
  <2>3. Found'
    BY <2>1 DEF Found, Connect, Types, ClientTypes
  <2> QED
    BY <2>2, <2>3
<1>3. CASE AttachThrows(c) \/ \E s \in Ids : Find(c, s)
  <2>1. ServerGood'
    BY <1>3, ClientKeeps DEF AttachThrows, Find, FindSession, wires, server
  <2>2. Found'
    BY <1>3 DEF Found, AttachThrows, Find, FindSession, Types, ClientTypes
  <2> QED
    BY <2>1, <2>2
<1>4. ASSUME NEW at \in Waiting, NEW r \in Requests \ {"open"}, Continue(c, at, r)
      PROVE  ServerGood' /\ Found'
  <2>1. ServerGood'
    <3>1. UNCHANGED <<connected, sess, holder, wp, wsess, state, canCreate, closer, lost>>
      BY <1>4 DEF Continue, server
    <3>2. \A k \in Connections : request'[k] = "open" => request[k] = "open"
      BY <1>4 DEF Continue, Send, Types, WireTypes
    <3> QED
      BY <3>1, <3>2, ClientKeeps
  <2>2. Found'
    BY <1>4 DEF Found, Continue, Move, Types, ClientTypes, Waiting
  <2> QED
    BY <2>1, <2>2
<1>5. CASE OpenStore(c) \/ CloseStore(c) \/ Detach(c)
  BY <1>4, <1>5 DEF OpenStore, CloseStore, Detach, Requests, Waiting
<1>6. CASE LoseStore(c)
  <2>1. ServerGood'
    BY <1>6, ClientKeeps DEF LoseStore, wires, server
  <2>2. Found'
    BY <1>6 DEF Found, LoseStore, Move, Types, ClientTypes
  <2> QED
    BY <2>1, <2>2
<1> QED
  BY <1>1, <1>2, <1>3, <1>5, <1>6 DEF ClientCall

\* So does what the application learns, and its death.
LEMMA ReturnGood ==
    ASSUME ServerInv, (\E c \in Clients : ClientStep(c)) \/ Kill
    PROVE  ServerGood' /\ Found'
<1> USE DEF ServerInv
<1>1. CASE Kill
  <2>1. ServerGood'
    BY <1>1, ClientKeeps DEF Kill, server, Types, WireTypes
  <2>2. Found'
    BY <1>1 DEF Found, Kill
  <2> QED
    BY <2>1, <2>2
<1>2. ASSUME NEW c \in Clients, ClientStep(c)
      PROVE  ServerGood' /\ Found'
  <2>0. PICK k : k = CHOOSE j \in call[c].conn : TRUE
    OBVIOUS
  <2>1. UNCHANGED <<sess, holder, wp, wsess, state, canCreate, closer, lost>>
    <3>1. UNCHANGED server
      <4>1. CASE Reply(c)
        BY <4>1 DEF Reply
      <4>2. CASE CallThrows(c)
        BY <4>2 DEF CallThrows
      <4>3. CASE Release(c)
        BY <4>3 DEF Release
      <4> QED
        BY <1>2, <4>1, <4>2, <4>3 DEF ClientStep
    <3> QED
      BY <3>1 DEF server
  <2>2. \A j \in Connections : connected'[j] = "unused" => connected[j] = "unused"
    <3>1. connected' = connected \/ Hangup(c)
      <4>1. CASE Reply(c)
        BY <4>1 DEF Reply
      <4>2. CASE CallThrows(c)
        BY <4>2 DEF CallThrows
      <4>3. CASE Release(c)
        BY <4>3 DEF Release, wires
      <4> QED
        BY <1>2, <4>1, <4>2, <4>3 DEF ClientStep
    <3> QED
      BY <3>1 DEF Hangup, Types, WireTypes
  <2>3. \A j \in Connections : request'[j] = "open" => request[j] = "open"
    <3>1. \/ request' = request
          \/ \E r \in {"store", "close"} : request' = [request EXCEPT ![k] = r]
      <4>1. CASE Reply(c)
        BY <2>0, <4>1 DEF Reply, Send
      <4>2. CASE CallThrows(c)
        BY <2>0, <4>2 DEF CallThrows, Send
      <4>3. CASE Release(c)
        BY <4>3 DEF Release, wires
      <4> QED
        BY <1>2, <4>1, <4>2, <4>3 DEF ClientStep
    <3> QED
      BY <3>1 DEF Types, WireTypes
  <2>4. Found'
    <3>1. \/ \E v : call' = [call EXCEPT ![c] = [at |-> "out", conn |-> {}, session |-> v]]
          \/ \E at \in Places \ {"find"} : Move(c, at)
          \/ \E v : call' = [call EXCEPT ![c].at = "in", ![c].session = v]
          \/ call' = [call EXCEPT ![c].at = "release", ![c].conn = {}]
      <4>1. CASE Reply(c)
        BY <4>1 DEF Reply, Places, Waiting
      <4>2. CASE CallThrows(c)
        BY <4>2 DEF CallThrows, Places, Waiting
      <4>3. CASE Release(c)
        BY <4>3 DEF Release
      <4> QED
        BY <1>2, <4>1, <4>2, <4>3 DEF ClientStep
    <3>2. \A d \in Clients \ {c} : call'[d] = call[d]
      BY <3>1 DEF Move, Types, ClientTypes
    <3>3. call'[c].at # "find"
      BY <3>1 DEF Move, Types, ClientTypes, CallType
    <3> QED
      BY <3>2, <3>3 DEF Found
  <2> QED
    BY <2>1, <2>2, <2>3, <2>4, ClientKeeps
<1> QED
  BY <1>1, <1>2

\* Every step of a worker keeps the server good.
LEMMA WorkerStepGood ==
    ASSUME Types, ServerGood, NEW k \in Connections, WorkerAct(k)
    PROVE  ServerGood'
  BY HandleSessionCreateGood, HandleSessionOpenGood, AttachSessionGood, ThreadGood, ServedGood,
     DetachWorkerGood, DetachStoreThrowsGood, DetachLastGood, ReleaseSessionGood
     DEF WorkerAct, PlainStep

\* Every step of SessionManager::close keeps the server good.
LEMMA CloserStepGood ==
    ASSUME Types, ServerGood, CloseManager \/ CloserStep
    PROVE  ServerGood'
  BY CloseSessionGood, CloserLocksGood, CloserWorksGood, CloserLeavesGood DEF CloserStep

\* The server leaves the calls of the client alone.
LEMMA ServerKeeps ==
    ASSUME (\E k \in Connections : WorkerAct(k)) \/ CloseManager \/ CloserStep
    PROVE  UNCHANGED client
<1>1. ASSUME NEW k \in Connections, WorkerAct(k) PROVE UNCHANGED client
  <2> USE DEF Meets, Served, Terminate
  <2>1. CASE \/ HandleSessionCreate(k) \/ HandleSessionOpen(k) \/ AttachSession(k)
             \/ WorkerStart(k) \/ LeaveLoop(k) \/ Drop(k) \/ Finish(k)
    BY <2>1 DEF HandleSessionCreate, HandleSessionOpen, AttachSession, WorkerStart,
                LeaveLoop, Drop, Finish
  <2>2. CASE \/ HandleSetConfiguration(k) \/ HandleStoreCreate(k)
             \/ NothingToClose(k) \/ CloseStoreDone(k) \/ HandleSessionClose(k)
    BY <2>2 DEF HandleSetConfiguration, HandleStoreCreate, NothingToClose, CloseStoreDone,
                HandleSessionClose
  <2>3. CASE DetachWorker(k) \/ DetachStoreThrows(k) \/ DetachLast(k) \/ ReleaseSession(k)
    BY <2>3 DEF DetachWorker, DetachStoreThrows, DetachLast, ReleaseSession
  <2> QED
    BY <1>1, <2>1, <2>2, <2>3 DEF WorkerAct, PlainStep
<1>2. ASSUME CloseManager \/ CloserStep PROVE UNCHANGED client
  <2>1. CASE CloseManager \/ CloserLocks \/ CloserLeaves \/ FinalizeServer
    BY <2>1 DEF CloseManager, CloserLocks, CloserLeaves, FinalizeServer, Meets, ClosersOwn
  <2>2. CASE \/ \E s \in Ids : CloseSession(s)
             \/ \E k \in Connections : CloserStops(k) \/ CloserSetsState(k) \/ CloserWaits(k)
    BY <2>2 DEF CloseSession, CloserStops, CloserSetsState, CloserWaits, CloserThrows, Meets, ClosersOwn
  <2> QED
    BY <1>2, <2>1, <2>2 DEF CloserStep
<1> QED
  BY <1>1, <1>2

\* The invariant of the server holds before the first connection.
LEMMA ServerInvInit ==
    ASSUME Init PROVE ServerInv
<1>1. Types
  <2>1. ClientTypes
    BY DEF Init, NoClient, ClientTypes, ClientType, CallType, Places, Waiting, Phases
  <2>2. WireTypes
    BY DEF Init, WireTypes, Requests, Answers
  <2>3. closer \in CloserType /\ Closing(closer)
    BY DEF Init, CloserType, Closing
  <2>4. sess \in [Ids -> SessionType]
    BY DEF Init, SessionType, Phases
  <2>5. ServerTypes
    BY <2>3, <2>4 DEF Init, ServerTypes, Progress, States
  <2> QED
    BY <2>1, <2>2, <2>5 DEF Types
<1>2. Cardinality({}) = 0
  BY FS_EmptySet
<1>3. ASSUME NEW s \in Ids PROVE SessionGood(s)
  BY <1>2 DEF Init, SessionGood, WorkersOf, Inside
<1>4. ASSUME NEW k \in Connections PROVE WorkerGood(k)
  BY DEF Init, WorkerGood, Inside
<1>5. CloserGood
  BY DEF Init, CloserGood
<1>6. Found
  BY DEF Init, Found
<1> QED
  BY <1>1, <1>3, <1>4, <1>5, <1>6 DEF ServerInv, ServerGood

\* Every step of the two processes keeps the invariant of the server.
LEMMA ServerInvKept ==
    ASSUME ServerInv, [Next]_vars PROVE ServerInv'
<1>1. Types'
  BY TypesKept DEF ServerInv
<1>2. CASE UNCHANGED <<client, wires, server>>
  <2>1. ServerGood'
    BY <1>2, ClientKeeps DEF wires, server, ServerInv
  <2>2. Found'
    BY <1>2 DEF client, ServerInv, Found
  <2> QED
    BY <1>1, <2>1, <2>2 DEF ServerInv
<1>3. CASE (\E k \in Connections : WorkerAct(k)) \/ CloseManager \/ CloserStep
  <2>1. ServerGood'
    BY <1>3, WorkerStepGood, CloserStepGood DEF ServerInv
  <2>2. Found'
    BY <1>3, ServerKeeps DEF ServerInv, Found, client
  <2> QED
    BY <1>1, <2>1, <2>2 DEF ServerInv
<1>4. CASE (\E c \in Clients : ClientStep(c)) \/ Kill
  BY <1>1, <1>4, ReturnGood DEF ServerInv
<1>5. ASSUME NEW c \in Clients, ClientCall(c)
      PROVE  ServerInv'
  BY <1>1, <1>5, CallGood DEF ServerInv
<1> QED
  BY <1>2, <1>3, <1>4, <1>5, WorkerActs DEF Next, vars

\* The server counts the workers of its sessions, their locks exclude each
\* other, and only a thread that has finished detaches (Session::attach,
\* Session::detach, SessionManager::close).
THEOREM ServerHolds == Spec => []ServerInv
  BY ServerInvInit, ServerInvKept, PTL DEF Spec

\* What the workers note about the stores they close keeps its type.
LEMMA StoreTypesKept ==
    ASSUME Types, StoreTypes, ServerGood, [Next]_vars PROVE StoreTypes'
<1> USE DEF StoreTypes, stores
<1>1. CASE UNCHANGED stores
  BY <1>1
<1>2. ASSUME NEW k \in Connections, CloseStep(k) PROVE StoreTypes'
  <2>1. CASE CloseStoreDone(k)
    <3>1. wsess[k] \in Ids
      BY <2>1 DEF CloseStoreDone, ServerGood, WorkerGood, Inside
    <3>2. unclosed' \in {unclosed, unclosed \cup {wsess[k]}} /\ dropped' = dropped
          /\ closing' = [closing EXCEPT ![k] = "no"]
      BY <2>1 DEF CloseStoreDone, EndClose
    <3> QED
      BY <3>1, <3>2
  <2>2. CASE HandleStoreClose(k) \/ MissWakeup(k) \/ DetachStoreOfLast(k)
    BY <2>2 DEF HandleStoreClose, MissWakeup, DetachStoreOfLast, BeginClose
  <2>3. CASE Drop(k) \/ DetachStoreThrows(k) \/ DetachLast(k)
    BY <2>3 DEF Drop, DetachStoreThrows, DetachLast, EndClose
  <2> QED
    BY <1>2, <2>1, <2>2, <2>3 DEF CloseStep
<1> QED
  BY <1>1, <1>2 DEF Next, vars, ClientCall, ClientStep, WorkerStep, CloserStep

\* The types of the proofs and the count of the workers give those of the model.
LEMMA TypesOk ==
    ASSUME ServerInv, StoreTypes PROVE TypeOK
<1> USE DEF ServerInv, Types
<1>1. ASSUME NEW s \in Ids PROVE sess[s].refs \in 0..Cardinality(Connections)
  <2>1. sess[s].workers \in SUBSET Connections
    BY DEF ServerTypes, SessionType
  <2> QED
    BY <2>1, Counting DEF ServerGood, SessionGood
<1>2. sess \in [Ids -> [phase : Phases, alive : BOOLEAN, refs : 0..Cardinality(Connections),
                        workers : SUBSET Connections, store : BOOLEAN]]
  BY <1>1 DEF ServerTypes, SessionType
<1>3. /\ cl \in [Ids -> [phase : Phases, alive : BOOLEAN, threads : SUBSET Clients,
                         store : BOOLEAN]]
      /\ call \in [Clients -> [at : Waiting \cup {"out", "find", "in", "release", "broken", "dead"},
                               conn : SUBSET Connections, session : Ids \cup {0}]]
      /\ died \in BOOLEAN
  BY DEF ClientTypes, ClientType, CallType, Places
<1>4. WireTypes /\ ServerTypes
  OBVIOUS
<1> QED
  BY <1>2, <1>3, <1>4 DEF TypeOK, WireTypes, ServerTypes, Requests, Answers, Progress, States,
                          CloserType, StoreTypes

\* The state of the client, of the connections and of the server has its type;
\* above all, a session never counts more threads than there are connections.
THEOREM TypeCorrect == Spec => []TypeOK
<1>1. Init => StoreTypes
  BY DEF Init, StoreTypes
<1>2. ServerInv /\ StoreTypes /\ [Next]_vars => StoreTypes'
  BY StoreTypesKept DEF ServerInv
<1> QED
  BY <1>1, <1>2, ServerHolds, TypesOk, PTL DEF Spec

\* A session of the server whose lock is free counts what it has.
LEMMA Counted ==
    ASSUME ServerInv PROVE RefsAreWorkers
<1>1. SUFFICES ASSUME NEW s \in Ids
               PROVE  /\ sess[s].phase = "open" /\ holder[s] = {} =>
                             /\ sess[s].refs = Cardinality(sess[s].workers)
                             /\ sess[s].alive <=> sess[s].refs > 0
                      /\ sess[s].phase = "freed" => sess[s].workers = {} /\ ~sess[s].store
  BY DEF RefsAreWorkers
<1>2. SessionGood(s)
  BY DEF ServerInv, ServerGood
<1>3. sess[s].workers \in SUBSET Connections
  BY DEF ServerInv, Types, ServerTypes, SessionType
<1>4. PICK n : n = Cardinality(sess[s].workers)
  OBVIOUS
<1>5. n \in Nat /\ (n = 0 <=> sess[s].workers = {})
  BY <1>3, <1>4, Counting, SessionsAssumption, FS_CardinalityType
<1>6. sess[s].refs = n /\ (sess[s].alive <=> sess[s].workers # {})
  BY <1>2, <1>4 DEF SessionGood
<1>7. sess[s].alive <=> sess[s].refs > 0
  BY <1>5, <1>6
<1> QED
  BY <1>2, <1>4, <1>6, <1>7 DEF SessionGood

\* Whenever the lock of a session is free, _referenceCount is the number of its
\* workers, it is alive as long as there is one, and a session that is freed has
\* neither worker nor store (Session::attach, Session::detach, Session::close).
THEOREM RefsCountWorkers == Spec => []RefsAreWorkers
  BY ServerHolds, Counted, PTL

\* Session::_detach never finds a worker that still runs: what ThreadBase::stop
\* writes over the state of a thread that has just finished is not seen, because
\* the closer holds the lock of the session meanwhile.
THEOREM DetachNeverThrows == Spec => []DetachAccepted
<1>1. ServerInv => DetachAccepted
  BY HasFinished DEF ServerInv, DetachAccepted
<1> QED
  BY <1>1, ServerHolds, PTL

-----------------------------------------------------------------------------
(* The client and its conversation with the server.                        *)

\* A thread that is part of a session and not on its way out
InSession == {"in", "configuring", "storing", "unstoring", "emptying"}

\* What holds the lock of the session, and what that of the store
Exclusive == {"opening", "emptying", "leaving"}
Storing == {"configuring", "storing", "unstoring", "emptying"}

\* The request a thread waits for
Asked(at, r) ==
    /\ at = "configuring" => r = "configure"
    /\ at = "storing" => r = "store"
    /\ at \in {"unstoring", "emptying"} => r = "unstore"

\* The worker of a connection takes requests, or gave the connection up.
Attends(k) == wp[k] = "serve" /\ state[k] = "running"
GaveUp(k) == wp[k] \in {"finish", "detach", "last"}

\* A connection that stands: who waits for whom
Talk(c, k) ==
    /\ call[c].at = "creating" =>
         \/ wp[k] = "request" /\ request[k] = "create" /\ reply[k] = "none" /\ wsess[k] = 0
         \/ /\ wp[k] = "starting" /\ state[k] = "starting" /\ wsess[k] \in Ids
            /\ request[k] = "none" /\ reply[k] = "none"
         \/ /\ wp[k] = "serve" /\ state[k] = "running" /\ wsess[k] \in Ids
            /\ request[k] = "none" /\ reply[k] = "ok"
    /\ call[c].at = "opening" =>
         \/ wp[k] \in {"request", "attach"} /\ request[k] = "open" /\ reply[k] = "none"
         \/ /\ wp[k] = "starting" /\ state[k] = "starting"
            /\ request[k] = "none" /\ reply[k] = "none"
         \/ /\ wp[k] = "serve" /\ state[k] = "running"
            /\ request[k] = "none" /\ reply[k] = "ok"
    /\ call[c].at = "in" => Attends(k) /\ request[k] = "none"
    /\ call[c].at \in Storing =>
         \/ (Attends(k) \/ GaveUp(k)) /\ Asked(call[c].at, request[k]) /\ reply[k] = "none"
         \/ Attends(k) /\ request[k] = "none" /\ reply[k] \in {"ok", "failed"}
    /\ call[c].at = "leaving" =>
         \/ (Attends(k) \/ GaveUp(k)) /\ request[k] = "close" /\ reply[k] = "none"
         \/ request[k] = "none" /\ reply[k] = "ok"

\* The first request of thread c, which the pool has not handed over yet
Pending(c, k) ==
    /\ reply[k] = "none"
    /\ \/ call[c].at = "creating" /\ request[k] = "create"
       \/ call[c].at = "opening" /\ request[k] = "open"

\* A thread and its connection
Link(c) ==
    /\ call[c].at \in Waiting \cup {"in", "broken"} => \E k \in Connections : call[c].conn = {k}
    /\ call[c].at \in {"out", "find", "release", "dead"} => call[c].conn = {}
    /\ call[c].at \in (Waiting \ {"creating"}) \cup {"find", "in", "broken", "release"} =>
           call[c].session \in Ids
    /\ call[c].at \in {"out", "creating", "dead"} => call[c].session = 0
    /\ \A k \in call[c].conn :
         /\ connected[k] # "unused"
         /\ call[c].at # "creating" => wsess[k] = call[c].session
         /\ call[c].at = "creating" /\ reply[k] = "ok" => wsess[k] \in Ids
         /\ connected[k] = "yes" => Talk(c, k)
         /\ wp[k] \in {"request", "attach"} => Pending(c, k)

Distinct == \A c, d \in Clients : c # d => call[c].conn \cap call[d].conn = {}

\* Requests are not taken any more when the closer starts.
Early == \A k \in Connections : wp[k] \in {"request", "attach"} => closer.at = "off"

\* The session a thread creates: the client does not know it yet.
Fresh(c) ==
    call[c].at = "creating" => \A k \in call[c].conn : wsess[k] # 0 =>
        /\ cl[wsess[k]].phase = "none" /\ sess[wsess[k]].phase # "none"
        /\ \A d \in Clients : call[d].session # wsess[k]

\* The threads that are part of session s
Threads(s) ==
    {c \in Clients : call[c].session = s /\ call[c].at \in InSession \cup {"leaving", "broken"}}

ClientSession(s) ==
    /\ cl[s].threads = Threads(s)
    /\ cl[s].alive <=> cl[s].threads # {}
    /\ cl[s].phase # "none" => sess[s].phase # "none"
    /\ cl[s].phase = "none" => cl[s].threads = {}

\* The locks exclude each other.
Rules(c, d) ==
    /\ call[c].at = "creating" /\ call[d].at = "creating" => c = d
    /\ call[c].session = call[d].session /\ call[c].at \in Exclusive /\ call[d].at \in Exclusive
           => c = d
    /\ call[c].session = call[d].session /\ call[c].at \in Storing /\ call[d].at \in Storing
           => c = d

Opening(c) ==
    /\ call[c].at = "opening" => cl[call[c].session].alive
    /\ call[c].session # 0 => cl[call[c].session].phase # "none"
    /\ call[c].at = "leaving" /\ cl[call[c].session].threads = {c} => ~cl[call[c].session].store

ClientInv ==
    /\ Distinct /\ Early
    /\ \A c \in Clients : Link(c) /\ Fresh(c) /\ Opening(c)
    /\ \A c, d \in Clients : Rules(c, d)
    /\ \A s \in Ids : ClientSession(s)

-----------------------------------------------------------------------------
(* As long as the client lives, the server is up and no worker has given   *)
(* up a connection whose peer is there.                                    *)

Quiet == ~died /\ closer.at = "off" /\ dropped = {}

\* The server has no store, unless it could not close it.
NoStore(s) == s \in unclosed \/ ~sess[s].store

\* A connection stands until its thread has left, only the create and the close
\* of a store fail, and both sides know whether a store is open.
Calm(c) ==
    /\ call[c].at # "broken"
    /\ \A k \in call[c].conn :
         /\ call[c].at # "leaving" => connected[k] = "yes"
         /\ connected[k] = "yes" \/ (request[k] = "none" /\ reply[k] = "ok")
         /\ GaveUp(k) => request[k] = "none"
         /\ reply[k] = "failed" => call[c].at \in {"storing", "unstoring", "emptying"}
         /\ call[c].at = "creating" /\ wsess[k] # 0 => ~sess[wsess[k]].store
         /\ call[c].at = "configuring" =>
                ~cl[call[c].session].store /\ NoStore(call[c].session)
         /\ call[c].at = "storing" =>
                /\ ~cl[call[c].session].store
                /\ reply[k] # "ok" => NoStore(call[c].session)
                /\ reply[k] = "ok" => sess[call[c].session].store
         /\ call[c].at \in {"unstoring", "emptying"} =>
                /\ reply[k] = "ok" => ~sess[call[c].session].store
                /\ reply[k] = "failed" => call[c].session \in unclosed

\* Where nobody is at the store, the client has it only if the server has it,
\* and the server alone only if it could not close it.
Agreed(s) ==
    cl[s].alive /\ StoreFree(s) =>
        /\ cl[s].store => sess[s].store
        /\ cl[s].store \/ NoStore(s)

\* Every request has a client, and every session is released once.
Wanted(k) ==
    /\ request[k] # "none" \/ wp[k] \in {"request", "attach"} =>
           \E c \in Clients : k \in call[c].conn
    /\ wp[k] = "release" => /\ sess[wsess[k]].phase = "open"
                            /\ \A j \in Connections :
                                   wp[j] = "release" /\ wsess[j] = wsess[k] => j = k

QuietInv ==
    /\ canCreate /\ lost = {}
    /\ \A c \in Clients : Calm(c)
    /\ \A s \in Ids : Agreed(s)
    /\ \A k \in Connections : Wanted(k)

QInv == Quiet => QuietInv

WireSame(k) ==
    /\ request'[k] = request[k] /\ reply'[k] = reply[k] /\ connected'[k] = connected[k]
    /\ wp'[k] = wp[k] /\ wsess'[k] = wsess[k] /\ state'[k] = state[k]

\* A thread whose connection nobody touches
LEMMA LinkLeft ==
    ASSUME NEW c \in Clients, Link(c), call'[c] = call[c],
           \A k \in call[c].conn : WireSame(k)
    PROVE  Link(c)'
<1>1. ASSUME NEW k \in call[c].conn, Talk(c, k) PROVE Talk(c, k)'
  BY <1>1 DEF Talk, WireSame, Asked, Attends, GaveUp
<1> QED
  BY <1>1 DEF Link, WireSame, Pending

Member(c, s) == call[c].session = s /\ call[c].at \in InSession \cup {"leaving", "broken"}

\* What a step of thread c leaves to the others
MovesAlone(c) ==
    /\ \A d \in Clients \ {c} : call'[d] = call[d] /\ \A k \in call[d].conn : WireSame(k)
    /\ \A k \in call'[c].conn : k \in call[c].conn \/ connected[k] = "unused"
    /\ sess' = sess /\ Early'

\* What it does with the sessions of the client
MovesSessions(c) ==
    /\ \A t \in Ids : t # call[c].session /\ t # call'[c].session => cl'[t] = cl[t]
    /\ \/ call'[c].session \in {0, call[c].session}
       \/ call[c].at = "creating"
       \/ cl[call'[c].session].phase # "none"
    /\ \A t \in Ids :
         /\ cl[t].phase # "none" => cl'[t].phase # "none"
         /\ cl'[t].threads = (cl[t].threads \ {c}) \cup (IF Member(c, t)' THEN {c} ELSE {})
         /\ cl'[t].alive <=> cl'[t].threads # {}
         /\ cl'[t].phase # "none" => sess[t].phase # "none"
         /\ cl'[t].phase = "none" => cl'[t].threads = {}
         /\ cl[t].alive /\ ~cl'[t].alive => call[c].at = "leaving" /\ call[c].session = t
         /\ \/ cl'[t].threads = cl[t].threads \/ c \in cl'[t].threads
            \/ call[c].at = "leaving" /\ call[c].session = t
         /\ cl'[t].store => cl[t].store \/ c \in cl'[t].threads

\* The locks it takes
MovesRules(c) ==
    /\ call'[c].at = "creating" => ManagerFree
    /\ call'[c].at \in Exclusive =>
         \/ SessionFree(call'[c].session)
         \/ call[c].at \in Exclusive /\ call'[c].session = call[c].session
    /\ call'[c].at \in Storing =>
         \/ StoreFree(call'[c].session)
         \/ call[c].at \in Storing /\ call'[c].session = call[c].session

\* The locks of the client still exclude each other after a step of thread c.
LEMMA RulesKept ==
    ASSUME ClientInv, NEW c \in Clients, MovesAlone(c), MovesRules(c)
    PROVE  \A d, e \in Clients : Rules(d, e)'
<1>1. ASSUME NEW d \in Clients, d # c
      PROVE  Rules(c, d)' /\ Rules(d, c)'
  <2>1. call'[d] = call[d]
    BY <1>1 DEF MovesAlone
  <2>2. Rules(c, d)
    BY DEF ClientInv
  <2>3. ~(call'[c].at = "creating" /\ call'[d].at = "creating")
    BY <2>1 DEF MovesRules, ManagerFree
  <2>4. ~(call'[c].session = call'[d].session /\ call'[c].at \in Exclusive
          /\ call'[d].at \in Exclusive)
    BY <1>1, <2>1, <2>2 DEF MovesRules, SessionFree, Rules, Exclusive
  <2>5. ~(call'[c].session = call'[d].session /\ call'[c].at \in Storing
          /\ call'[d].at \in Storing)
    BY <1>1, <2>1, <2>2 DEF MovesRules, StoreFree, Rules, Storing
  <2> QED
    BY <2>3, <2>4, <2>5 DEF Rules
<1>2. ASSUME NEW d \in Clients, NEW e \in Clients, d # c, e # c
      PROVE  Rules(d, e)'
  BY <1>2 DEF ClientInv, MovesAlone, Rules
<1>3. Rules(c, c)'
  BY DEF Rules
<1> QED
  BY <1>1, <1>2, <1>3

\* A step of thread c that keeps its own part keeps the invariant of the client.
LEMMA ClientMovesGood ==
    ASSUME Types, Types', ClientInv, NEW c \in Clients,
           MovesAlone(c), MovesSessions(c), MovesRules(c),
           Link(c)', Fresh(c)', Opening(c)'
    PROVE  ClientInv'
<1>1. Distinct'
  <2>1. ASSUME NEW d \in Clients, d # c
        PROVE  call'[c].conn \cap call'[d].conn = {}
    <3>1. call'[d].conn = call[d].conn /\ \A k \in call[d].conn : connected[k] # "unused"
      BY <2>1 DEF MovesAlone, ClientInv, Link
    <3>2. call[c].conn \cap call[d].conn = {}
      BY <2>1 DEF ClientInv, Distinct
    <3> QED
      BY <3>1, <3>2 DEF MovesAlone
  <2>2. ASSUME NEW d \in Clients, NEW e \in Clients, d # c, e # c, d # e
        PROVE  call'[d].conn \cap call'[e].conn = {}
    BY <2>2 DEF MovesAlone, ClientInv, Distinct
  <2> QED
    BY <2>1, <2>2 DEF Distinct
<1>2. Early'
  BY DEF MovesAlone
<1>3. ASSUME NEW d \in Clients, d # c PROVE Link(d)'
  BY <1>3, LinkLeft DEF ClientInv, MovesAlone
<1>4. ASSUME NEW d \in Clients, d # c PROVE Fresh(d)'
  <2>1. SUFFICES ASSUME call[d].at = "creating", NEW k \in call[d].conn, wsess[k] # 0
                 PROVE  /\ cl'[wsess[k]].phase = "none" /\ sess'[wsess[k]].phase # "none"
                        /\ \A e \in Clients : call'[e].session # wsess[k]
    BY <1>4 DEF MovesAlone, WireSame, Fresh
  <2>2. /\ cl[wsess[k]].phase = "none" /\ sess[wsess[k]].phase # "none"
        /\ \A e \in Clients : call[e].session # wsess[k]
    BY <2>1 DEF ClientInv, Fresh
  <2>3. call[c].at # "creating"
    BY <1>4, <2>1 DEF ClientInv, Rules
  <2>4. call'[c].session # wsess[k]
    BY <2>1, <2>2, <2>3 DEF MovesSessions
  <2>5. wsess[k] \in Ids
    BY <1>4, <2>1 DEF Types, ServerTypes, ClientTypes, CallType
  <2>6. cl'[wsess[k]] = cl[wsess[k]]
    BY <2>2, <2>4, <2>5 DEF MovesSessions
  <2> QED
    BY <2>2, <2>4, <2>6 DEF MovesAlone
<1>5. ASSUME NEW d \in Clients, d # c PROVE Opening(d)'
  <2>1. call'[d] = call[d] /\ Opening(d) /\ Link(d) /\ Rules(c, d)
    BY <1>5 DEF ClientInv, MovesAlone
  <2>2. PICK t : t = call[d].session
    OBVIOUS
  <2>3. t \in Ids \cup {0}
    BY <2>2 DEF Types, ClientTypes, CallType
  <2>4. call[d].at = "opening" => cl'[t].alive
    <3>1. ASSUME call[d].at = "opening" PROVE cl'[t].alive
      <4>1. t \in Ids /\ cl[t].alive
        BY <2>1, <2>2, <3>1 DEF Opening, Link, Waiting
      <4>2. ~(call[c].at = "leaving" /\ call[c].session = t)
        BY <1>5, <2>1, <2>2, <3>1 DEF Rules, Exclusive
      <4> QED
        BY <4>1, <4>2 DEF MovesSessions
    <3> QED
      BY <3>1
  <2>5. t # 0 => cl'[t].phase # "none"
    BY <2>1, <2>2, <2>3 DEF Opening, MovesSessions
  <2>6. call[d].at = "leaving" /\ cl'[t].threads = {d} => ~cl'[t].store
    <3>1. ASSUME call[d].at = "leaving", cl'[t].threads = {d} PROVE ~cl'[t].store
      <4>1. t \in Ids
        BY <2>1, <2>2, <3>1 DEF Link, Waiting
      <4>2. ~(call[c].at = "leaving" /\ call[c].session = t)
        BY <1>5, <2>1, <2>2, <3>1 DEF Rules, Exclusive
      <4>3. c \notin cl'[t].threads
        BY <1>5, <3>1
      <4>4. cl[t].threads = {d} /\ (cl'[t].store => cl[t].store)
        BY <3>1, <4>1, <4>2, <4>3 DEF MovesSessions
      <4> QED
        BY <2>1, <2>2, <3>1, <4>4 DEF Opening
    <3> QED
      BY <3>1
  <2> QED
    BY <2>1, <2>2, <2>4, <2>5, <2>6 DEF Opening
<1>6. ASSUME NEW t \in Ids PROVE ClientSession(t)'
  <2>1. Threads(t)' = (Threads(t) \ {c}) \cup (IF Member(c, t)' THEN {c} ELSE {})
    BY DEF MovesAlone, Threads, Member
  <2>2. cl[t].threads = Threads(t)
    BY DEF ClientInv, ClientSession
  <2>3. sess'[t] = sess[t]
    BY DEF MovesAlone
  <2> QED
    BY <2>1, <2>2, <2>3 DEF MovesSessions, ClientSession
<1>7. \A d, e \in Clients : Rules(d, e)'
  BY RulesKept
<1> QED
  BY <1>1, <1>2, <1>3, <1>4, <1>5, <1>6, <1>7 DEF ClientInv

\* A step that leaves the sessions of the client alone
LEMMA SessionsStay ==
    ASSUME Types, ClientInv, NEW c \in Clients, cl' = cl,
           \A t \in Ids : Member(c, t)' <=> Member(c, t),
           call'[c].session \in {0, call[c].session} \/ cl[call'[c].session].phase # "none"
    PROVE  MovesSessions(c)
<1>1. ASSUME NEW t \in Ids
      PROVE  cl[t].threads = (cl[t].threads \ {c}) \cup (IF Member(c, t)' THEN {c} ELSE {})
  <2>1. c \in cl[t].threads <=> Member(c, t)
    BY DEF ClientInv, ClientSession, Threads, Member
  <2> QED
    BY <2>1
<1>2. ASSUME NEW t \in Ids
      PROVE  /\ cl[t].alive <=> cl[t].threads # {}
             /\ cl[t].phase # "none" => sess[t].phase # "none"
             /\ cl[t].phase = "none" => cl[t].threads = {}
  BY DEF ClientInv, ClientSession
<1> QED
  BY <1>1, <1>2 DEF MovesSessions

\* A new connection
LEMMA ConnectMoves ==
    ASSUME ServerInv, Types', ClientInv, NEW c \in Clients, NEW s \in Ids \cup {0},
           \/ /\ Connect(c, "creating", 0, "create") /\ s = 0 /\ ManagerFree
           \/ /\ Connect(c, "opening", s, "open") /\ s \in Ids
              /\ SessionFree(s) /\ cl[s].alive /\ cl[s].phase # "none",
           call[c].at \in {"out", "find"}
    PROVE  ClientInv' /\ MovesAlone(c)
<1> USE DEF ServerInv
<1>1. PICK k : k = CHOOSE j \in Unused : TRUE
  OBVIOUS
<1>2. PICK at, r : /\ Connect(c, at, s, r)
                   /\ \/ at = "creating" /\ r = "create" /\ s = 0
                      \/ at = "opening" /\ r = "open" /\ s \in Ids
  OBVIOUS
<1>3. /\ k \in Connections /\ connected[k] = "unused" /\ closer.at = "off"
      /\ call' = [call EXCEPT ![c] = [at |-> at, conn |-> {k}, session |-> s]]
      /\ connected' = [connected EXCEPT ![k] = "yes"]
      /\ request' = [request EXCEPT ![k] = r] /\ reply' = [reply EXCEPT ![k] = "none"]
      /\ wp' = [wp EXCEPT ![k] = "request"] /\ wsess' = [wsess EXCEPT ![k] = s]
      /\ UNCHANGED <<cl, died, sess, holder, state, canCreate, closer, lost>>
  BY <1>1, <1>2 DEF Connect, Accepts, Unused, Send
<1>4. call'[c].at = at /\ call'[c].conn = {k} /\ call'[c].session = s
      /\ \A d \in Clients \ {c} : call'[d] = call[d]
  BY <1>3 DEF Types, ClientTypes
<1>5. connected'[k] = "yes" /\ request'[k] = r /\ reply'[k] = "none" /\ wp'[k] = "request"
      /\ wsess'[k] = s /\ \A j \in Connections \ {k} : WireSame(j)
  BY <1>3 DEF Types, ServerTypes, WireTypes, WireSame
<1>6. MovesAlone(c)
  <2>1. ASSUME NEW d \in Clients, NEW j \in call[d].conn PROVE WireSame(j)
    <3>1. j \in Connections /\ j # k
      BY <1>3 DEF ClientInv, Link, Types, ClientTypes, CallType
    <3> QED
      BY <1>5, <3>1
  <2>2. Early'
    BY <1>3 DEF Early
  <2> QED
    BY <1>3, <1>4, <2>1, <2>2 DEF MovesAlone
<1>7. MovesSessions(c)
  <2>1. \A t \in Ids : ~Member(c, t)' /\ ~Member(c, t)
    BY <1>2, <1>4 DEF Member, InSession
  <2>2. s = 0 \/ cl[s].phase # "none"
    <3>1. CASE s = 0
      BY <3>1
    <3>2. CASE s \in Ids
      BY <3>2 DEF Ids
    <3> QED
      BY <3>1, <3>2
  <2> QED
    BY <1>3, <1>4, <2>1, <2>2, SessionsStay
<1>8. MovesRules(c)
  BY <1>2, <1>4 DEF MovesRules, Exclusive, Storing, Ids
<1>9. Link(c)'
  BY <1>2, <1>3, <1>4, <1>5 DEF Link, Talk, Pending, Waiting, InSession, Storing
<1>10. Fresh(c)'
  BY <1>2, <1>4, <1>5 DEF Fresh
<1>11. Opening(c)'
  BY <1>2, <1>3, <1>4 DEF Opening, Ids
<1> QED
  BY <1>6, <1>7, <1>8, <1>9, <1>10, <1>11, ClientMovesGood

\* A thread looks for a session, or gives up.
LEMMA FindMoves ==
    ASSUME ServerInv, Types', ClientInv, NEW c \in Clients,
           AttachThrows(c) \/ \E s \in Ids : Find(c, s)
    PROVE  ClientInv' /\ MovesAlone(c)
<1> USE DEF ServerInv
<1>1. PICK at, s : call' = [call EXCEPT ![c] = [at |-> at, conn |-> {}, session |-> s]]
                   /\ \/ at = "out" /\ s = 0
                      \/ at = "find" /\ s \in Ids /\ cl[s].phase = "open"
  BY DEF AttachThrows, Find, FindSession
<1>2. call'[c].at = at /\ call'[c].conn = {} /\ call'[c].session = s
      /\ \A d \in Clients \ {c} : call'[d] = call[d]
  BY <1>1 DEF Types, ClientTypes
<1>3. UNCHANGED <<cl, sess, closer, wp>> /\ \A j : WireSame(j)
  BY DEF AttachThrows, Find, wires, server, WireSame
<1>4. call[c].at \in {"out", "find"}
  BY DEF AttachThrows, Find, FindSession
<1>5. MovesAlone(c)
  BY <1>2, <1>3 DEF MovesAlone, ClientInv, Early
<1>6. MovesSessions(c)
  <2>1. \A t \in Ids : ~Member(c, t)' /\ ~Member(c, t)
    BY <1>1, <1>2, <1>4 DEF Member, InSession
  <2> QED
    BY <1>1, <1>2, <1>3, <2>1, SessionsStay
<1>7. MovesRules(c)
  BY <1>1, <1>2 DEF MovesRules, Exclusive, Storing
<1>8. Link(c)' /\ Fresh(c)' /\ Opening(c)'
  BY <1>1, <1>2, <1>3 DEF Link, Fresh, Opening, Waiting, Ids
<1> QED
  BY <1>5, <1>6, <1>7, <1>8, ClientMovesGood

\* The connection of a thread
LEMMA OneConnection ==
    ASSUME ServerInv, ClientInv, NEW c \in Clients, call[c].at \in Waiting \cup {"in", "broken"}
    PROVE  /\ (CHOOSE k \in call[c].conn : TRUE) \in Connections
           /\ call[c].conn = {CHOOSE k \in call[c].conn : TRUE}
<1>1. PICK k \in Connections : call[c].conn = {k}
  BY DEF ClientInv, Link
<1>2. (CHOOSE j \in {k} : TRUE) = k
  OBVIOUS
<1> QED
  BY <1>1, <1>2

\* A thread that is in goes on.
LEMMA ContinueMoves ==
    ASSUME ServerInv, Types', ClientInv, NEW c \in Clients,
           OpenStore(c) \/ CloseStore(c) \/ Detach(c)
    PROVE  ClientInv' /\ MovesAlone(c)
<1> USE DEF ServerInv
<1>1. PICK s : s = call[c].session
  OBVIOUS
<1>2. PICK at, r :
        /\ Continue(c, at, r)
        /\ \/ at = "configuring" /\ r = "configure" /\ StoreFree(s)
           \/ at = "unstoring" /\ r = "unstore" /\ StoreFree(s)
           \/ at = "emptying" /\ r = "unstore" /\ StoreFree(s) /\ SessionFree(s)
           \/ at = "leaving" /\ r = "close" /\ SessionFree(s) /\ ~DetachStore(c)
  BY <1>1 DEF OpenStore, CloseStore, Detach
<1>3. call[c].at = "in"
  BY DEF OpenStore, CloseStore, Detach
<1>4. PICK k \in Connections : call[c].conn = {k}
  BY <1>3 DEF ClientInv, Link
<1>5. /\ connected[k] = "yes"
      /\ request' = [request EXCEPT ![k] = r] /\ reply' = [reply EXCEPT ![k] = "none"]
      /\ call' = [call EXCEPT ![c].at = at]
      /\ UNCHANGED <<cl, connected, sess, wp, wsess, state, closer>>
  BY <1>2, <1>4 DEF Continue, Send, Move, server
<1>6. call'[c].at = at /\ call'[c].conn = {k} /\ call'[c].session = s
      /\ \A d \in Clients \ {c} : call'[d] = call[d]
  BY <1>1, <1>4, <1>5 DEF Types, ClientTypes, CallType
<1>7. request'[k] = r /\ reply'[k] = "none" /\ \A j \in Connections \ {k} : WireSame(j)
  BY <1>5 DEF Types, WireTypes, WireSame
<1>8. wp[k] = "serve" /\ state[k] = "running" /\ wsess[k] = s /\ s \in Ids
  BY <1>1, <1>3, <1>4, <1>5 DEF ClientInv, Link, Talk, Attends
<1>9. MovesAlone(c)
  <2>1. ASSUME NEW d \in Clients, d # c, NEW j \in call[d].conn PROVE WireSame(j)
    <3>1. j \in Connections /\ j # k
      BY <1>4, <2>1 DEF ClientInv, Distinct, Types, ClientTypes, CallType
    <3> QED
      BY <1>7, <3>1
  <2>2. Early'
    BY <1>5 DEF Early, ClientInv
  <2> QED
    BY <1>4, <1>5, <1>6, <2>1, <2>2 DEF MovesAlone
<1>10. MovesSessions(c)
  <2>1. \A t \in Ids : Member(c, t)' <=> Member(c, t)
    BY <1>1, <1>2, <1>3, <1>6 DEF Member, InSession
  <2> QED
    BY <1>1, <1>5, <1>6, <2>1, SessionsStay
<1>11. MovesRules(c)
  BY <1>2, <1>6 DEF MovesRules, Exclusive, Storing
<1>12. Link(c)'
  BY <1>2, <1>4, <1>5, <1>6, <1>7, <1>8
     DEF Link, Talk, Waiting, InSession, Storing, Asked, Attends
<1>13. Fresh(c)'
  BY <1>2, <1>6 DEF Fresh
<1>14. Opening(c)'
  BY <1>1, <1>2, <1>5, <1>6 DEF Opening, ClientInv, DetachStore
<1> QED
  BY <1>9, <1>10, <1>11, <1>12, <1>13, <1>14, ClientMovesGood

\* A step that changes the session of the thread
LEMMA SessionMoves ==
    ASSUME Types, ClientInv, NEW c \in Clients, NEW s \in Ids, NEW v \in ClientType,
           cl' = [cl EXCEPT ![s] = v],
           \A t \in Ids \ {s} : ~Member(c, t) /\ ~Member(c, t)',
           \/ call[c].session = s /\ call'[c].session \in {0, s}
           \/ call[c].at = "creating" /\ call'[c].session = s,
           v.phase # "none", sess[s].phase # "none",
           v.threads = (cl[s].threads \ {c}) \cup (IF Member(c, s)' THEN {c} ELSE {}),
           v.alive <=> v.threads # {},
           cl[s].alive /\ ~v.alive => call[c].at = "leaving" /\ call[c].session = s,
           \/ v.threads = cl[s].threads \/ c \in v.threads
           \/ call[c].at = "leaving" /\ call[c].session = s,
           v.store => cl[s].store \/ c \in v.threads
    PROVE  MovesSessions(c)
<1>1. cl'[s] = v /\ \A t \in Ids \ {s} : cl'[t] = cl[t]
  BY DEF Types, ClientTypes
<1>2. ASSUME NEW t \in Ids, t # s
      PROVE  /\ cl[t].phase # "none" => cl'[t].phase # "none"
             /\ cl'[t].threads = (cl[t].threads \ {c}) \cup (IF Member(c, t)' THEN {c} ELSE {})
             /\ cl'[t].alive <=> cl'[t].threads # {}
             /\ cl'[t].phase # "none" => sess[t].phase # "none"
             /\ cl'[t].phase = "none" => cl'[t].threads = {}
             /\ cl[t].alive /\ ~cl'[t].alive => call[c].at = "leaving" /\ call[c].session = t
             /\ \/ cl'[t].threads = cl[t].threads \/ c \in cl'[t].threads
                \/ call[c].at = "leaving" /\ call[c].session = t
             /\ cl'[t].store => cl[t].store \/ c \in cl'[t].threads
  <2>1. cl'[t] = cl[t] /\ ClientSession(t)
    BY <1>1, <1>2 DEF ClientInv
  <2>2. c \notin cl[t].threads /\ ~Member(c, t)'
    BY <1>2, <2>1 DEF ClientSession, Threads, Member
  <2> QED
    BY <2>1, <2>2 DEF ClientSession
<1>3. \A t \in Ids : t # call[c].session /\ t # call'[c].session => cl'[t] = cl[t]
  BY <1>1
<1>4. \/ call'[c].session \in {0, call[c].session} \/ call[c].at = "creating"
      \/ cl[call'[c].session].phase # "none"
  OBVIOUS
<1>5. /\ cl[s].phase # "none" => cl'[s].phase # "none"
      /\ cl'[s].threads = (cl[s].threads \ {c}) \cup (IF Member(c, s)' THEN {c} ELSE {})
      /\ cl'[s].alive <=> cl'[s].threads # {}
      /\ cl'[s].phase # "none" => sess[s].phase # "none"
      /\ cl'[s].phase = "none" => cl'[s].threads = {}
      /\ cl[s].alive /\ ~cl'[s].alive => call[c].at = "leaving" /\ call[c].session = s
      /\ \/ cl'[s].threads = cl[s].threads \/ c \in cl'[s].threads
         \/ call[c].at = "leaving" /\ call[c].session = s
      /\ cl'[s].store => cl[s].store \/ c \in cl'[s].threads
  BY <1>1
<1> QED
  BY <1>2, <1>3, <1>4, <1>5 DEF MovesSessions

\* A call that ends touches the connection of its thread only.
LEMMA ReplyAlone ==
    ASSUME ServerInv, ClientInv, NEW c \in Clients, NEW k, k = CHOOSE j \in call[c].conn : TRUE,
           Reply(c) \/ CallThrows(c)
    PROVE  /\ k \in Connections /\ call[c].conn = {k}
           /\ MovesAlone(c)
           /\ UNCHANGED <<sess, wp, wsess, state, closer>>
           /\ \A j \in Connections \ {k} : WireSame(j)
<1> USE DEF ServerInv
<1>1. call[c].at \in Waiting
  BY DEF Reply, CallThrows
<1>2. k \in Connections /\ call[c].conn = {k}
  BY <1>1, OneConnection
<1>3. UNCHANGED <<sess, wp, wsess, state, closer>>
  <2>1. UNCHANGED server
    BY DEF Reply, CallThrows
  <2> QED
    BY <2>1 DEF server
<1>4. \A j \in Connections \ {k} : WireSame(j)
  <2>1. \/ request' = request \/ \E r : request' = [request EXCEPT ![k] = r]
    <3>1. CASE Reply(c)
      BY <3>1 DEF Reply, Send
    <3>2. CASE CallThrows(c)
      BY <3>2 DEF CallThrows, Send
    <3> QED
      BY <3>1, <3>2, SMTT(30)
  <2>2. reply' = [reply EXCEPT ![k] = "none"]
        \/ reply' = [j \in Connections |-> IF j \in {k} THEN "none" ELSE reply[j]]
    <3>1. reply' = [reply EXCEPT ![k] = "none"] \/ Consume(c)
      <4>1. CASE Reply(c)
        BY <4>1 DEF Reply, Send
      <4>2. CASE CallThrows(c)
        BY <4>2, SMTT(30) DEF CallThrows, Send
      <4> QED
        BY <4>1, <4>2
    <3> QED
      BY <1>2, <3>1 DEF Consume
  <2>3. connected' = connected
        \/ connected' = [j \in Connections |-> IF j \in {k} THEN "no" ELSE connected[j]]
    BY <1>2 DEF Reply, CallThrows, Hangup
  <2>4. ASSUME NEW j \in Connections \ {k} PROVE WireSame(j)
    <3>1. request'[j] = request[j]
      BY <2>1, <2>4 DEF Types, WireTypes
    <3>2. reply'[j] = reply[j]
      BY <2>2, <2>4 DEF Types, WireTypes
    <3>3. connected'[j] = connected[j]
      BY <2>3, <2>4 DEF Types, WireTypes
    <3> QED
      BY <1>3, <3>1, <3>2, <3>3 DEF WireSame
  <2> QED
    BY <2>4
<1>5. \A d \in Clients \ {c} : call'[d] = call[d]
  <2>1. CASE Reply(c)
    BY <2>1 DEF Reply, Move, Types, ClientTypes
  <2>2. CASE CallThrows(c)
    BY <2>2 DEF CallThrows, Move, Types, ClientTypes
  <2> QED
    BY <2>1, <2>2
<1>6. call'[c].conn \subseteq {k}
  <2>1. CASE Reply(c)
    BY <1>2, <2>1 DEF Reply, Move, Types, ClientTypes, CallType
  <2>2. CASE CallThrows(c)
    BY <1>2, <2>2 DEF CallThrows, Move, Types, ClientTypes, CallType
  <2> QED
    BY <2>1, <2>2
<1>7. ASSUME NEW d \in Clients, d # c, NEW j \in call[d].conn PROVE WireSame(j)
  <2>1. j \in Connections /\ j # k
    BY <1>2, <1>7 DEF ClientInv, Distinct, Types, ClientTypes, CallType
  <2> QED
    BY <1>4, <2>1
<1>8. Early'
  BY <1>3 DEF Early, ClientInv
<1>9. MovesAlone(c)
  BY <1>2, <1>3, <1>5, <1>6, <1>7, <1>8 DEF MovesAlone
<1> QED
  BY <1>2, <1>3, <1>4, <1>9

\* The thread that has created a session is its first.
LEMMA CreatedMoves ==
    ASSUME ServerInv, Types', ClientInv, NEW c \in Clients, Reply(c), call[c].at = "creating"
    PROVE  ClientInv'
<1> USE DEF ServerInv
<1>1. PICK k : k = CHOOSE j \in call[c].conn : TRUE
  OBVIOUS
<1>2. k \in Connections /\ call[c].conn = {k} /\ MovesAlone(c)
      /\ UNCHANGED <<sess, wp, wsess, state, closer>>
  BY <1>1, ReplyAlone
<1>3. PICK s : s = wsess[k]
  OBVIOUS
<1>4. PICK v : v = NewClient(c)
  OBVIOUS
<1>5. /\ reply[k] = "ok" /\ cl' = [cl EXCEPT ![s] = v]
      /\ call' = [call EXCEPT ![c].at = "in", ![c].session = s]
      /\ Consume(c) /\ UNCHANGED <<request, connected>>
  BY <1>1, <1>2, <1>3, <1>4 DEF Reply, Answered, SetClient, NewClient
<1>6. s \in Ids /\ s # 0 /\ call[c].session = 0
  BY <1>2, <1>3, <1>5 DEF ClientInv, Link, Ids
<1>7. call'[c].at = "in" /\ call'[c].conn = {k} /\ call'[c].session = s
  BY <1>2, <1>5 DEF Types, ClientTypes, CallType
<1>8. v \in ClientType /\ v.phase = "open" /\ v.alive /\ v.threads = {c} /\ ~v.store
  BY <1>4 DEF NewClient, ClientType, Phases
<1>9. cl[s].phase = "none" /\ sess[s].phase # "none" /\ cl[s].threads = {}
  BY <1>2, <1>3, <1>6 DEF ClientInv, Fresh, ClientSession
<1>10. MovesSessions(c)
  <2>1. \A t \in Ids \ {s} : ~Member(c, t) /\ ~Member(c, t)'
    BY <1>6, <1>7 DEF Member, Ids
  <2>2. Member(c, s)'
    BY <1>7 DEF Member, InSession
  <2>3. ~cl[s].alive
    BY <1>6, <1>9 DEF ClientInv, ClientSession
  <2>4. v.threads = (cl[s].threads \ {c}) \cup (IF Member(c, s)' THEN {c} ELSE {})
    BY <1>8, <1>9, <2>2
  <2> QED
    BY <1>5, <1>6, <1>7, <1>8, <1>9, <2>1, <2>3, <2>4, SessionMoves
<1>11. MovesRules(c)
  BY <1>7 DEF MovesRules, Exclusive, Storing
<1>12. Link(c)'
  <2>1. connected[k] = "yes" => wp[k] = "serve" /\ state[k] = "running" /\ request[k] = "none"
    BY <1>2, <1>5 DEF ClientInv, Link, Talk
  <2>2. connected[k] # "unused" /\ wp[k] \notin {"request", "attach"}
    BY <1>2, <1>5 DEF ClientInv, Link, Pending
  <2> QED
    BY <1>2, <1>3, <1>5, <1>6, <1>7, <2>1, <2>2
       DEF Link, Talk, Waiting, InSession, Storing, Attends
<1>13. Fresh(c)'
  BY <1>7 DEF Fresh
<1>14. Opening(c)'
  BY <1>5, <1>6, <1>7, <1>8 DEF Opening, Types, ClientTypes
<1> QED
  BY <1>2, <1>10, <1>11, <1>12, <1>13, <1>14, ClientMovesGood

\* A thread that is part of its session
LEMMA Belongs ==
    ASSUME ServerInv, ClientInv, NEW c \in Clients,
           call[c].at \in InSession \cup {"opening", "leaving", "broken", "release"}
    PROVE  /\ call[c].session \in Ids
           /\ cl[call[c].session].phase # "none" /\ sess[call[c].session].phase # "none"
           /\ cl[call[c].session] \in ClientType
           /\ ClientSession(call[c].session)
<1>1. call[c].session \in Ids /\ call[c].session # 0
  BY DEF ClientInv, Link, InSession, Waiting, Ids
<1>2. cl[call[c].session].phase # "none" /\ ClientSession(call[c].session)
  BY <1>1 DEF ClientInv, Opening
<1> QED
  BY <1>1, <1>2 DEF ClientSession, ServerInv, Types, ClientTypes

\* The other answers
LEMMA RepliedMoves ==
    ASSUME ServerInv, Types', ClientInv, NEW c \in Clients, Reply(c), call[c].at # "creating"
    PROVE  ClientInv'
<1> USE DEF ServerInv
<1>1. PICK k : k = CHOOSE j \in call[c].conn : TRUE
  OBVIOUS
<1>2. k \in Connections /\ call[c].conn = {k} /\ MovesAlone(c)
      /\ UNCHANGED <<sess, wp, wsess, state, closer>>
  BY <1>1, ReplyAlone
<1>3. PICK s : s = call[c].session
  OBVIOUS
<1>4. reply[k] = "ok" /\ call[c].at \in Waiting \ {"creating"}
  BY <1>2 DEF Reply, Answered
<1>5. /\ s \in Ids /\ cl[s].phase # "none" /\ sess[s].phase # "none" /\ cl[s] \in ClientType
      /\ ClientSession(s) /\ s # 0
  BY <1>3, <1>4, Belongs DEF InSession, Waiting, Ids
<1>6. PICK at : at = call'[c].at
  OBVIOUS
<1>7. \A t \in Ids \ {s} : ~Member(c, t)
  BY <1>3 DEF Member
<1>8. /\ connected[k] # "unused" /\ wsess[k] = s
      /\ connected[k] = "yes" => Talk(c, k)
      /\ wp[k] \notin {"request", "attach"}
  BY <1>2, <1>3, <1>4 DEF ClientInv, Link, Pending
<1>9. /\ call[c].at # "leaving" /\ connected[k] = "yes" => wp[k] = "serve" /\ state[k] = "running"
      /\ call[c].at # "leaving" /\ connected[k] = "yes" => request[k] = "none"
  BY <1>4, <1>8 DEF Talk, InSession, Storing, Waiting, Asked, Attends
\* back in the session
<1>10. ASSUME call[c].at \in {"opening", "storing", "unstoring"}
       PROVE  ClientInv'
  <2>1. call' = [call EXCEPT ![c].at = "in"] /\ Consume(c) /\ UNCHANGED <<request, connected>>
    BY <1>10 DEF Reply, Move
  <2>2. call'[c].at = "in" /\ call'[c].conn = {k} /\ call'[c].session = s
    BY <1>2, <1>3, <2>1, SMTT(30) DEF Types, ClientTypes, CallType
  <2>3. PICK v : /\ cl' = [cl EXCEPT ![s] = v]
                 /\ \/ v = Entered(cl[s], c) /\ call[c].at = "opening"
                    \/ v = Opened(cl[s]) /\ call[c].at = "storing"
                    \/ v = Closed(cl[s]) /\ call[c].at = "unstoring"
    BY <1>3, <1>10 DEF Reply, SetClient, Entered, Opened, Closed
  <2>4. Member(c, s)' /\ (call[c].at # "opening" => Member(c, s))
        /\ \A t \in Ids \ {s} : ~Member(c, t)'
    BY <1>3, <1>10, <2>2 DEF Member, InSession
  <2>5. v \in ClientType /\ v.phase = cl[s].phase /\ v.alive = cl[s].alive
        /\ v.threads = cl[s].threads \cup {c} /\ c \in v.threads
    <3>1. ASSUME NEW r \in ClientType
          PROVE  /\ Entered(r, c) \in ClientType /\ Entered(r, c).threads = r.threads \cup {c}
                 /\ Entered(r, c).phase = r.phase /\ Entered(r, c).alive = r.alive
                 /\ Opened(r) \in ClientType /\ Opened(r).threads = r.threads
                 /\ Opened(r).phase = r.phase /\ Opened(r).alive = r.alive
                 /\ Closed(r) \in ClientType /\ Closed(r).threads = r.threads
                 /\ Closed(r).phase = r.phase /\ Closed(r).alive = r.alive
      BY ClientFields
    <3>2. call[c].at # "opening" => c \in cl[s].threads
      BY <1>5, <2>4 DEF ClientSession, Threads, Member
    <3>3. call[c].at # "opening" => cl[s].threads \cup {c} = cl[s].threads
      BY <3>2
    <3>4. v \in ClientType /\ v.phase = cl[s].phase /\ v.alive = cl[s].alive
          /\ v.threads = cl[s].threads \cup {c}
      BY <1>5, <2>3, <3>1, <3>3
    <3> QED
      BY <3>4
  <2>6. cl[s].alive
    BY <1>3, <1>5, <1>10, <2>4 DEF ClientInv, Opening, ClientSession, Threads, Member
  <2>7. MovesSessions(c)
    <3>1. v.threads = (cl[s].threads \ {c}) \cup (IF Member(c, s)' THEN {c} ELSE {})
      BY <2>4, <2>5
    <3> QED
      BY <1>3, <1>5, <1>7, <2>2, <2>3, <2>4, <2>5, <2>6, <3>1, SessionMoves
  <2>8. MovesRules(c)
    BY <2>2 DEF MovesRules, Exclusive, Storing
  <2>9. Link(c)'
    BY <1>2, <1>5, <1>8, <1>9, <1>10, <2>1, <2>2 DEF Link, Talk, Waiting, InSession, Storing, Attends
  <2>10. Fresh(c)'
    BY <2>2 DEF Fresh
  <2>11. Opening(c)'
    BY <1>5, <2>2, <2>3, <2>5 DEF Opening, Types, ClientTypes
  <2> QED
    BY <1>2, <2>7, <2>8, <2>9, <2>10, <2>11, ClientMovesGood
\* on to the next request
<1>11. ASSUME call[c].at = "configuring"
       PROVE  ClientInv'
  <2>1. /\ call' = [call EXCEPT ![c].at = "storing"] /\ Send(k, "store")
        /\ UNCHANGED <<cl, connected>>
    BY <1>1, <1>11 DEF Reply, Move
  <2>2. call'[c].at = "storing" /\ call'[c].conn = {k} /\ call'[c].session = s
    BY <1>2, <1>3, <2>1 DEF Types, ClientTypes, CallType
  <2>3. request'[k] = "store" /\ reply'[k] = "none"
    BY <1>2, <2>1 DEF Send, Types, WireTypes
  <2>4. MovesSessions(c)
    <3>1. \A t \in Ids : Member(c, t)' <=> Member(c, t)
      BY <1>3, <1>11, <2>2 DEF Member, InSession
    <3> QED
      BY <1>3, <2>1, <2>2, <3>1, SessionsStay
  <2>5. MovesRules(c)
    BY <1>3, <1>11, <2>2 DEF MovesRules, Exclusive, Storing
  <2>6. Link(c)'
    BY <1>2, <1>5, <1>8, <1>9, <1>11, <2>1, <2>2, <2>3
       DEF Link, Talk, Waiting, InSession, Storing, Asked, Attends
  <2>7. Fresh(c)' /\ Opening(c)'
    BY <1>5, <2>1, <2>2 DEF Fresh, Opening
  <2> QED
    BY <1>2, <2>4, <2>5, <2>6, <2>7, ClientMovesGood
<1>12. ASSUME call[c].at = "emptying"
       PROVE  ClientInv'
  <2>1. /\ call' = [call EXCEPT ![c].at = "leaving"] /\ Send(k, "close")
        /\ UNCHANGED connected
    BY <1>1, <1>12 DEF Reply, Move
  <2>2. call'[c].at = "leaving" /\ call'[c].conn = {k} /\ call'[c].session = s
    BY <1>2, <1>3, <2>1 DEF Types, ClientTypes, CallType
  <2>3. request'[k] = "close" /\ reply'[k] = "none"
    BY <1>2, <2>1 DEF Send, Types, WireTypes
  <2>4. PICK v : v = Closed(cl[s]) /\ cl' = [cl EXCEPT ![s] = v]
    BY <1>3, <1>12 DEF Reply, SetClient, Closed
  <2>5. /\ v \in ClientType /\ v.phase = cl[s].phase /\ v.alive = cl[s].alive
        /\ v.threads = cl[s].threads /\ ~v.store
    BY <1>5, <2>4, ClientFields
  <2>6. Member(c, s)' /\ Member(c, s) /\ \A t \in Ids \ {s} : ~Member(c, t)'
    BY <1>3, <1>12, <2>2 DEF Member, InSession
  <2>7. c \in cl[s].threads /\ (cl[s].alive <=> cl[s].threads # {})
    BY <1>5, <2>6 DEF ClientSession, Threads, Member
  <2>8. MovesSessions(c)
    <3>1. v.threads = (cl[s].threads \ {c}) \cup (IF Member(c, s)' THEN {c} ELSE {})
      BY <2>5, <2>6, <2>7
    <3> QED
      BY <1>3, <1>5, <1>7, <2>2, <2>4, <2>5, <2>6, <2>7, <3>1, SessionMoves
  <2>9. MovesRules(c)
    BY <1>3, <1>12, <2>2 DEF MovesRules, Exclusive, Storing
  <2>10. Link(c)'
    BY <1>2, <1>5, <1>8, <1>9, <1>12, <2>1, <2>2, <2>3
       DEF Link, Talk, Waiting, InSession, Storing, Asked, Attends
  <2>11. Fresh(c)'
    BY <2>2 DEF Fresh
  <2>12. Opening(c)'
    BY <1>5, <2>2, <2>4, <2>5 DEF Opening, Types, ClientTypes
  <2> QED
    BY <1>2, <2>8, <2>9, <2>10, <2>11, <2>12, ClientMovesGood
\* and out
<1>13. ASSUME call[c].at = "leaving"
       PROVE  ClientInv'
  <2>1. PICK v : v = Left(cl[s], c)
    OBVIOUS
  <2>2. cl' = [cl EXCEPT ![s] = v]
    BY <1>3, <1>13, <2>1 DEF Reply, SetClient, Left, Alone
  <2>3. /\ call'[c].conn = {}
        /\ \/ call'[c].at = "release" /\ call'[c].session = s
           \/ call'[c].at = "out" /\ call'[c].session = 0
    BY <1>3, <1>13 DEF Reply, Types, ClientTypes, CallType
  <2>4. /\ v \in ClientType /\ v.phase = cl[s].phase /\ v.threads = cl[s].threads \ {c}
        /\ v.alive <=> v.threads # {}
        /\ v.store = cl[s].store
    <3>1. ASSUME NEW r \in ClientType
          PROVE  /\ Left(r, c) \in ClientType /\ Left(r, c).threads = r.threads \ {c}
                 /\ Left(r, c).alive <=> Left(r, c).threads # {}
                 /\ Left(r, c).phase = r.phase /\ Left(r, c).store = r.store
      BY ClientFields
    <3> QED
      BY <1>5, <2>1, <3>1
  <2>5. \A t \in Ids : ~Member(c, t)'
    BY <2>3 DEF Member, InSession
  <2>6. MovesSessions(c)
    <3>1. v.threads = (cl[s].threads \ {c}) \cup (IF Member(c, s)' THEN {c} ELSE {})
      BY <1>5, <2>4, <2>5
    <3>2. call'[c].session \in {0, s}
      BY <2>3
    <3> QED
      BY <1>3, <1>5, <1>7, <1>13, <2>2, <2>4, <2>5, <3>1, <3>2, SessionMoves
  <2>7. MovesRules(c)
    BY <2>3 DEF MovesRules, Exclusive, Storing
  <2>8. Link(c)' /\ Fresh(c)'
    BY <1>5, <2>3 DEF Link, Fresh, Waiting
  <2>9. Opening(c)'
    BY <1>5, <2>2, <2>3, <2>4 DEF Opening, Types, ClientTypes
  <2> QED
    BY <1>2, <2>6, <2>7, <2>8, <2>9, ClientMovesGood
<1> QED
  BY <1>4, <1>10, <1>11, <1>12, <1>13 DEF Waiting

\* A call that fails leaves the thread out, in, or without its connection.
LEMMA ThrownMoves ==
    ASSUME ServerInv, Types', ClientInv, NEW c \in Clients, CallThrows(c)
    PROVE  ClientInv'
<1> USE DEF ServerInv
<1>1. PICK k : k = CHOOSE j \in call[c].conn : TRUE
  OBVIOUS
<1>2. k \in Connections /\ call[c].conn = {k} /\ MovesAlone(c)
      /\ UNCHANGED <<sess, wp, wsess, state, closer>>
  BY <1>1, ReplyAlone
<1>3. PICK s : s = call[c].session
  OBVIOUS
<1>4. /\ call[c].at \in Waiting
      /\ reply[k] = "failed" \/ (reply[k] = "none" /\ connected[k] = "no")
  BY <1>1 DEF CallThrows
<1>5. CASE call[c].at \in {"creating", "opening"}
  <2>1. call'[c].at = "out" /\ call'[c].conn = {} /\ call'[c].session = 0
    BY <1>5 DEF CallThrows, Types, ClientTypes
  <2>2. cl' = cl
    BY <1>5 DEF CallThrows
  <2>3. MovesSessions(c)
    <3>1. \A t \in Ids : ~Member(c, t)' /\ ~Member(c, t)
      BY <1>5, <2>1 DEF Member, InSession
    <3> QED
      BY <2>1, <2>2, <3>1, SessionsStay
  <2>4. MovesRules(c)
    BY <2>1 DEF MovesRules, Exclusive, Storing
  <2>5. Link(c)' /\ Fresh(c)' /\ Opening(c)'
    BY <2>1 DEF Link, Fresh, Opening, Waiting
  <2> QED
    BY <1>2, <2>3, <2>4, <2>5, ClientMovesGood
<1>6. CASE call[c].at \notin {"creating", "opening"}
  <2>1. /\ s \in Ids /\ cl[s].phase # "none" /\ sess[s].phase # "none" /\ cl[s] \in ClientType
        /\ ClientSession(s) /\ s # 0
    BY <1>3, <1>4, <1>6, Belongs DEF InSession, Waiting, Ids
  <2>2. /\ connected[k] # "unused" /\ wsess[k] = s
        /\ connected[k] = "yes" => Talk(c, k)
        /\ wp[k] \notin {"request", "attach"}
    BY <1>2, <1>3, <1>6 DEF ClientInv, Link, Pending
  <2>3. PICK going : going = (call[c].at = "emptying" /\ connected[k] = "yes")
    OBVIOUS
  <2>4. PICK at : at = IF going THEN "leaving" ELSE IF connected[k] = "yes" THEN "in" ELSE "broken"
    OBVIOUS
  <2>5. call' = [call EXCEPT ![c].at = at] /\ UNCHANGED connected
        /\ IF going THEN Send(k, "close") ELSE UNCHANGED request
    BY <1>1, <1>6, <2>3, <2>4 DEF CallThrows, Move
  <2>6. call'[c].at = at /\ call'[c].conn = {k} /\ call'[c].session = s
    BY <1>2, <1>3, <2>5 DEF Types, ClientTypes, CallType
  <2>7. PICK v : /\ cl' = [cl EXCEPT ![s] = v]
                 /\ v = Closed(cl[s]) \/ v = cl[s]
                 /\ call[c].at = "emptying" => v = Closed(cl[s])
    <3>1. CASE call[c].at \in {"unstoring", "emptying"}
      <4>1. cl' = [cl EXCEPT ![s] = [cl[s] EXCEPT !.store = @ /\ FALSE]]
        BY <1>3, <1>6, <3>1 DEF CallThrows, SetClient
      <4>2. [cl[s] EXCEPT !.store = @ /\ FALSE] = Closed(cl[s])
        BY <2>1 DEF ClientType, Closed
      <4> QED
        BY <4>1, <4>2
    <3>2. CASE call[c].at \notin {"unstoring", "emptying"}
      <4>1. cl' = [cl EXCEPT ![s] = [cl[s] EXCEPT !.store = @ /\ TRUE]]
        BY <1>3, <1>6, <3>2 DEF CallThrows, SetClient
      <4>2. [cl[s] EXCEPT !.store = @ /\ TRUE] = cl[s]
        BY <2>1 DEF ClientType
      <4> QED
        BY <3>2, <4>1, <4>2
    <3> QED
      BY <3>1, <3>2
  <2>8. /\ v \in ClientType /\ v.phase = cl[s].phase /\ v.alive = cl[s].alive
        /\ v.threads = cl[s].threads
        /\ v.store => cl[s].store
        /\ call[c].at = "emptying" => ~v.store
    <3>1. ASSUME NEW r \in ClientType
          PROVE  /\ Closed(r) \in ClientType /\ Closed(r).threads = r.threads /\ ~Closed(r).store
                 /\ Closed(r).phase = r.phase /\ Closed(r).alive = r.alive
      BY ClientFields
    <3> QED
      BY <2>1, <2>7, <3>1
  <2>9. at \in {"leaving", "in", "broken"}
    BY <2>4
  <2>10. Member(c, s)' /\ Member(c, s) /\ \A t \in Ids \ {s} : ~Member(c, t)' /\ ~Member(c, t)
    BY <1>3, <1>4, <1>6, <2>6, <2>9 DEF Member, InSession, Waiting
  <2>11. c \in cl[s].threads /\ (cl[s].alive <=> cl[s].threads # {})
    BY <2>1, <2>10 DEF ClientSession, Threads, Member
  <2>12. MovesSessions(c)
    <3>1. v.threads = (cl[s].threads \ {c}) \cup (IF Member(c, s)' THEN {c} ELSE {})
      BY <2>8, <2>10, <2>11
    <3> QED
      BY <1>3, <2>1, <2>6, <2>7, <2>8, <2>10, <2>11, <3>1, SessionMoves
  <2>13. at = "leaving" => call[c].at = "emptying" /\ connected[k] = "yes" /\ going
    BY <2>3, <2>4
  <2>14. MovesRules(c)
    BY <1>3, <2>6, <2>9, <2>13 DEF MovesRules, Exclusive, Storing
  <2>15. Link(c)'
    <3>1. connected[k] = "yes" /\ at = "leaving" =>
              wp[k] = "serve" /\ state[k] = "running"
              /\ request'[k] = "close" /\ reply'[k] = "none"
      <4>1. ASSUME connected[k] = "yes", at = "leaving" PROVE Attends(k)
        BY <1>4, <2>2, <2>13, <4>1 DEF Talk, Storing
      <4> QED
        BY <1>2, <2>5, <2>13, <4>1 DEF Attends, Send, Types, WireTypes
    <3>2. connected[k] = "yes" /\ at = "in" =>
              wp[k] = "serve" /\ state[k] = "running" /\ request'[k] = "none"
      <4>1. ASSUME connected[k] = "yes", at = "in"
            PROVE  wp[k] = "serve" /\ state[k] = "running" /\ request'[k] = "none"
        <5>1. ~going /\ request' = request /\ reply[k] = "failed"
          BY <1>4, <2>4, <2>5, <4>1
        <5>2. call[c].at \in Storing
          BY <1>4, <1>6, <2>2, <4>1, <5>1 DEF Talk, Waiting, Storing
        <5> QED
          BY <2>2, <4>1, <5>1, <5>2 DEF Talk, Attends
      <4> QED
        BY <4>1
    <3>3. connected[k] = "yes" => at # "broken"
      BY <2>4
    <3>4. connected[k] = "yes" => Talk(c, k)'
      BY <1>2, <2>6, <2>9, <3>1, <3>2, <3>3 DEF Talk, InSession, Storing, Attends
    <3> QED
      BY <1>2, <2>1, <2>2, <2>5, <2>6, <2>9, <3>4 DEF Link, Waiting
  <2>16. Fresh(c)'
    BY <2>6, <2>9 DEF Fresh
  <2>17. Opening(c)'
    BY <2>1, <2>6, <2>7, <2>8, <2>9, <2>13 DEF Opening, Types, ClientTypes
  <2> QED
    BY <1>2, <2>12, <2>14, <2>15, <2>16, <2>17, ClientMovesGood
<1> QED
  BY <1>5, <1>6

\* A thread without its connection takes the store of the session with it.
LEMMA LoseMoves ==
    ASSUME ServerInv, Types', ClientInv, NEW c \in Clients, LoseStore(c)
    PROVE  ClientInv' /\ MovesAlone(c)
<1> USE DEF ServerInv
<1>1. PICK s : s = call[c].session
  OBVIOUS
<1>2. call[c].at \in {"in", "broken"} /\ UNCHANGED <<died, wires, server>>
  BY DEF LoseStore
<1>3. PICK k \in Connections : call[c].conn = {k}
  BY <1>2 DEF ClientInv, Link
<1>4. /\ s \in Ids /\ cl[s].phase # "none" /\ sess[s].phase # "none" /\ cl[s] \in ClientType
      /\ ClientSession(s) /\ s # 0
  BY <1>1, <1>2, Belongs DEF InSession, Ids
<1>5. PICK v : v = Closed(cl[s])
  OBVIOUS
<1>6. cl' = [cl EXCEPT ![s] = v] /\ call' = [call EXCEPT ![c].at = "broken"]
      /\ connected[k] = "no"
  BY <1>1, <1>3, <1>5 DEF LoseStore, SetClient, Move, Closed
<1>7. /\ v \in ClientType /\ v.phase = cl[s].phase /\ v.alive = cl[s].alive
      /\ v.threads = cl[s].threads /\ ~v.store
  BY <1>4, <1>5 DEF Closed, ClientType
<1>8. call'[c].at = "broken" /\ call'[c].conn = {k} /\ call'[c].session = s
      /\ \A d \in Clients \ {c} : call'[d] = call[d]
  BY <1>1, <1>3, <1>6 DEF Types, ClientTypes, CallType
<1>9. UNCHANGED <<sess, closer, wp>> /\ \A j : WireSame(j)
  BY <1>2 DEF wires, server, WireSame
<1>10. MovesAlone(c)
  BY <1>3, <1>8, <1>9 DEF MovesAlone, ClientInv, Early
<1>11. MovesSessions(c)
  <2>1. Member(c, s)' /\ Member(c, s) /\ \A t \in Ids \ {s} : ~Member(c, t)' /\ ~Member(c, t)
    BY <1>1, <1>2, <1>8 DEF Member, InSession
  <2>2. c \in cl[s].threads /\ (cl[s].alive <=> cl[s].threads # {})
    BY <1>4, <2>1 DEF ClientSession, Threads, Member
  <2>3. v.threads = (cl[s].threads \ {c}) \cup (IF Member(c, s)' THEN {c} ELSE {})
    BY <1>7, <2>1, <2>2
  <2> QED
    BY <1>1, <1>4, <1>6, <1>7, <1>8, <2>1, <2>2, <2>3, SessionMoves
<1>12. MovesRules(c)
  BY <1>8 DEF MovesRules, Exclusive, Storing
<1>13. Link(c)'
  <2>1. connected[k] # "unused" /\ wsess[k] = s /\ wp[k] \notin {"request", "attach"}
    BY <1>1, <1>2, <1>3 DEF ClientInv, Link, Pending
  <2> QED
    BY <1>3, <1>4, <1>6, <1>8, <1>9, <2>1 DEF Link, WireSame, Waiting
<1>14. Fresh(c)' /\ Opening(c)'
  BY <1>4, <1>6, <1>7, <1>8 DEF Fresh, Opening, Types, ClientTypes
<1> QED
  BY <1>10, <1>11, <1>12, <1>13, <1>14, ClientMovesGood

\* The last thread releases the session.
LEMMA ReleaseMoves ==
    ASSUME ServerInv, Types', ClientInv, NEW c \in Clients, Release(c)
    PROVE  ClientInv' /\ MovesAlone(c)
<1> USE DEF ServerInv
<1>1. PICK s : s = call[c].session
  OBVIOUS
<1>2. /\ s \in Ids /\ cl[s].phase # "none" /\ sess[s].phase # "none" /\ cl[s] \in ClientType
      /\ ClientSession(s) /\ s # 0
  BY <1>1, Belongs DEF Release, Ids
<1>3. PICK v : v = Released(cl[s])
  OBVIOUS
<1>4. cl' = [cl EXCEPT ![s] = v]
  BY <1>1, <1>3 DEF Release, SetClient, Released
<1>5. /\ v \in ClientType /\ v.phase = "freed" /\ v.alive = cl[s].alive
      /\ v.threads = cl[s].threads
      /\ v.store = cl[s].store
  BY <1>2, <1>3 DEF Released, ClientType, Phases
<1>6. call'[c].at = "out" /\ call'[c].conn = {} /\ call'[c].session = 0
      /\ \A d \in Clients \ {c} : call'[d] = call[d]
  BY DEF Release, Types, ClientTypes
<1>7. UNCHANGED <<sess, closer, wp>> /\ \A j : WireSame(j)
  BY DEF Release, wires, server, WireSame
<1>8. MovesAlone(c)
  BY <1>6, <1>7 DEF MovesAlone, ClientInv, Early
<1>9. MovesSessions(c)
  <2>1. \A t \in Ids : ~Member(c, t)' /\ ~Member(c, t)
    BY <1>6 DEF Member, InSession, Release
  <2>2. c \notin cl[s].threads /\ (cl[s].alive <=> cl[s].threads # {})
    BY <1>2, <2>1 DEF ClientSession, Threads, Member
  <2>3. v.threads = (cl[s].threads \ {c}) \cup (IF Member(c, s)' THEN {c} ELSE {})
    BY <1>2, <1>5, <2>1, <2>2
  <2> QED
    BY <1>1, <1>2, <1>4, <1>5, <1>6, <2>1, <2>2, <2>3, SessionMoves
<1>10. MovesRules(c)
  BY <1>6 DEF MovesRules, Exclusive, Storing
<1>11. Link(c)' /\ Fresh(c)' /\ Opening(c)'
  BY <1>6 DEF Link, Fresh, Opening, Waiting
<1> QED
  BY <1>8, <1>9, <1>10, <1>11, ClientMovesGood

\* What the client had in memory is gone.
LEMMA KillMoves ==
    ASSUME ServerInv, ClientInv, Kill
    PROVE  ClientInv'
<1>1. \A c \in Clients : call'[c].at = "dead" /\ call'[c].conn = {} /\ call'[c].session = 0
  BY DEF Kill
<1>2. \A s \in Ids : cl'[s].phase = "none" /\ ~cl'[s].alive /\ cl'[s].threads = {}
  BY DEF Kill, NoClient
<1>3. UNCHANGED <<closer, wp>>
  BY DEF Kill, server
<1>4. Distinct' /\ Early'
  BY <1>1, <1>3 DEF Distinct, Early, ClientInv
<1>5. \A c \in Clients : Link(c)' /\ Fresh(c)' /\ Opening(c)'
  BY <1>1 DEF Link, Fresh, Opening, Waiting
<1>6. \A c, d \in Clients : Rules(c, d)'
  BY <1>1 DEF Rules, Exclusive, Storing
<1>7. \A s \in Ids : ClientSession(s)'
  BY <1>1, <1>2 DEF ClientSession, Threads, InSession
<1> QED
  BY <1>4, <1>5, <1>6, <1>7 DEF ClientInv

\* createSession and the attach of openLocalSession connect.
LEMMA CallMoves ==
    ASSUME ServerInv, Types', ClientInv, NEW c \in Clients, CreateSession(c) \/ Attach(c)
    PROVE  ClientInv' /\ MovesAlone(c)
<1>1. CASE CreateSession(c)
  BY <1>1, ConnectMoves DEF CreateSession
<1>2. CASE Attach(c)
  <2>1. PICK s : s = call[c].session
    OBVIOUS
  <2>2. /\ s \in Ids /\ Connect(c, "opening", s, "open") /\ SessionFree(s) /\ cl[s].alive
        /\ call[c].at = "find"
    BY <1>2, <2>1 DEF Attach, ServerInv, Found
  <2>3. cl[s].phase # "none"
    BY <2>1, <2>2 DEF ClientInv, Opening, Ids
  <2> QED
    BY <2>2, <2>3, ConnectMoves
<1> QED
  BY <1>1, <1>2

\* The client
LEMMA ClientKept ==
    ASSUME ServerInv, Types', ClientInv,
           Kill \/ \E c \in Clients : ClientCall(c) \/ ClientStep(c)
    PROVE  ClientInv'
<1>1. CASE Kill
  BY <1>1, KillMoves
<1>2. ASSUME NEW c \in Clients, ClientCall(c) \/ ClientStep(c)
      PROVE  ClientInv'
  <2>1. CASE CreateSession(c) \/ Attach(c)
    BY <2>1, CallMoves
  <2>2. CASE AttachThrows(c) \/ \E s \in Ids : Find(c, s)
    BY <2>2, FindMoves
  <2>3. CASE OpenStore(c) \/ CloseStore(c) \/ Detach(c)
    BY <2>3, ContinueMoves
  <2>4. CASE Reply(c)
    BY <2>4, CreatedMoves, RepliedMoves
  <2>5. CASE CallThrows(c)
    BY <2>5, ThrownMoves
  <2>6. CASE Release(c)
    BY <2>6, ReleaseMoves
  <2>7. CASE LoseStore(c)
    BY <2>7, LoseMoves
  <2> QED
    BY <1>2, <2>1, <2>2, <2>3, <2>4, <2>5, <2>6, <2>7 DEF ClientCall, ClientStep
<1> QED
  BY <1>1, <1>2

\* The connection of the worker: what a step of its thread makes of it
Dropping(k) ==
    /\ wp[k] \in {"request", "attach"} /\ wp'[k] = "done"
    /\ connected'[k] = "no" /\ reply'[k] \in {reply[k], "failed"} /\ wsess'[k] = wsess[k]

Creating(k) ==
    /\ wp[k] = "request" /\ request[k] = "create" /\ wp'[k] = "starting"
    /\ state'[k] = "starting" /\ request'[k] = "none" /\ wsess'[k] \in Ids
    /\ reply'[k] = reply[k] /\ connected'[k] = connected[k]

Looking(k) ==
    /\ wp[k] = "request" /\ request[k] = "open" /\ wp'[k] = "attach"
    /\ request'[k] = request[k] /\ wsess'[k] = wsess[k]
    /\ reply'[k] = reply[k] /\ connected'[k] = connected[k]

Attaching(k) ==
    /\ wp[k] = "attach" /\ wp'[k] = "starting"
    /\ state'[k] = "starting" /\ request'[k] = "none" /\ wsess'[k] = wsess[k]
    /\ reply'[k] = reply[k] /\ connected'[k] = connected[k]

Starting(k) ==
    /\ wp[k] = "starting" /\ state'[k] = "running"
    /\ request'[k] = request[k] /\ wsess'[k] = wsess[k] /\ connected'[k] = connected[k]
    /\ connected[k] = "yes" => wp'[k] = "serve" /\ reply'[k] = "ok"
    /\ wp'[k] \in Inside

Answering(k) ==
    /\ wp[k] = "serve" /\ request[k] \in {"configure", "store", "unstore"}
    /\ request'[k] = "none" /\ state'[k] = state[k] /\ wsess'[k] = wsess[k]
    /\ connected'[k] = connected[k] /\ wp'[k] \in Inside
    /\ connected[k] = "yes" => wp'[k] = "serve" /\ reply'[k] \in {"ok", "failed"}

Farewell(k) ==
    /\ wp[k] = "serve" /\ request[k] = "close" /\ request'[k] = "none"
    /\ wsess'[k] = wsess[k] /\ connected'[k] = connected[k] /\ wp'[k] \in Inside
    /\ connected[k] = "yes" => reply'[k] = "ok"

Parting(k) ==
    /\ \/ /\ wp[k] = "serve" /\ wp'[k] = "finish"
          /\ state[k] = "stopping" \/ connected[k] = "no" \/ request[k] # "none"
       \/ wp[k] \in {"finish", "detach", "last"} /\ (GaveUp(k)' \/ connected'[k] = "no")
       \/ wp[k] = "release"
    /\ wp'[k] \notin {"request", "attach"}
    /\ request'[k] = request[k] \/ (request'[k] = "none" /\ connected'[k] = "no")
    /\ wsess'[k] = wsess[k]
    /\ reply'[k] = reply[k] /\ connected'[k] \in {connected[k], "no"}

WireStep(k) ==
    \/ WireSame(k) \/ Dropping(k) \/ Creating(k) \/ Looking(k) \/ Attaching(k)
    \/ Starting(k) \/ Answering(k) \/ Farewell(k) \/ Parting(k)

\* The thread of connection k touches no other.
Framed(k) ==
    WireStep(k) /\ (\A j \in Connections \ {k} : WireSame(j)) /\ closer' = closer

\* A worker touches its connection only, unless it ends the process.
LEMMA WorkerWires ==
    ASSUME ServerInv, NEW k \in Connections, WorkerAct(k), ~DetachStoreThrows(k)
    PROVE  /\ WireStep(k)
           /\ \A j \in Connections \ {k} : WireSame(j)
           /\ UNCHANGED <<cl, call, died, closer>>
<1>1. UNCHANGED <<cl, call, died>>
  <2>1. \E i \in Connections : WorkerAct(i)
    OBVIOUS
  <2> QED
    BY <2>1, ServerKeeps DEF client
<1>2. SUFFICES Framed(k)
  BY <1>1 DEF Framed
<1>3. ASSUME NEW x, Meets(x)
      PROVE  Framed(k)
  BY <1>3 DEF Meets, wires, Framed, WireStep, WireSame
<1>4. ASSUME DropRequest(k), wp[k] \in {"request", "attach"}
      PROVE  Framed(k)
  <2>1. Dropping(k)
    BY <1>4 DEF DropRequest, Take, Ret, GoTo, Dropping, ServerInv, Types, WireTypes, ServerTypes
  <2>2. \A j \in Connections \ {k} : WireSame(j)
    BY <1>4 DEF DropRequest, Take, Ret, GoTo, WireSame, ServerInv, Types, WireTypes, ServerTypes
  <2> QED
    BY <1>4, <2>1, <2>2 DEF Framed, WireStep, DropRequest
<1>5. CASE HandleSessionCreate(k)
  <2>1. CASE ~canCreate
    BY <1>4, <1>5, <2>1 DEF HandleSessionCreate
  <2>2. CASE canCreate
    <3>5. PICK s \in Ids : \E v : AddWorker(k, s, v)
      BY <1>5, <2>2 DEF HandleSessionCreate
    <3>1. PICK v : AddWorker(k, s, v)
      BY <3>5
    <3>2. /\ Take(k) /\ UNCHANGED <<reply, connected, closer>>
          /\ wp[k] = "request" /\ request[k] = "create"
      BY <1>5, <2>2 DEF HandleSessionCreate
    <3>3. Creating(k)
      BY <3>1, <3>2 DEF AddWorker, GoTo, Take, Creating, ServerInv, Types, WireTypes, ServerTypes
    <3>4. \A j \in Connections \ {k} : WireSame(j)
      BY <3>1, <3>2 DEF AddWorker, GoTo, Take, WireSame, ServerInv, Types, WireTypes, ServerTypes
    <3> QED
      BY <3>2, <3>3, <3>4 DEF Framed, WireStep
  <2> QED
    BY <2>1, <2>2
<1>6. CASE HandleSessionOpen(k)
  <2>1. CASE DropRequest(k)
    BY <1>4, <1>6, <2>1 DEF HandleSessionOpen
  <2>2. CASE ~DropRequest(k)
    <3>1. Looking(k)
      BY <1>6, <2>2 DEF HandleSessionOpen, GoTo, wires, Looking, ServerInv, Types, WireTypes, ServerTypes
    <3>2. (\A j \in Connections \ {k} : WireSame(j)) /\ UNCHANGED closer
      BY <1>6, <2>2 DEF HandleSessionOpen, GoTo, wires, WireSame, ServerInv, Types, WireTypes, ServerTypes
    <3> QED
      BY <3>1, <3>2 DEF Framed, WireStep
  <2> QED
    BY <2>1, <2>2
<1>7. CASE AttachSession(k)
  <2>1. CASE Meets(k)
    BY <1>3, <2>1
  <2>2. CASE DropRequest(k)
    BY <1>4, <1>7, <2>2 DEF AttachSession
  <2>3. ASSUME ~Meets(k), ~DropRequest(k)
        PROVE  Framed(k)
    <3>1. PICK v : AddWorker(k, wsess[k], v)
      BY <1>7, <2>3 DEF AttachSession
    <3>2. Take(k) /\ UNCHANGED <<reply, connected, closer>> /\ wp[k] = "attach"
      BY <1>7, <2>3 DEF AttachSession
    <3>3. Attaching(k)
      BY <3>1, <3>2 DEF AddWorker, GoTo, Take, Attaching, ServerInv, Types, WireTypes, ServerTypes
    <3>4. \A j \in Connections \ {k} : WireSame(j)
      BY <3>1, <3>2 DEF AddWorker, GoTo, Take, WireSame, ServerInv, Types, WireTypes, ServerTypes
    <3> QED
      BY <3>2, <3>3, <3>4 DEF Framed, WireStep
  <2> QED
    BY <2>1, <2>2, <2>3
<1>8. CASE WorkerStart(k)
  <2>1. Starting(k)
    BY <1>8 DEF WorkerStart, Ret, GoTo, Starting, Inside, ServerInv, Types, WireTypes, ServerTypes
  <2>2. (\A j \in Connections \ {k} : WireSame(j)) /\ UNCHANGED closer
    BY <1>8 DEF WorkerStart, Ret, GoTo, WireSame, ServerInv, Types, WireTypes, ServerTypes
  <2> QED
    BY <2>1, <2>2 DEF Framed, WireStep
<1>9. CASE \/ HandleSetConfiguration(k) \/ HandleStoreCreate(k) \/ NothingToClose(k)
           \/ CloseStoreDone(k)
  <2>1. PICK status \in {"ok", "failed"} : Served(k, status)
    BY <1>9 DEF HandleSetConfiguration, HandleStoreCreate, NothingToClose, CloseStoreDone
  <2>2. /\ wp[k] = "serve" /\ request[k] \in {"configure", "store", "unstore"}
        /\ UNCHANGED state
    BY <1>9 DEF HandleSetConfiguration, HandleStoreCreate, NothingToClose, CloseStoreDone,
                Serving
  <2>3. Answering(k)
    BY <2>1, <2>2 DEF Served, Take, Ret, GoTo, Answering, Inside, ServerInv, Types, WireTypes, ServerTypes
  <2>4. (\A j \in Connections \ {k} : WireSame(j)) /\ UNCHANGED closer
    BY <2>1, <2>2 DEF Served, Take, Ret, GoTo, WireSame, ServerInv, Types, WireTypes, ServerTypes
  <2> QED
    BY <2>3, <2>4 DEF Framed, WireStep
<1>10. CASE HandleSessionClose(k)
  <2>1. Farewell(k)
    BY <1>10 DEF HandleSessionClose, Serving, Served, Take, Ret, GoTo, Farewell, Inside, ServerInv, Types, WireTypes, ServerTypes
  <2>2. (\A j \in Connections \ {k} : WireSame(j)) /\ UNCHANGED closer
    BY <1>10 DEF HandleSessionClose, Served, Take, Ret, GoTo, WireSame, ServerInv, Types, WireTypes, ServerTypes
  <2> QED
    BY <2>1, <2>2 DEF Framed, WireStep
<1>11. CASE LeaveLoop(k) \/ Drop(k) \/ Finish(k)
  <2>1. Parting(k)
    BY <1>11 DEF LeaveLoop, Drop, Finish, GoTo, wires, shouldStop, Parting, GaveUp, ServerInv, Types, WireTypes, ServerTypes
  <2>2. (\A j \in Connections \ {k} : WireSame(j)) /\ UNCHANGED closer
    BY <1>11 DEF LeaveLoop, Drop, Finish, GoTo, wires, WireSame, ServerInv, Types, WireTypes, ServerTypes
  <2> QED
    BY <2>1, <2>2 DEF Framed, WireStep
<1>12. CASE DetachWorker(k) \/ DetachLast(k)
  <2>1. ~isRunning(k)
    BY <1>12, HasFinished DEF DetachWorker, DetachLast, ServerInv
  <2>2. /\ wp[k] \in {"detach", "last"} /\ UNCHANGED <<wsess, reply, closer>>
        /\ \E w \in {"last", "done", "release"} : GoTo(k, w)
        /\ (GoTo(k, "last") /\ UNCHANGED <<request, connected, state>>) \/ Gone(k)
    <3>1. CASE DetachWorker(k)
      BY <2>1, <3>1 DEF DetachWorker, wires
    <3>2. CASE DetachLast(k)
      BY <2>1, <3>2 DEF DetachLast
    <3> QED
      BY <1>12, <3>1, <3>2
  <2>3. Parting(k)
    BY <2>2 DEF Gone, GoTo, Parting, GaveUp, ServerInv, Types, WireTypes, ServerTypes
  <2>4. \A j \in Connections \ {k} : WireSame(j)
    BY <2>2 DEF Gone, GoTo, WireSame, ServerInv, Types, WireTypes, ServerTypes
  <2> QED
    BY <2>2, <2>3, <2>4 DEF Framed, WireStep
<1>13. CASE ReleaseSession(k)
  <2>1. CASE Meets(k)
    BY <1>3, <2>1
  <2>2. ASSUME ~Meets(k)
        PROVE  Framed(k)
    <3>1. Parting(k)
      BY <1>13, <2>2 DEF ReleaseSession, GoTo, wires, Parting, ServerInv, Types, WireTypes, ServerTypes
    <3>2. (\A j \in Connections \ {k} : WireSame(j)) /\ UNCHANGED closer
      BY <1>13, <2>2 DEF ReleaseSession, GoTo, wires, WireSame, ServerInv, Types, WireTypes, ServerTypes
    <3> QED
      BY <3>1, <3>2 DEF Framed, WireStep
  <2> QED
    BY <2>1, <2>2
<1> QED
  BY <1>5, <1>6, <1>7, <1>8, <1>9, <1>10, <1>11, <1>12, <1>13 DEF WorkerAct, PlainStep

\* The conversation goes on.
LEMMA TalkGoesOn ==
    ASSUME ServerInv, ClientInv, NEW c \in Clients, NEW k \in call[c].conn, k \in Connections,
           UNCHANGED call, WireStep(k), connected'[k] = "yes"
    PROVE  Talk(c, k)'
<1>1. connected[k] = "yes"
  BY DEF WireStep, WireSame, Dropping, Creating, Looking, Attaching, Starting, Answering,
         Farewell, Parting
<1>2. Talk(c, k) /\ (wp[k] \in {"request", "attach"} => call[c].at \in {"creating", "opening"})
  BY <1>1 DEF ClientInv, Link, Pending
<1>3. wp[k] \in Inside => wsess[k] \in Ids
  BY DEF ServerInv, ServerGood, WorkerGood
<1>4. CASE WireSame(k)
  BY <1>2, <1>4 DEF WireSame, Talk, Asked, Attends, GaveUp
<1>5. CASE Creating(k) \/ Looking(k) \/ Attaching(k)
  BY <1>2, <1>5 DEF Creating, Looking, Attaching, Talk, Storing
<1>6. CASE Starting(k)
  BY <1>1, <1>2, <1>3, <1>6 DEF Starting, Talk, Storing, Attends, GaveUp
<1>7. CASE Answering(k)
  BY <1>1, <1>2, <1>7 DEF Answering, Talk, Storing, Asked, Attends, GaveUp
<1>8. CASE Farewell(k)
  BY <1>1, <1>2, <1>8 DEF Farewell, Talk, Storing, Asked, Attends, GaveUp
<1>9. CASE Parting(k)
  BY <1>1, <1>2, <1>9 DEF Parting, Talk, Storing, Attends, GaveUp
<1> QED
  BY <1>4, <1>5, <1>6, <1>7, <1>8, <1>9 DEF WireStep, Dropping

\* A thread and its connection fit together after a step of its worker.
LEMMA LinkGoesOn ==
    ASSUME ServerInv, ClientInv, NEW c \in Clients, NEW k \in call[c].conn, k \in Connections,
           UNCHANGED call, WireStep(k)
    PROVE  Link(c)'
<1>1. Link(c) /\ call[c].conn = {k}
  <2>1. Link(c)
    BY DEF ClientInv
  <2>2. call[c].at \in Waiting \cup {"in", "broken"}
    BY <2>1 DEF Link, ServerInv, Types, ClientTypes, CallType, Places
  <2> QED
    BY <2>1, <2>2 DEF Link
<1>2. connected'[k] = "yes" => Talk(c, k)'
  BY TalkGoesOn
<1>3. connected'[k] # "unused"
  BY <1>1 DEF Link, WireStep, WireSame, Dropping, Creating, Looking, Attaching, Starting,
              Answering, Farewell, Parting
<1>4. call[c].at # "creating" => wsess'[k] = call[c].session
  <2>1. ASSUME Creating(k) PROVE call[c].at = "creating"
    BY <1>1, <2>1 DEF Link, Creating, Pending
  <2> QED
    BY <1>1, <2>1 DEF Link, WireStep, WireSame, Dropping, Looking, Attaching, Starting,
                      Answering, Farewell, Parting
<1>5. call[c].at = "creating" /\ reply'[k] = "ok" => wsess'[k] \in Ids
  <2>1. wp[k] \in Inside => wsess[k] \in Ids
    BY DEF ServerInv, ServerGood, WorkerGood
  <2> QED
    BY <1>1, <2>1 DEF Link, WireStep, WireSame, Dropping, Creating, Looking, Attaching, Starting,
                      Answering, Farewell, Parting, Inside
<1>6. wp'[k] \in {"request", "attach"} => Pending(c, k)'
  BY <1>1 DEF Link, Pending, WireStep, WireSame, Dropping, Creating, Looking, Attaching, Starting,
              Answering, Farewell, Parting, Inside
<1> QED
  BY <1>1, <1>2, <1>3, <1>4, <1>5, <1>6 DEF Link

\* No session is forgotten.
PhasesLast == \A t \in Ids : sess[t].phase # "none" => sess'[t].phase # "none"

\* A session a connection is bound to is the one before, or new.
NewSessions ==
    \A k \in Connections :
        \/ wsess'[k] = wsess[k]
        \/ /\ cl[wsess'[k]].phase = "none" /\ sess'[wsess'[k]].phase # "none"
           /\ \A d \in Clients : call[d].session # wsess'[k]

\* A step of the server that keeps connections linked and creates sessions the
\* client does not know keeps the invariant of the client.
LEMMA ServerSideGood ==
    ASSUME ServerInv, ClientInv, UNCHANGED <<cl, call>>, Early', PhasesLast, NewSessions,
           \A c \in Clients : Link(c)'
    PROVE  ClientInv'
<1>1. Distinct' /\ (\A c, d \in Clients : Rules(c, d)') /\ (\A c \in Clients : Opening(c)')
  BY DEF ClientInv, Distinct, Rules, Opening
<1>2. ASSUME NEW c \in Clients PROVE Fresh(c)'
  <2>1. SUFFICES ASSUME call[c].at = "creating", NEW k \in call[c].conn, wsess'[k] # 0
                 PROVE  /\ cl[wsess'[k]].phase = "none" /\ sess'[wsess'[k]].phase # "none"
                        /\ \A d \in Clients : call[d].session # wsess'[k]
    BY DEF Fresh
  <2>2. k \in Connections /\ wsess[k] \in Ids \cup {0}
    BY DEF ServerInv, Types, ClientTypes, CallType, ServerTypes
  <2>3. CASE wsess'[k] = wsess[k]
    BY <2>1, <2>2, <2>3 DEF ClientInv, Fresh, PhasesLast
  <2>4. CASE wsess'[k] # wsess[k]
    BY <2>2, <2>4 DEF NewSessions
  <2> QED
    BY <2>3, <2>4
<1>3. ASSUME NEW t \in Ids PROVE ClientSession(t)'
  BY DEF ClientInv, ClientSession, Threads, PhasesLast
<1> QED
  BY <1>1, <1>2, <1>3 DEF ClientInv

\* No session of the server is forgotten, and a new one is unknown to the client.
LEMMA WorkerPhases ==
    ASSUME ServerInv, ClientInv, NEW k \in Connections, WorkerAct(k)
    PROVE  PhasesLast /\ NewSessions
<1> USE DEF ServerInv, Types, ServerTypes
<1>1. CASE HandleSessionCreate(k)
  <2>1. CASE DropRequest(k)
    BY <2>1 DEF DropRequest, PhasesLast, NewSessions
  <2>2. CASE ~DropRequest(k)
    <3>1. PICK new : new = [phase |-> "open", alive |-> TRUE, refs |-> 1,
                            workers |-> {}, store |-> FALSE]
      OBVIOUS
    <3>2. PICK s \in Ids : sess[s].phase = "none" /\ AddWorker(k, s, new)
      BY <1>1, <2>2, <3>1 DEF HandleSessionCreate
    <3>3. new.phase = "open" /\ new \in SessionType
      BY <3>1 DEF SessionType, Phases
    <3>4. [new EXCEPT !.workers = @ \cup {k}].phase = "open"
      BY <3>3 DEF SessionType
    <3>5. sess'[s].phase = "open" /\ wsess'[k] = s /\ PhasesLast
          /\ \A j \in Connections \ {k} : wsess'[j] = wsess[j]
      BY <3>2, <3>4 DEF AddWorker, PhasesLast
    <3>6. cl[s].phase = "none"
      BY <3>2 DEF ClientInv, ClientSession
    <3>7. \A d \in Clients : call[d].session # s
      BY <3>2, <3>6 DEF ClientInv, Opening, Ids
    <3> QED
      BY <3>5, <3>6, <3>7 DEF NewSessions
  <2> QED
    BY <2>1, <2>2
<1>2. CASE AttachSession(k)
  <2>1. CASE Meets(k) \/ DropRequest(k)
    BY <2>1 DEF Meets, DropRequest, PhasesLast, NewSessions
  <2>2. CASE ~(Meets(k) \/ DropRequest(k))
    <3>1. PICK s : s = wsess[k]
      OBVIOUS
    <3>2. PICK r : r = sess[s]
      OBVIOUS
    <3>3. AddWorker(k, s, CountThread(r)) /\ wp[k] = "attach"
      BY <1>2, <2>2, <3>1, <3>2 DEF AttachSession
    <3>4. s \in Ids /\ r \in SessionType
      BY <3>1, <3>2, <3>3 DEF ServerGood, WorkerGood
    <3>5. [CountThread(r) EXCEPT !.workers = @ \cup {k}].phase = r.phase
      BY <3>4 DEF CountThread, SessionType
    <3>6. sess'[s].phase = r.phase /\ \A t \in Ids \ {s} : sess'[t] = sess[t]
      BY <3>3, <3>4, <3>5 DEF AddWorker
    <3>7. \A j \in Connections : wsess'[j] = wsess[j]
      BY <3>1, <3>3 DEF AddWorker
    <3> QED
      BY <3>2, <3>4, <3>6, <3>7 DEF PhasesLast, NewSessions
  <2> QED
    BY <2>1, <2>2
<1>3. CASE \/ HandleSessionOpen(k) \/ WorkerStart(k) \/ HandleSetConfiguration(k)
           \/ NothingToClose(k) \/ HandleSessionClose(k) \/ LeaveLoop(k) \/ Drop(k)
           \/ Finish(k) \/ DetachStoreThrows(k)
  <2>1. UNCHANGED <<sess, wsess>>
    BY <1>3 DEF HandleSessionOpen, WorkerStart, HandleSetConfiguration, NothingToClose,
                HandleSessionClose, LeaveLoop, Drop, Finish, Served, DropRequest,
                DetachStoreThrows, Terminate
  <2> QED
    BY <2>1 DEF PhasesLast, NewSessions
<1>4. CASE HandleStoreCreate(k) \/ CloseStoreDone(k)
  BY <1>4 DEF HandleStoreCreate, CloseStoreDone, Served, PhasesLast, NewSessions, SessionType
<1>5. CASE DetachWorker(k)
  BY <1>5 DEF DetachWorker, Terminate, PhasesLast, NewSessions, SessionType
<1>6. CASE DetachLast(k)
  BY <1>6 DEF DetachLast, Terminate, PhasesLast, NewSessions, SessionType
<1>7. CASE ReleaseSession(k)
  BY <1>7 DEF ReleaseSession, Meets, PhasesLast, NewSessions, SessionType
<1> QED
  BY <1>1, <1>2, <1>3, <1>4, <1>5, <1>6, <1>7 DEF WorkerAct, PlainStep

\* A step of a worker that touches its connection only keeps the invariant of
\* the client.
LEMMA WorkerKept ==
    ASSUME ServerInv, ClientInv, NEW k \in Connections, WorkerAct(k), ~DetachStoreThrows(k)
    PROVE  ClientInv'
<1>1. WireStep(k) /\ (\A j \in Connections \ {k} : WireSame(j))
      /\ UNCHANGED <<cl, call, died, closer>>
  BY WorkerWires
<1>2. Early'
  <2>1. ASSUME NEW j \in Connections, wp'[j] \in {"request", "attach"}
        PROVE  wp[j] \in {"request", "attach"}
    <3>1. CASE j = k
      BY <1>1, <2>1, <3>1 DEF WireStep, WireSame, Dropping, Creating, Looking, Attaching,
                              Starting, Answering, Farewell, Parting, Inside
    <3>2. CASE j # k
      BY <1>1, <2>1, <3>2 DEF WireSame
    <3> QED
      BY <3>1, <3>2
  <2> QED
    BY <1>1, <2>1 DEF Early, ClientInv
<1>3. ASSUME NEW c \in Clients PROVE Link(c)'
  <2>1. CASE k \in call[c].conn
    BY <1>1, <2>1, LinkGoesOn
  <2>2. CASE k \notin call[c].conn
    <3>1. \A j \in call[c].conn : WireSame(j)
      BY <1>1, <2>2 DEF ServerInv, Types, ClientTypes, CallType
    <3> QED
      BY <1>1, <3>1, LinkLeft DEF ClientInv
  <2> QED
    BY <2>1, <2>2
<1> QED
  BY <1>1, <1>2, <1>3, WorkerPhases, ServerSideGood

\* The server cuts connections and leaves those that stand alone.
CutsOnly ==
    /\ UNCHANGED <<cl, call, request, reply, wsess>>
    /\ \A k \in Connections :
          /\ connected'[k] # "unused" \/ connected[k] = "unused"
          /\ connected'[k] = "yes" =>
                 connected[k] = "yes" /\ state'[k] = state[k] /\ wp'[k] = wp[k]
          /\ wp'[k] \in {"request", "attach"} => wp[k] = wp'[k]

\* A thread whose connection is cut is linked to it still.
LEMMA LinkCut ==
    ASSUME ServerInv, ClientInv, CutsOnly, NEW c \in Clients
    PROVE  Link(c)'
<1>1. Link(c)
  BY DEF ClientInv
<1>2. ASSUME NEW k \in call[c].conn
      PROVE  /\ connected'[k] # "unused"
             /\ connected'[k] = "yes" => connected[k] = "yes" /\ Talk(c, k)'
             /\ wp'[k] \in {"request", "attach"} => Pending(c, k)'
  <2>1. k \in Connections
    BY DEF ServerInv, Types, ClientTypes, CallType
  <2>2. connected'[k] = "yes" => connected[k] = "yes" /\ state'[k] = state[k] /\ wp'[k] = wp[k]
    BY <2>1 DEF CutsOnly
  <2>3. Talk(c, k) /\ state'[k] = state[k] /\ wp'[k] = wp[k] => Talk(c, k)'
    BY DEF Talk, Asked, CutsOnly, Attends, GaveUp
  <2> QED
    BY <1>1, <2>1, <2>2, <2>3 DEF Link, CutsOnly, Pending
<1> QED
  BY <1>1, <1>2 DEF Link, CutsOnly

\* The close of a store that throws out of a finalization ends the process.
LEMMA ThrowsKept ==
    ASSUME ServerInv, ClientInv, NEW k \in Connections, DetachStoreThrows(k)
    PROVE  ClientInv'
<1>1. wp[k] = "last" /\ Terminate(k) /\ UNCHANGED <<cl, call, wsess, request, reply, state, closer>>
  BY DEF DetachStoreThrows, Terminate, client
<1>2. wp' = [wp EXCEPT ![k] = "terminate"]
      /\ connected' = [j \in Connections |-> IF connected[j] = "yes" THEN "no" ELSE connected[j]]
  BY <1>1 DEF Terminate, GoTo
<1>3. \A j \in Connections : wp'[j] \in {"request", "attach"} => wp[j] = wp'[j]
  BY <1>2 DEF ServerInv, Types, ServerTypes
<1>4. CutsOnly
  BY <1>1, <1>2, <1>3 DEF CutsOnly, ServerInv, Types, WireTypes
<1>5. Early'
  BY <1>1, <1>3 DEF Early, ClientInv
<1>6. PhasesLast /\ NewSessions
  BY WorkerPhases DEF WorkerAct
<1> QED
  BY <1>1, <1>4, <1>5, <1>6, LinkCut, ServerSideGood

\* The closer cuts connections.
LEMMA CloserKept ==
    ASSUME ServerInv, ClientInv, CloseManager \/ CloserStep
    PROVE  ClientInv'
<1>1. UNCHANGED <<cl, call>>
  BY ServerKeeps DEF client
<1> DEFINE Cut(k) == \/ connected'[k] = connected[k] /\ state'[k] = state[k]
                     \/ connected'[k] = "no"
<1>2. /\ UNCHANGED <<request, reply, wp, wsess>>
      /\ \A k \in Connections : Cut(k)
  <2>1. CASE CloseManager
    BY <2>1 DEF CloseManager, ClosersOwn, wires
  <2>2. ASSUME NEW s \in Ids, CloseSession(s)
        PROVE  UNCHANGED <<request, reply, wp, wsess>> /\ \A k \in Connections : Cut(k)
    BY <2>2 DEF CloseSession, Meets, CloserThrows, ClosersOwn, wires, ServerInv, Types, WireTypes
  <2>3. CASE CloserLocks \/ CloserLeaves
    BY <2>3 DEF CloserLocks, CloserLeaves, Meets, ClosersOwn, wires
  <2>4. CASE FinalizeServer
    BY <2>4 DEF FinalizeServer, ServerInv, Types, WireTypes
  <2>5. ASSUME NEW i \in Connections, CloserStops(i) \/ CloserWaits(i)
        PROVE  UNCHANGED <<request, reply, wp, wsess>> /\ \A k \in Connections : Cut(k)
    BY <2>5 DEF CloserStops, CloserWaits, CloserThrows, ClosersOwn, wires,
                ServerInv, Types, WireTypes
  <2>6. ASSUME NEW i \in Connections, CloserSetsState(i)
        PROVE  UNCHANGED <<request, reply, wp, wsess>> /\ \A k \in Connections : Cut(k)
    BY <2>6 DEF CloserSetsState, ServerInv, Types, WireTypes, ServerTypes
  <2> QED
    BY <2>1, <2>2, <2>3, <2>4, <2>5, <2>6 DEF CloserStep
<1>3. PhasesLast
  <2>1. CASE CloserLeaves
    BY <2>1 DEF CloserLeaves, Meets, PhasesLast, ServerInv, Types, ServerTypes, SessionType
  <2>2. CASE ~CloserLeaves
    <3>1. sess' = sess
      BY <2>2 DEF CloseManager, CloserStep, CloseSession, CloserLocks, CloserStops,
                  CloserSetsState, CloserWaits, FinalizeServer, CloserThrows, Meets, ClosersOwn
    <3> QED
      BY <3>1 DEF PhasesLast
  <2> QED
    BY <2>1, <2>2
<1>4. Early'
  <2>1. CASE CloseManager
    BY <1>2, <2>1 DEF Early, CloseManager
  <2>2. CASE CloserStep
    <3>1. closer.at # "off"
      BY <2>2 DEF CloserStep, CloseSession, CloserLocks, CloserLeaves, CloserStops,
                  CloserSetsState, CloserWaits, FinalizeServer
    <3>2. \A k \in Connections : wp[k] \notin {"request", "attach"}
      BY <3>1 DEF ClientInv, Early
    <3>3. wp' = wp
      BY <1>2
    <3> QED
      BY <3>2, <3>3, SMTT(30) DEF Early
  <2> QED
    BY <2>1, <2>2
<1>5. NewSessions
  BY <1>2 DEF NewSessions
<1>6. CutsOnly
  BY <1>1, <1>2 DEF CutsOnly
<1> QED
  BY <1>1, <1>3, <1>4, <1>5, <1>6, LinkCut, ServerSideGood

\* The invariant of the client holds before the first call.
LEMMA ClientInvInit ==
    ASSUME Init PROVE ClientInv
<1>1. Distinct /\ Early
  BY DEF Init, Distinct, Early
<1>2. \A c \in Clients : Link(c) /\ Fresh(c) /\ Opening(c)
  BY DEF Init, Link, Fresh, Opening, Waiting
<1>3. \A c, d \in Clients : Rules(c, d)
  BY DEF Init, Rules, Exclusive, Storing
<1>4. \A s \in Ids : ClientSession(s)
  BY DEF Init, NoClient, ClientSession, Threads, InSession
<1> QED
  BY <1>1, <1>2, <1>3, <1>4 DEF ClientInv

\* Every step of the two processes keeps the invariant of the client.
LEMMA ClientInvKept ==
    ASSUME ServerInv, ServerInv', ClientInv, [Next]_vars PROVE ClientInv'
<1>1. CASE UNCHANGED <<client, wires, server>>
  <2>1. /\ UNCHANGED <<cl, call, sess, closer, wp, wsess>> /\ \A j : WireSame(j)
    BY <1>1 DEF client, wires, server, WireSame
  <2>2. Early' /\ PhasesLast /\ NewSessions
    BY <2>1 DEF Early, PhasesLast, NewSessions, ClientInv
  <2>3. \A c \in Clients : Link(c)'
    BY <2>1, LinkLeft DEF ClientInv
  <2> QED
    BY <2>1, <2>2, <2>3, ServerSideGood
<1>2. ASSUME NEW k \in Connections, WorkerStep(k) PROVE ClientInv'
  BY <1>1, <1>2, WorkerActs, WorkerKept, ThrowsKept
<1>3. CASE Next
  BY <1>2, <1>3, ClientKept, CloserKept DEF Next, ServerInv
<1> QED
  BY <1>1, <1>3 DEF vars

\* The conversation of the client and the server: every thread has a connection
\* of its own, a worker that serves it works for its session, the calls of a
\* session exclude each other as its locks say, and a session of the client lives
\* as long as it has threads (ClientSession::attach, ClientSession::detach,
\* ClientSessionManager).
THEOREM ClientHolds == Spec => []ClientInv
<1>1. Init => ClientInv
  BY ClientInvInit
<1>2. ServerInv /\ ServerInv' /\ ClientInv /\ [Next]_vars => ClientInv'
  BY ClientInvKept
<1> QED
  BY <1>1, <1>2, ServerHolds, PTL DEF Spec

\* A thread that is part of a session keeps the session of the server open.
LEMMA InOpen ==
    ASSUME ServerInv, ClientInv, NEW c \in Clients, call[c].at \in InSession,
           NEW k \in call[c].conn, connected[k] = "yes"
    PROVE  /\ k \in Connections /\ wp[k] \in Inside /\ call[c].session \in Ids
           /\ wsess[k] = call[c].session
           /\ k \in sess[call[c].session].workers
           /\ sess[call[c].session].phase = "open" /\ sess[call[c].session].alive
<1>1. k \in Connections
  BY DEF ServerInv, Types, ClientTypes, CallType
<1>2. /\ wp[k] \in Inside /\ wsess[k] = call[c].session /\ call[c].session \in Ids
  <2>1. call[c].at \in Storing \cup {"in"}
    BY DEF InSession, Storing
  <2> QED
    BY <1>1, <2>1 DEF ClientInv, Link, Talk, Attends, GaveUp, Inside, InSession, Waiting
<1>3. k \in WorkersOf(call[c].session) /\ SessionGood(call[c].session)
  BY <1>1, <1>2 DEF WorkersOf, ServerInv, ServerGood
<1> QED
  BY <1>1, <1>2, <1>3 DEF SessionGood

\* So does one that attaches to it: another thread is part of it.
LEMMA OpeningOpen ==
    ASSUME ServerInv, ClientInv, QuietInv, NEW c \in Clients, call[c].at = "opening"
    PROVE  sess[call[c].session].phase = "open" /\ sess[call[c].session].alive
<1>1. PICK s : s = call[c].session
  OBVIOUS
<1>2. s \in Ids /\ cl[s].alive
  BY <1>1 DEF ClientInv, Link, Opening, Waiting
<1>3. PICK d \in Clients : call[d].session = s /\ call[d].at \in InSession \cup {"leaving", "broken"}
  BY <1>2 DEF ClientInv, ClientSession, Threads
<1>4. d # c /\ call[d].at # "leaving"
  BY <1>1, <1>3 DEF ClientInv, Rules, Exclusive, InSession
<1>5. call[d].at \in InSession
  BY <1>3, <1>4 DEF QuietInv, Calm
<1>6. PICK k \in Connections : call[d].conn = {k}
  BY <1>5 DEF ClientInv, Link, InSession, Waiting
<1>7. connected[k] = "yes"
  BY <1>5, <1>6 DEF QuietInv, Calm, InSession
<1> QED
  BY <1>1, <1>3, <1>5, <1>6, <1>7, InOpen

\* Who waits for the request of a connection
LEMMA Requested ==
    ASSUME ServerInv, ClientInv, QuietInv, NEW k \in Connections,
           request[k] # "none" \/ wp[k] \in {"request", "attach"}
    PROVE  \E c \in Clients :
              /\ call[c].conn = {k} /\ connected[k] = "yes" /\ Talk(c, k)
              /\ call[c].at # "creating" => wsess[k] = call[c].session /\ call[c].session \in Ids
              /\ call[c].at \in Waiting \cup {"in"}
<1>1. PICK c \in Clients : k \in call[c].conn
  BY DEF QuietInv, Wanted
<1>2. Link(c) /\ Calm(c)
  BY DEF ClientInv, QuietInv
<1>3. connected[k] = "yes"
  BY <1>1, <1>2 DEF Link, Calm, Pending
<1>4. call[c].at \in Waiting \cup {"in", "broken"}
  BY <1>1, <1>2 DEF Link, ServerInv, Types, ClientTypes, CallType, Places
<1>5. call[c].at # "broken"
  BY <1>2 DEF Calm
<1> QED
  BY <1>1, <1>2, <1>3, <1>4, <1>5 DEF Link, Waiting

\* The worker of a thread that is part of a session attends to it.
LEMMA Attended ==
    ASSUME ServerInv, ClientInv, QuietInv, NEW c \in Clients, NEW k \in call[c].conn,
           call[c].at \in InSession \/ request[k] # "none"
    PROVE  call[c].at \in InSession \cup {"leaving"} => Attends(k)
<1>1. k \in Connections /\ Link(c) /\ Calm(c)
  BY DEF ServerInv, Types, ClientTypes, CallType, ClientInv, QuietInv
<1>2. SUFFICES ASSUME call[c].at \in InSession \cup {"leaving"} PROVE Attends(k)
  OBVIOUS
<1>3. connected[k] = "yes" /\ Talk(c, k)
  BY <1>1, <1>2 DEF Calm, Link, InSession
<1>4. CASE call[c].at = "in"
  BY <1>3, <1>4 DEF Talk
<1>5. CASE call[c].at \in Storing
  BY <1>1, <1>3, <1>5 DEF Calm, Talk, Asked, Storing
<1>6. CASE call[c].at = "leaving"
  BY <1>1, <1>3, <1>6 DEF Calm, Talk, InSession
<1> QED
  BY <1>2, <1>4, <1>5, <1>6 DEF InSession, Storing

\* What is left of the calm when thread c moves
QuietMoves(c) ==
    /\ Calm(c)'
    /\ \A t \in Ids : Agreed(t)'
    /\ \A t \in Ids :
          cl'[t].store => cl[t].store \/ (call[c].at = "storing" /\ call[c].session = t)
    /\ \A k \in Connections : k \notin call[c].conn \cup call'[c].conn => WireSame(k)
    /\ \A k \in call[c].conn \ call'[c].conn :
          request'[k] = "none" /\ wp'[k] \notin {"request", "attach"}
    /\ \A k \in Connections : wp'[k] = "release" => wp[k] = "release" /\ wsess'[k] = wsess[k]
    /\ UNCHANGED <<canCreate, lost, unclosed>>

\* A quiet step of thread c that keeps its own part leaves the rest calm.
LEMMA QuietMovesGood ==
    ASSUME ServerInv, ClientInv, QuietInv, NEW c \in Clients, MovesAlone(c), QuietMoves(c)
    PROVE  QuietInv'
<1>1. ASSUME NEW d \in Clients, d # c PROVE Calm(d)'
  <2>1. call'[d] = call[d] /\ (\A k \in call[d].conn : WireSame(k)) /\ sess' = sess
    BY <1>1 DEF MovesAlone
  <2>2. call[d].at \in {"configuring", "storing"} => ~cl'[call[d].session].store
    <3>1. ASSUME call[d].at \in {"configuring", "storing"} PROVE ~cl'[call[d].session].store
      <4>1. call[d].session \in Ids /\ \E k : k \in call[d].conn
        BY <3>1 DEF ClientInv, Link, Waiting
      <4>2. ~cl[call[d].session].store
        BY <3>1, <4>1 DEF QuietInv, Calm
      <4>3. ~(call[c].at = "storing" /\ call[c].session = call[d].session)
        BY <1>1, <3>1 DEF ClientInv, Rules, Storing
      <4> QED
        BY <4>1, <4>2, <4>3 DEF QuietMoves
    <3> QED
      BY <3>1
  <2>3. Calm(d) /\ unclosed' = unclosed
    BY DEF QuietInv, QuietMoves
  <2> QED
    BY <2>1, <2>2, <2>3 DEF Calm, WireSame, GaveUp, NoStore
<1>2. ASSUME NEW k \in Connections PROVE Wanted(k)'
  <2>1. ASSUME request'[k] # "none" \/ wp'[k] \in {"request", "attach"}
        PROVE  \E d \in Clients : k \in call'[d].conn
    <3>1. CASE k \in call'[c].conn
      BY <3>1
    <3>2. CASE k \notin call'[c].conn
      <4>1. k \notin call[c].conn
        BY <2>1, <3>2 DEF QuietMoves
      <4>2. WireSame(k)
        BY <3>2, <4>1 DEF QuietMoves
      <4>3. PICK d \in Clients : k \in call[d].conn
        BY <2>1, <4>2 DEF QuietInv, Wanted, WireSame
      <4> QED
        BY <4>1, <4>3 DEF MovesAlone
    <3> QED
      BY <3>1, <3>2
  <2>2. ASSUME wp'[k] = "release"
        PROVE  /\ sess'[wsess'[k]].phase = "open"
               /\ \A j \in Connections : wp'[j] = "release" /\ wsess'[j] = wsess'[k] => j = k
    BY <2>2 DEF QuietMoves, QuietInv, Wanted, MovesAlone
  <2> QED
    BY <2>1, <2>2 DEF Wanted
<1>3. Calm(c)' /\ (\A t \in Ids : Agreed(t)') /\ UNCHANGED <<canCreate, lost>>
  BY DEF QuietMoves
<1> QED
  BY <1>1, <1>2, <1>3 DEF QuietInv

\* The store stays as both sides know it, unless thread c has been at it.
LEMMA StillAgreed ==
    ASSUME QuietInv, NEW c \in Clients, NEW t \in Ids,
           \A d \in Clients \ {c} : call'[d] = call[d],
           call[c].at \notin Storing \/ call[c].session # t
           \/ (call'[c].at \in Storing /\ call'[c].session = t),
           sess'[t].store = sess[t].store, unclosed' = unclosed,
           cl'[t].alive => cl[t].alive /\ cl'[t].store = cl[t].store
    PROVE  Agreed(t)'
<1>1. StoreFree(t)' => StoreFree(t)
  BY DEF StoreFree, Storing
<1> QED
  BY <1>1 DEF QuietInv, Agreed, NoStore

\* A new connection
LEMMA ConnectQuiet ==
    ASSUME ServerInv, Types', ClientInv, QuietInv, NEW c \in Clients, CreateSession(c) \/ Attach(c),
           unclosed' = unclosed
    PROVE  QuietInv'
<1> USE DEF ServerInv
<1>1. PICK k : k = CHOOSE j \in Unused : TRUE
  OBVIOUS
<1>2. PICK at, r, s : Connect(c, at, s, r) /\ at \in {"creating", "opening"}
                      /\ (at = "creating" => s = 0)
  BY DEF CreateSession, Attach
<1>3. /\ k \in Connections /\ connected[k] = "unused"
      /\ call' = [call EXCEPT ![c] = [at |-> at, conn |-> {k}, session |-> s]]
      /\ connected' = [connected EXCEPT ![k] = "yes"]
      /\ request' = [request EXCEPT ![k] = r] /\ reply' = [reply EXCEPT ![k] = "none"]
      /\ wp' = [wp EXCEPT ![k] = "request"] /\ wsess' = [wsess EXCEPT ![k] = s]
      /\ UNCHANGED <<cl, died, sess, holder, state, canCreate, closer, lost>>
  BY <1>1, <1>2 DEF Connect, Unused, Send
<1>4. call'[c].at = at /\ call'[c].conn = {k} /\ call'[c].session = s
      /\ \A d \in Clients \ {c} : call'[d] = call[d]
  BY <1>3 DEF Types, ClientTypes
<1>5. connected'[k] = "yes" /\ request'[k] = r /\ reply'[k] = "none" /\ wp'[k] = "request"
      /\ wsess'[k] = s /\ \A j \in Connections \ {k} : WireSame(j)
  BY <1>3 DEF Types, ServerTypes, WireTypes, WireSame
<1>6. MovesAlone(c)
  BY CallMoves
<1>7. call[c].at \in {"out", "find"} /\ call[c].conn = {}
  BY DEF CreateSession, Attach, ClientInv, Link
<1>8. Calm(c)'
  BY <1>2, <1>4, <1>5 DEF Calm, GaveUp
<1>9. ASSUME NEW t \in Ids PROVE Agreed(t)'
  BY <1>3, <1>4, <1>7, StillAgreed DEF Storing
<1>10. \A j \in Connections : wp'[j] = "release" => wp[j] = "release" /\ wsess'[j] = wsess[j]
  BY <1>5 DEF WireSame
<1>11. QuietMoves(c)
  BY <1>3, <1>4, <1>5, <1>7, <1>8, <1>9, <1>10 DEF QuietMoves
<1> QED
  BY <1>6, <1>11, QuietMovesGood

\* A thread looks for a session, or gives up.
LEMMA FindQuiet ==
    ASSUME ServerInv, Types', ClientInv, QuietInv, NEW c \in Clients,
           AttachThrows(c) \/ \E s \in Ids : Find(c, s),
           unclosed' = unclosed
    PROVE  QuietInv'
<1> USE DEF ServerInv
<1>1. PICK at, s : call' = [call EXCEPT ![c] = [at |-> at, conn |-> {}, session |-> s]]
                   /\ at \in {"out", "find"}
  BY DEF AttachThrows, Find, FindSession
<1>2. call'[c].at = at /\ call'[c].conn = {}
      /\ \A d \in Clients \ {c} : call'[d] = call[d]
  BY <1>1 DEF Types, ClientTypes
<1>3. UNCHANGED <<cl, sess, canCreate, lost, wp, wsess>> /\ \A j : WireSame(j)
  BY DEF AttachThrows, Find, wires, server, WireSame
<1>4. call[c].at \in {"out", "find"} /\ call[c].conn = {}
  BY DEF AttachThrows, Find, FindSession, ClientInv, Link
<1>5. MovesAlone(c)
  BY FindMoves
<1>6. Calm(c)'
  BY <1>1, <1>2 DEF Calm
<1>7. ASSUME NEW t \in Ids PROVE Agreed(t)'
  BY <1>2, <1>3, <1>4, StillAgreed DEF Storing
<1>8. QuietMoves(c)
  BY <1>2, <1>3, <1>4, <1>6, <1>7 DEF QuietMoves
<1> QED
  BY <1>5, <1>8, QuietMovesGood

\* A thread that is in goes on.
LEMMA ContinueQuiet ==
    ASSUME ServerInv, Types', ClientInv, QuietInv, NEW c \in Clients,
           OpenStore(c) \/ CloseStore(c) \/ Detach(c),
           unclosed' = unclosed
    PROVE  QuietInv'
<1> USE DEF ServerInv
<1>1. PICK s : s = call[c].session
  OBVIOUS
<1>2. PICK at, r :
        /\ Continue(c, at, r)
        /\ \/ at = "configuring" /\ StoreFree(s) /\ ~cl[s].store
           \/ at \in {"unstoring", "emptying", "leaving"}
  BY <1>1 DEF OpenStore, CloseStore, Detach
<1>3. call[c].at = "in"
  BY DEF OpenStore, CloseStore, Detach
<1>4. PICK k \in Connections : call[c].conn = {k}
  BY <1>3 DEF ClientInv, Link
<1>5. /\ connected[k] = "yes"
      /\ request' = [request EXCEPT ![k] = r] /\ reply' = [reply EXCEPT ![k] = "none"]
      /\ call' = [call EXCEPT ![c].at = at]
      /\ UNCHANGED <<cl, connected, sess, wp, wsess, state, closer, canCreate, lost>>
  BY <1>2, <1>4 DEF Continue, Send, Move, server
<1>6. call'[c].at = at /\ call'[c].conn = {k} /\ call'[c].session = s
      /\ \A d \in Clients \ {c} : call'[d] = call[d]
  BY <1>1, <1>4, <1>5 DEF Types, ClientTypes, CallType
<1>7. request'[k] = r /\ reply'[k] = "none" /\ \A j \in Connections \ {k} : WireSame(j)
  BY <1>5 DEF Types, WireTypes, WireSame
<1>8. MovesAlone(c)
  BY ContinueMoves
<1>9. Calm(c)'
  <2>1. s \in Ids /\ cl[s].alive
    BY <1>1, <1>3 DEF ClientInv, Link, ClientSession, Threads, InSession
  <2>2. at = "configuring" => ~cl[s].store /\ NoStore(s)
    <3>1. ASSUME at = "configuring" PROVE ~cl[s].store /\ NoStore(s)
      <4>1. StoreFree(s) /\ ~cl[s].store
        BY <1>2, <3>1
      <4>2. Agreed(s)
        BY <2>1 DEF QuietInv
      <4> QED
        BY <2>1, <4>1, <4>2 DEF Agreed
    <3> QED
      BY <3>1
  <2>3. Attends(k)
    BY <1>3, <1>4, Attended DEF InSession
  <2> QED
    BY <1>2, <1>5, <1>6, <1>7, <2>2, <2>3 DEF Calm, NoStore, Attends, GaveUp
<1>10. ASSUME NEW t \in Ids PROVE Agreed(t)'
  BY <1>3, <1>5, <1>6, StillAgreed DEF Storing
<1>11. QuietMoves(c)
  BY <1>4, <1>5, <1>6, <1>7, <1>9, <1>10 DEF QuietMoves
<1> QED
  BY <1>8, <1>11, QuietMovesGood

\* _releaseSession of the client
LEMMA ReleaseQuiet ==
    ASSUME ServerInv, Types', ClientInv, QuietInv, NEW c \in Clients, Release(c),
           unclosed' = unclosed
    PROVE  QuietInv'
<1> USE DEF ServerInv
<1>1. call' = [call EXCEPT ![c] = [at |-> "out", conn |-> {}, session |-> 0]]
  BY DEF Release
<1>2. call'[c].at = "out" /\ call'[c].conn = {}
      /\ \A d \in Clients \ {c} : call'[d] = call[d]
  BY <1>1 DEF Types, ClientTypes
<1>3. UNCHANGED <<sess, canCreate, lost, wp, wsess>> /\ \A j : WireSame(j)
  BY DEF Release, wires, server, WireSame
<1>4. call[c].at = "release" /\ call[c].conn = {} /\ call[c].session \in Ids
  BY DEF Release, ClientInv, Link
<1>5. MovesAlone(c)
  BY ReleaseMoves
<1>6. Calm(c)'
  BY <1>2 DEF Calm
<1>7. \A t \in Ids : cl'[t].store = cl[t].store /\ cl'[t].alive = cl[t].alive
  <2>1. ASSUME NEW r \in ClientType
        PROVE  /\ [r EXCEPT !.phase = "freed"].store = r.store
               /\ [r EXCEPT !.phase = "freed"].alive = r.alive
    BY DEF ClientType
  <2>2. PICK s : s = call[c].session
    OBVIOUS
  <2>3. PICK v : v = [cl[s] EXCEPT !.phase = "freed"]
    OBVIOUS
  <2>4. cl' = [cl EXCEPT ![s] = v] /\ s \in Ids
    BY <1>4, <2>2, <2>3 DEF Release, SetClient
  <2>5. cl[s] \in ClientType
    BY <2>4 DEF Types, ClientTypes
  <2>6. v.store = cl[s].store /\ v.alive = cl[s].alive
    BY <2>1, <2>3, <2>5
  <2> QED
    BY <2>4, <2>6 DEF Types, ClientTypes
<1>8. ASSUME NEW t \in Ids PROVE Agreed(t)'
  BY <1>2, <1>3, <1>4, <1>7, StillAgreed DEF Storing
<1>9. QuietMoves(c)
  BY <1>2, <1>3, <1>4, <1>6, <1>7, <1>8 DEF QuietMoves
<1> QED
  BY <1>5, <1>9, QuietMovesGood

\* What a reply leaves to show
Replying(c, s, k) ==
    /\ k \in Connections /\ call[c].conn = {k} /\ MovesAlone(c)
    /\ UNCHANGED <<sess, wp, wsess, state, canCreate, lost, unclosed>>
    /\ \A j \in Connections \ {k} : WireSame(j)
    /\ call[c].at # "creating" => s = call[c].session
    /\ s \in Ids

Replied(c, s, k) ==
    /\ call'[c].conn = {k} \/ (call'[c].conn = {} /\ request'[k] = "none"
                               /\ wp'[k] \notin {"request", "attach"})
    /\ \E v \in ClientType :
         /\ cl' = [cl EXCEPT ![s] = v]
         /\ \/ v.store = cl[s].store /\ (v.alive => cl[s].alive)
               /\ \/ call[c].at \notin Storing
                  \/ call'[c].at \in Storing /\ call'[c].session = s
            \/ /\ v.store => sess[s].store /\ call[c].at = "storing"
               /\ v.store \/ NoStore(s)
    /\ Calm(c)'

\* What a reply has to show for the calm to last
LEMMA RepliedQuiet ==
    ASSUME ServerInv, ClientInv, QuietInv, NEW c \in Clients, NEW s, NEW k,
           Replying(c, s, k), Replied(c, s, k)
    PROVE  QuietInv'
<1> USE DEF ServerInv
<1>1. PICK v \in ClientType :
         /\ cl' = [cl EXCEPT ![s] = v]
         /\ \/ v.store = cl[s].store /\ (v.alive => cl[s].alive)
               /\ \/ call[c].at \notin Storing
                  \/ call'[c].at \in Storing /\ call'[c].session = s
            \/ /\ v.store => sess[s].store /\ call[c].at = "storing"
               /\ v.store \/ NoStore(s)
  BY DEF Replied
<1>2. s \in Ids /\ cl'[s] = v /\ \A t \in Ids \ {s} : cl'[t] = cl[t]
  BY <1>1 DEF Replying, Types, ClientTypes
<1>3. \A d \in Clients \ {c} : call'[d] = call[d]
  BY DEF Replying, MovesAlone
<1>4. sess' = sess /\ unclosed' = unclosed
  BY DEF Replying
<1>5. call[c].at \in Storing => call[c].session = s
  BY DEF Replying, Storing
<1>6. ASSUME NEW t \in Ids, t # s PROVE Agreed(t)'
  BY <1>2, <1>3, <1>4, <1>5, <1>6, StillAgreed
<1>7. Agreed(s)'
  <2>1. CASE (v.store => sess[s].store) /\ (v.store \/ NoStore(s))
    BY <1>2, <1>4, <2>1 DEF Agreed, NoStore
  <2>2. CASE v.store = cl[s].store /\ (v.alive => cl[s].alive)
             /\ (call[c].at \notin Storing \/ (call'[c].at \in Storing /\ call'[c].session = s))
    BY <1>2, <1>3, <1>4, <2>2, StillAgreed
  <2> QED
    BY <1>1, <2>1, <2>2
<1>8. ASSUME NEW t \in Ids, cl'[t].store
      PROVE  cl[t].store \/ (call[c].at = "storing" /\ call[c].session = t)
  BY <1>1, <1>2, <1>5, <1>8 DEF Storing
<1>9. ASSUME NEW j \in Connections, j \notin call[c].conn \cup call'[c].conn PROVE WireSame(j)
  BY <1>9 DEF Replying
<1>10. ASSUME NEW j \in call[c].conn \ call'[c].conn
       PROVE  request'[j] = "none" /\ wp'[j] \notin {"request", "attach"}
  BY <1>10 DEF Replying, Replied
<1>11. ASSUME NEW j \in Connections, wp'[j] = "release"
       PROVE  wp[j] = "release" /\ wsess'[j] = wsess[j]
  BY <1>11 DEF Replying
<1>12. QuietMoves(c)
  BY <1>6, <1>7, <1>8, <1>9, <1>10, <1>11 DEF QuietMoves, Replied, Replying
<1> QED
  BY <1>12, QuietMovesGood DEF Replying

\* Every reply leaves both sides agreed on the store.
LEMMA ReplyQuiet ==
    ASSUME ServerInv, Types', ClientInv, QuietInv, NEW c \in Clients, Reply(c),
           unclosed' = unclosed
    PROVE  QuietInv'
<1> USE DEF ServerInv
<1>1. PICK k : k = CHOOSE j \in call[c].conn : TRUE
  OBVIOUS
<1>2. k \in Connections /\ call[c].conn = {k} /\ MovesAlone(c)
      /\ UNCHANGED <<sess, wp, wsess, state, closer>>
      /\ \A j \in Connections \ {k} : WireSame(j)
  BY <1>1, ReplyAlone
<1>3. PICK s : s = IF call[c].at = "creating" THEN wsess[k] ELSE call[c].session
  OBVIOUS
<1>4. reply[k] = "ok" /\ call[c].at \in Waiting /\ UNCHANGED <<canCreate, lost>>
  BY <1>2 DEF Reply, Answered, server
<1>5. s \in Ids
  BY <1>2, <1>3, <1>4 DEF ClientInv, Link, Waiting
<1>6. cl[s] \in ClientType /\ sess[s] \in SessionType
  BY <1>5 DEF Types, ClientTypes, ServerTypes
<1>7. Replying(c, s, k)
  BY <1>2, <1>3, <1>4, <1>5 DEF Replying
<1>8. SUFFICES Replied(c, s, k)
  BY <1>7, RepliedQuiet
<1>9. call[c].at # "leaving" => connected[k] = "yes"
  BY <1>2 DEF QuietInv, Calm
<1>10. call[c].at # "leaving" => ~GaveUp(k)'
  BY <1>2, <1>4, <1>9 DEF ClientInv, Link, Talk, Attends, GaveUp, Asked, Storing, Waiting
<1>11. ASSUME NEW r \in ClientType
       PROVE  /\ NewClient(c) \in ClientType /\ NewClient(c).store = FALSE
              /\ Entered(r, c) \in ClientType /\ Entered(r, c).store = r.store
              /\ Entered(r, c).alive = r.alive
              /\ Opened(r) \in ClientType /\ Opened(r).store = TRUE
              /\ Closed(r) \in ClientType /\ Closed(r).store = FALSE
              /\ Left(r, c) \in ClientType /\ Left(r, c).store = r.store
              /\ Left(r, c).alive => r.threads # {}
  <2>1. NewClient(c).store = FALSE /\ Opened(r).store = TRUE /\ Closed(r).store = FALSE
    BY <1>11 DEF NewClient, Opened, Closed, ClientType
  <2>2. /\ NewClient(c) \in ClientType
        /\ Entered(r, c) \in ClientType /\ Entered(r, c).store = r.store
        /\ Entered(r, c).alive = r.alive
        /\ Opened(r) \in ClientType /\ Closed(r) \in ClientType
        /\ Left(r, c) \in ClientType /\ Left(r, c).store = r.store
        /\ Left(r, c).alive <=> Left(r, c).threads # {}
        /\ Left(r, c).threads = r.threads \ {c}
    BY <1>11, ClientFields
  <2>3. Left(r, c).alive => r.threads # {}
    BY <2>2
  <2> QED
    BY <2>1, <2>2, <2>3
<1>12. Calm(c)
  BY DEF QuietInv
<1>13. CASE call[c].at = "creating"
  <2>1. PICK v : v = NewClient(c)
    OBVIOUS
  <2>2. /\ cl' = [cl EXCEPT ![s] = v]
        /\ call' = [call EXCEPT ![c].at = "in", ![c].session = s]
        /\ Consume(c) /\ UNCHANGED <<request, connected>>
    BY <1>1, <1>3, <1>13, <2>1 DEF Reply, SetClient, NewClient
  <2>3. call'[c].at = "in" /\ call'[c].conn = {k}
    BY <1>2, <2>2 DEF Types, ClientTypes, CallType
  <2>4. reply'[k] = "none"
    BY <1>2, <2>2 DEF Consume
  <2>5. v \in ClientType /\ v.store = FALSE
    BY <1>6, <1>11, <2>1
  <2>6. NoStore(s)
    <3>1. wsess[k] = s /\ s # 0
      BY <1>3, <1>5, <1>13 DEF Ids
    <3> QED
      BY <1>2, <1>12, <1>13, <3>1 DEF Calm, NoStore
  <2>7. Calm(c)'
    BY <1>9, <1>10, <1>13, <2>2, <2>3, <2>4 DEF Calm
  <2> QED
    BY <2>2, <2>3, <2>5, <2>6, <2>7 DEF Replied
<1>14. CASE call[c].at = "opening"
  <2>1. PICK v : v = Entered(cl[s], c)
    OBVIOUS
  <2>2. /\ cl' = [cl EXCEPT ![s] = v]
        /\ call' = [call EXCEPT ![c].at = "in"]
        /\ Consume(c) /\ UNCHANGED <<request, connected>>
    BY <1>1, <1>3, <1>14, <2>1 DEF Reply, SetClient, Entered, Move
  <2>3. call'[c].at = "in" /\ call'[c].conn = {k}
    BY <1>2, <2>2 DEF Types, ClientTypes, CallType
  <2>4. reply'[k] = "none"
    BY <1>2, <2>2 DEF Consume
  <2>5. v \in ClientType /\ v.store = cl[s].store /\ v.alive = cl[s].alive
    BY <1>6, <1>11, <2>1
  <2>6. Calm(c)'
    BY <1>9, <1>10, <1>14, <2>2, <2>3, <2>4 DEF Calm
  <2> QED
    BY <1>14, <2>2, <2>3, <2>5, <2>6 DEF Replied, Storing
<1>15. CASE call[c].at = "configuring"
  <2>1. /\ call' = [call EXCEPT ![c].at = "storing"] /\ Send(k, "store")
        /\ UNCHANGED <<cl, connected>>
    BY <1>1, <1>15 DEF Reply, Move
  <2>2. call'[c].at = "storing" /\ call'[c].conn = {k} /\ call'[c].session = s
    BY <1>2, <1>3, <1>15, <2>1 DEF Types, ClientTypes, CallType
  <2>3. reply'[k] = "none"
    BY <1>2, <2>1 DEF Send, Types, WireTypes
  <2>4. cl' = [cl EXCEPT ![s] = cl[s]]
    BY <2>1 DEF Types, ClientTypes
  <2>5. ~cl[s].store /\ NoStore(s)
    BY <1>2, <1>3, <1>12, <1>15 DEF Calm
  <2>6. Calm(c)'
    BY <1>2, <1>9, <1>10, <1>15, <2>1, <2>2, <2>3, <2>5 DEF Calm, NoStore
  <2> QED
    BY <1>6, <2>2, <2>4, <2>6 DEF Replied, Storing
<1>16. CASE call[c].at \in {"storing", "unstoring"}
  <2>1. PICK v : v = IF call[c].at = "storing" THEN Opened(cl[s]) ELSE Closed(cl[s])
    OBVIOUS
  <2>2. /\ cl' = [cl EXCEPT ![s] = v]
        /\ call' = [call EXCEPT ![c].at = "in"]
        /\ Consume(c) /\ UNCHANGED <<request, connected>>
    <3>1. CASE call[c].at = "storing"
      BY <1>1, <1>3, <2>1, <3>1 DEF Reply, SetClient, Opened, Move
    <3>2. CASE call[c].at = "unstoring"
      BY <1>1, <1>3, <2>1, <3>2 DEF Reply, SetClient, Closed, Move
    <3> QED
      BY <1>16, <3>1, <3>2
  <2>3. call'[c].at = "in" /\ call'[c].conn = {k}
    BY <1>2, <2>2 DEF Types, ClientTypes, CallType
  <2>4. reply'[k] = "none"
    BY <1>2, <2>2 DEF Consume
  <2>5. v \in ClientType /\ v.store = (call[c].at = "storing")
    BY <1>6, <1>11, <2>1
  <2>6. /\ call[c].at = "storing" => sess[s].store
        /\ call[c].at = "unstoring" => ~sess[s].store
    BY <1>2, <1>3, <1>4, <1>12, <1>16 DEF Calm
  <2>7. (v.store => sess[s].store /\ call[c].at = "storing") /\ (v.store \/ NoStore(s))
    BY <1>16, <2>5, <2>6 DEF NoStore
  <2>8. Calm(c)'
    BY <1>9, <1>10, <1>16, <2>2, <2>3, <2>4 DEF Calm
  <2> QED
    BY <2>2, <2>3, <2>5, <2>7, <2>8 DEF Replied
<1>17. CASE call[c].at = "emptying"
  <2>1. /\ call' = [call EXCEPT ![c].at = "leaving"] /\ Send(k, "close")
        /\ UNCHANGED connected
    BY <1>1, <1>17 DEF Reply, Move
  <2>2. call'[c].at = "leaving" /\ call'[c].conn = {k}
    BY <1>2, <2>1 DEF Types, ClientTypes, CallType
  <2>3. reply'[k] = "none"
    BY <1>2, <2>1 DEF Send, Types, WireTypes
  <2>4. PICK v : v = Closed(cl[s]) /\ cl' = [cl EXCEPT ![s] = v]
    BY <1>3, <1>17 DEF Reply, SetClient, Closed
  <2>5. v \in ClientType /\ v.store = FALSE
    BY <1>6, <1>11, <2>4
  <2>6. NoStore(s)
    BY <1>2, <1>3, <1>4, <1>12, <1>17 DEF Calm, NoStore
  <2>8. Calm(c)'
    BY <1>9, <1>10, <1>17, <2>1, <2>2, <2>3 DEF Calm
  <2> QED
    BY <2>2, <2>4, <2>5, <2>6, <2>8 DEF Replied
<1>18. CASE call[c].at = "leaving"
  <2>1. PICK v : v = Left(cl[s], c)
    OBVIOUS
  <2>2. cl' = [cl EXCEPT ![s] = v] /\ UNCHANGED request
    BY <1>3, <1>18, <2>1 DEF Reply, SetClient, Left, Alone
  <2>3. call'[c].conn = {} /\ call'[c].at \in {"release", "out"}
    BY <1>18 DEF Reply, Types, ClientTypes, CallType
  <2>4. v \in ClientType /\ v.store = cl[s].store /\ (v.alive => cl[s].threads # {})
    BY <1>6, <1>11, <2>1
  <2>5. cl[s].threads # {} => cl[s].alive
    BY <1>5 DEF ClientInv, ClientSession
  <2>6. request[k] = "none" /\ wp[k] \notin {"request", "attach"}
    <3>1. wp[k] \notin {"request", "attach"} /\ (connected[k] = "yes" => Talk(c, k))
      BY <1>2, <1>18 DEF ClientInv, Link, Pending
    <3>2. connected[k] = "yes" \/ request[k] = "none"
      BY <1>2, <1>12 DEF Calm
    <3> QED
      BY <1>4, <1>18, <3>1, <3>2 DEF Talk
  <2>7. Calm(c)'
    BY <2>3 DEF Calm
  <2> QED
    BY <1>2, <1>18, <2>2, <2>3, <2>4, <2>5, <2>6, <2>7 DEF Replied, Storing
<1> QED
  BY <1>4, <1>13, <1>14, <1>15, <1>16, <1>17, <1>18 DEF Waiting

\* A call throws only when the server could not create or close the store.
LEMMA ThrowQuiet ==
    ASSUME ServerInv, Types', ClientInv, QuietInv, NEW c \in Clients, CallThrows(c),
           unclosed' = unclosed
    PROVE  QuietInv'
<1> USE DEF ServerInv
<1>1. PICK k : k = CHOOSE j \in call[c].conn : TRUE
  OBVIOUS
<1>2. k \in Connections /\ call[c].conn = {k} /\ MovesAlone(c)
      /\ UNCHANGED <<sess, wp, wsess, state, closer>>
      /\ \A j \in Connections \ {k} : WireSame(j)
  BY <1>1, ReplyAlone
<1>3. PICK s : s = call[c].session
  OBVIOUS
<1>4. /\ call[c].at \in Waiting /\ UNCHANGED <<canCreate, lost>>
      /\ reply[k] = "failed" \/ (reply[k] = "none" /\ connected[k] = "no")
  BY <1>1 DEF CallThrows, server
<1>5. Calm(c)
  BY DEF QuietInv
<1>6. /\ reply[k] = "failed" /\ connected[k] = "yes"
      /\ call[c].at \in {"storing", "unstoring", "emptying"}
  BY <1>2, <1>4, <1>5 DEF Calm
<1>7. s \in Ids /\ Talk(c, k) /\ cl[s] \in ClientType
  BY <1>2, <1>3, <1>4, <1>6 DEF ClientInv, Link, Waiting, Types, ClientTypes
<1>8. request[k] = "none" /\ ~GaveUp(k)'
  BY <1>2, <1>6, <1>7 DEF Talk, Attends, GaveUp, Storing
<1>9. Replying(c, s, k)
  BY <1>2, <1>3, <1>4, <1>6, <1>7 DEF Replying
<1>10. SUFFICES Replied(c, s, k)
  BY <1>9, RepliedQuiet
<1>11. PICK at : at = IF call[c].at = "emptying" THEN "leaving" ELSE "in"
  OBVIOUS
<1>12. /\ call' = [call EXCEPT ![c].at = at] /\ UNCHANGED connected
       /\ IF at = "leaving" THEN Send(k, "close") ELSE Consume(c)
  BY <1>1, <1>6, <1>11 DEF CallThrows, Move
<1>13. call'[c].at = at /\ call'[c].conn = {k} /\ reply'[k] = "none"
  <2>1. call'[c].at = at /\ call'[c].conn = {k}
    BY <1>2, <1>12 DEF Types, ClientTypes, CallType
  <2>2. reply'[k] = "none"
    BY <1>2, <1>12 DEF Send, Consume, Types, WireTypes
  <2> QED
    BY <2>1, <2>2
<1>14. Calm(c)'
  BY <1>6, <1>8, <1>11, <1>12, <1>13 DEF Calm
<1>15. CASE call[c].at = "storing"
  <2>1. cl' = [cl EXCEPT ![s] = [cl[s] EXCEPT !.store = @ /\ TRUE]]
    BY <1>3, <1>15 DEF CallThrows, SetClient
  <2>2. [cl[s] EXCEPT !.store = @ /\ TRUE] = cl[s]
    BY <1>7 DEF ClientType
  <2>3. ~cl[s].store /\ NoStore(s)
    BY <1>2, <1>3, <1>5, <1>6, <1>15 DEF Calm
  <2> QED
    BY <1>7, <1>13, <1>14, <2>1, <2>2, <2>3 DEF Replied
<1>16. CASE call[c].at \in {"unstoring", "emptying"}
  <2>1. cl' = [cl EXCEPT ![s] = [cl[s] EXCEPT !.store = @ /\ FALSE]]
    BY <1>3, <1>16 DEF CallThrows, SetClient
  <2>2. [cl[s] EXCEPT !.store = @ /\ FALSE] = Closed(cl[s])
    BY <1>7 DEF ClientType, Closed
  <2>3. Closed(cl[s]) \in ClientType /\ ~Closed(cl[s]).store
    BY <1>7, ClientFields
  <2>4. NoStore(s)
    BY <1>2, <1>3, <1>5, <1>6, <1>16 DEF Calm, NoStore
  <2> QED
    BY <1>13, <1>14, <2>1, <2>2, <2>3, <2>4 DEF Replied
<1> QED
  BY <1>6, <1>15, <1>16

\* No connection is lost as long as there is calm.
LEMMA NotLost ==
    ASSUME ServerInv, ClientInv, QuietInv, NEW c \in Clients
    PROVE  ~LoseStore(c)
<1>1. SUFFICES ASSUME LoseStore(c) PROVE FALSE
  OBVIOUS
<1>2. call[c].at \in {"in", "broken"} /\ \A k \in call[c].conn : connected[k] = "no"
  BY <1>1 DEF LoseStore
<1>3. PICK k \in Connections : call[c].conn = {k}
  BY <1>2 DEF ClientInv, Link
<1> QED
  BY <1>2, <1>3 DEF QuietInv, Calm

\* The client part
LEMMA ClientQuiet ==
    ASSUME ServerInv, Types', ClientInv, QuietInv, NEW c \in Clients,
           ClientCall(c) \/ ClientStep(c)
    PROVE  QuietInv'
<1>1. unclosed' = unclosed
  BY DEF ClientCall, ClientStep, stores
<1> QED
  BY <1>1, ConnectQuiet, FindQuiet, ContinueQuiet, ReleaseQuiet, ReplyQuiet, ThrowQuiet, NotLost
  DEF ClientCall, ClientStep

\* The session a request names is there.
LEMMA NotRefused ==
    ASSUME ServerInv, ClientInv, QuietInv, NEW k \in Connections,
           wp[k] = "attach" \/ (wp[k] = "request" /\ request[k] = "open")
    PROVE  sess[wsess[k]].phase = "open" /\ sess[wsess[k]].alive
<1>1. PICK c \in Clients :
         /\ call[c].conn = {k} /\ Talk(c, k)
         /\ call[c].at # "creating" => wsess[k] = call[c].session
         /\ call[c].at \in Waiting \cup {"in"}
  BY Requested
<1>2. call[c].at \in {"creating", "opening"}
  BY <1>1 DEF ClientInv, Link, Pending
<1>3. call[c].at = "opening"
  BY <1>1, <1>2 DEF Talk
<1> QED
  BY <1>1, <1>3, OpeningOpen

\* Who asks a worker, and for what
LEMMA Requester ==
    ASSUME ServerInv, ClientInv, QuietInv, NEW k \in Connections,
           wp[k] = "serve", request[k] # "none"
    PROVE  \E c \in Clients :
              /\ call[c].conn = {k} /\ connected[k] = "yes"
              /\ call[c].session = wsess[k] /\ wsess[k] \in Ids
              /\ call[c].at \in Storing \cup {"leaving"}
              /\ call[c].at = "leaving" <=> request[k] = "close"
              /\ call[c].at = "configuring" <=> request[k] = "configure"
              /\ call[c].at = "storing" <=> request[k] = "store"
              /\ call[c].at \in {"unstoring", "emptying"} <=> request[k] = "unstore"
<1>1. PICK c \in Clients :
         /\ call[c].conn = {k} /\ connected[k] = "yes" /\ Talk(c, k)
         /\ call[c].at # "creating" => wsess[k] = call[c].session /\ call[c].session \in Ids
         /\ call[c].at \in Waiting \cup {"in"}
  BY Requested
<1>2. call[c].at \notin {"creating", "opening", "in"}
  BY <1>1 DEF Talk
<1>3. call[c].at \in Storing \cup {"leaving"}
  BY <1>1, <1>2 DEF Waiting, Storing
<1>4. /\ call[c].at \in Storing => Asked(call[c].at, request[k])
      /\ call[c].at = "leaving" => request[k] = "close"
  BY <1>1 DEF Talk
<1> QED
  BY <1>1, <1>3, <1>4 DEF Asked, Storing

\* The last worker of a session has no other beside it.
LEMMA LastAlone ==
    ASSUME ServerInv, ClientInv, QuietInv, NEW k \in Connections, wp[k] = "last",
           NEW c \in Clients, call[c].at \in InSession, call[c].session = wsess[k],
           NEW j \in call[c].conn, connected[j] = "yes"
    PROVE  FALSE
<1>1. PICK s \in Ids : s = wsess[k]
  BY DEF ServerInv, ServerGood, WorkerGood, Inside
<1>2. j \in Connections /\ wp[j] = "serve" /\ wsess[j] = s
  BY <1>1, InOpen, Attended DEF Attends
<1>3. sess[s].refs = 1 /\ sess[s].refs = Cardinality(WorkersOf(s)) /\ sess[s].workers = WorkersOf(s)
  BY <1>1 DEF ServerInv, ServerGood, WorkerGood, SessionGood
<1>4. PICK W : W = WorkersOf(s)
  OBVIOUS
<1>5. W \in SUBSET Connections /\ k \in W /\ j \in W
  BY <1>1, <1>2, <1>4 DEF WorkersOf, Inside
<1>6. W \ {k} = {}
  BY <1>3, <1>4, <1>5, Counting
<1> QED
  BY <1>2, <1>5, <1>6

-----------------------------------------------------------------------------
(* What a step of a worker does with the sessions.                         *)

StoreStep(k, t) ==
    \/ sess'[t].store = sess[t].store
    \/ wp[k] = "serve" /\ request[k] \in {"store", "unstore"} /\ wsess[k] = t
    \/ sess'[t].store = FALSE /\ wp[k] = "last" /\ wsess[k] = t
    \/ sess'[t].store = FALSE /\ sess[t].phase = "none"

PhaseStep(k, t) ==
    sess[t].phase = "open" =>
        sess'[t].phase = "open" \/ (wp[k] = "release" /\ wsess[k] = t /\ wp'[k] = "done")

SessionsStep(k) == \A t \in Ids : StoreStep(k, t) /\ PhaseStep(k, t)

\* A step that changes one session
LEMMA OneSession ==
    ASSUME ServerInv, NEW k \in Connections, NEW s \in Ids, NEW v,
           sess' = [sess EXCEPT ![s] = v], StoreStep(k, s), PhaseStep(k, s)
    PROVE  SessionsStep(k)
<1>1. \A t \in Ids \ {s} : sess'[t] = sess[t]
  BY DEF ServerInv, Types, ServerTypes
<1> QED
  BY <1>1 DEF SessionsStep, StoreStep, PhaseStep

\* What a step of a worker does with sessions and their stores; in the calm no
\* request is refused and no freed session met.
LEMMA WorkerSessions ==
    ASSUME ServerInv, ClientInv, QuietInv, NEW k \in Connections,
           WorkerAct(k), ~DetachStoreThrows(k)
    PROVE  SessionsStep(k) /\ UNCHANGED <<canCreate, lost>> /\ unclosed \subseteq unclosed'
<1> USE DEF ServerInv
<1>1. PICK s : s = wsess[k]
  OBVIOUS
<1>9. unclosed \subseteq unclosed'
  BY DEF WorkerAct, NothingToClose, CloseStoreDone, Drop, DetachLast, stores
<1> SUFFICES SessionsStep(k) /\ UNCHANGED <<canCreate, lost>>
  BY <1>9
<1>2. CASE HandleSessionCreate(k)
  <2>1. PICK r : r = [phase |-> "open", alive |-> TRUE, refs |-> 1, workers |-> {},
                      store |-> FALSE]
    OBVIOUS
  <2>2. PICK t \in Ids : /\ sess[t].phase = "none" /\ UNCHANGED <<canCreate, lost>>
                         /\ AddWorker(k, t, r)
    BY <1>2, <2>1 DEF HandleSessionCreate, QuietInv
  <2>3. PICK v : v = [r EXCEPT !.workers = @ \cup {k}]
    OBVIOUS
  <2>4. sess' = [sess EXCEPT ![t] = v]
    BY <2>2, <2>3 DEF AddWorker
  <2>5. sess'[t] = v
    BY <2>4 DEF Types, ServerTypes
  <2>6. v.store = FALSE
    BY <2>1, <2>3
  <2>7. StoreStep(k, t) /\ PhaseStep(k, t)
    BY <2>2, <2>5, <2>6 DEF StoreStep, PhaseStep
  <2> QED
    BY <2>2, <2>4, <2>7, OneSession
<1>3. CASE HandleSessionOpen(k)
  <2>1. UNCHANGED <<sess, canCreate, lost>>
    BY <1>3, NotRefused DEF HandleSessionOpen
  <2> QED
    BY <2>1 DEF SessionsStep, StoreStep, PhaseStep
<1>4. CASE AttachSession(k)
  <2>1. /\ AddWorker(k, s, CountThread(sess[s])) /\ UNCHANGED <<canCreate, lost>>
        /\ s \in Ids
    BY <1>1, <1>4, NotRefused DEF AttachSession, ServerGood, WorkerGood
  <2>2. PICK r : r = sess[s]
    OBVIOUS
  <2>3. PICK v : v = [CountThread(r) EXCEPT !.workers = @ \cup {k}]
    OBVIOUS
  <2>4. sess' = [sess EXCEPT ![s] = v]
    BY <2>1, <2>2, <2>3 DEF AddWorker
  <2>5. r \in SessionType /\ sess'[s] = v
    BY <2>1, <2>2, <2>4 DEF Types, ServerTypes
  <2>6. v.store = r.store /\ v.phase = r.phase
    BY <2>3, <2>5 DEF CountThread, SessionType
  <2>7. StoreStep(k, s) /\ PhaseStep(k, s)
    BY <2>2, <2>5, <2>6 DEF StoreStep, PhaseStep
  <2> QED
    BY <2>1, <2>4, <2>7, OneSession
<1>5. CASE \/ WorkerStart(k) \/ HandleSetConfiguration(k) \/ HandleSessionClose(k)
           \/ LeaveLoop(k) \/ Finish(k) \/ NothingToClose(k) \/ Drop(k)
  <2>1. UNCHANGED <<sess, canCreate, lost>>
    BY <1>5 DEF WorkerStart, HandleSetConfiguration, HandleSessionClose, LeaveLoop, Finish,
                NothingToClose, Drop, Served
  <2> QED
    BY <2>1 DEF SessionsStep, StoreStep, PhaseStep
<1>6. CASE HandleStoreCreate(k) \/ CloseStoreDone(k)
  <2>1. PICK b : sess' = [sess EXCEPT ![s].store = b]
    <3>1. CASE HandleStoreCreate(k)
      <4>1. PICK made \in BOOLEAN : sess' = [sess EXCEPT ![s].store = @ \/ made]
        BY <1>1, <3>1 DEF HandleStoreCreate
      <4>2. sess' = [sess EXCEPT ![s].store = sess[s].store \/ made]
        BY <4>1
      <4> QED
        BY <4>2
    <3>2. CASE CloseStoreDone(k)
      BY <1>1, <3>2 DEF CloseStoreDone
    <3> QED
      BY <1>6, <3>1, <3>2
  <2>2. /\ wp[k] = "serve" /\ request[k] \in {"store", "unstore"} /\ UNCHANGED <<canCreate, lost>>
        /\ s \in Ids
    BY <1>1, <1>6 DEF HandleStoreCreate, CloseStoreDone, Serving, Served, ServerGood, WorkerGood, Inside
  <2>3. PICK v : v = [sess[s] EXCEPT !.store = b]
    OBVIOUS
  <2>4. sess' = [sess EXCEPT ![s] = v]
    BY <2>1, <2>3
  <2>5. sess[s] \in SessionType /\ sess'[s] = v
    BY <2>2, <2>4 DEF Types, ServerTypes
  <2>6. v.phase = sess[s].phase
    BY <2>3, <2>5 DEF SessionType
  <2>7. StoreStep(k, s) /\ PhaseStep(k, s)
    BY <1>1, <2>2, <2>5, <2>6 DEF StoreStep, PhaseStep
  <2> QED
    BY <2>2, <2>4, <2>7, OneSession
<1>7. CASE DetachWorker(k) \/ DetachLast(k)
  <2>1. ~isRunning(k) /\ s \in Ids
    BY <1>1, <1>7, HasFinished DEF DetachWorker, DetachLast, ServerGood, WorkerGood, Inside
  <2>2. UNCHANGED <<canCreate, lost>>
    BY <1>7 DEF DetachWorker, DetachLast, Terminate
  <2>3. sess[s] \in SessionType
    BY <2>1 DEF Types, ServerTypes
  <2>4. CASE sess' = sess
    BY <2>2, <2>4 DEF SessionsStep, StoreStep, PhaseStep
  <2>5. CASE sess' # sess
    <3>1. PICK v : /\ sess' = [sess EXCEPT ![s] = v] /\ v.phase = sess[s].phase
                   /\ v.store = sess[s].store \/ (v.store = FALSE /\ wp[k] = "last")
      <4>1. CASE DetachWorker(k)
        <5>1. PICK v : v = [sess[s] EXCEPT !.workers = @ \ {k}, !.refs = @ - 1]
          OBVIOUS
        <5>2. sess' = [sess EXCEPT ![s] = v]
          BY <1>1, <2>1, <2>5, <4>1, <5>1 DEF DetachWorker
        <5>3. v.phase = sess[s].phase /\ v.store = sess[s].store
          BY <2>3, <5>1 DEF SessionType
        <5> QED
          BY <5>2, <5>3
      <4>2. CASE DetachLast(k)
        <5>1. PICK v : v = [sess[s] EXCEPT !.workers = @ \ {k}, !.refs = 0, !.alive = FALSE,
                                           !.store = FALSE]
          OBVIOUS
        <5>2. sess' = [sess EXCEPT ![s] = v] /\ wp[k] = "last"
          BY <1>1, <2>1, <2>5, <4>2, <5>1 DEF DetachLast
        <5>3. v.phase = sess[s].phase /\ v.store = FALSE
          BY <2>3, <5>1 DEF SessionType
        <5> QED
          BY <5>2, <5>3
      <4> QED
        BY <1>7, <4>1, <4>2
    <3>2. sess'[s] = v
      BY <2>1, <3>1 DEF Types, ServerTypes
    <3>3. StoreStep(k, s) /\ PhaseStep(k, s)
      BY <1>1, <3>1, <3>2 DEF StoreStep, PhaseStep
    <3> QED
      BY <2>1, <2>2, <3>1, <3>3, OneSession
  <2> QED
    BY <2>4, <2>5
<1>8. CASE ReleaseSession(k)
  <2>1. /\ sess' = [sess EXCEPT ![s].phase = "freed"] /\ GoTo(k, "done") /\ wp[k] = "release"
        /\ UNCHANGED <<canCreate, lost>> /\ s \in Ids
    BY <1>1, <1>8 DEF ReleaseSession, QuietInv, Wanted, ServerGood, WorkerGood
  <2>2. PICK v : v = [sess[s] EXCEPT !.phase = "freed"]
    OBVIOUS
  <2>3. sess' = [sess EXCEPT ![s] = v] /\ wp'[k] = "done"
    BY <2>1, <2>2 DEF GoTo, Types, ServerTypes
  <2>4. sess[s] \in SessionType /\ sess'[s] = v
    BY <2>1, <2>3 DEF Types, ServerTypes
  <2>5. v.store = sess[s].store
    BY <2>2, <2>4 DEF SessionType
  <2>6. StoreStep(k, s) /\ PhaseStep(k, s)
    BY <1>1, <2>1, <2>3, <2>4, <2>5 DEF StoreStep, PhaseStep
  <2> QED
    BY <2>1, <2>3, <2>6, OneSession
<1> QED
  BY <1>2, <1>3, <1>4, <1>5, <1>6, <1>7, <1>8 DEF WorkerAct, PlainStep

\* A worker that is at the store of a session serves the thread that waits
\* for it.
LEMMA StoreOwner ==
    ASSUME ServerInv, ClientInv, QuietInv, NEW k \in Connections, wp[k] = "serve",
           request[k] \in {"store", "unstore"}
    PROVE  \E d \in Clients : /\ call[d].conn = {k} /\ call[d].session = wsess[k]
                              /\ call[d].at \in Storing /\ wsess[k] \in Ids
<1>1. PICK d \in Clients :
         /\ call[d].conn = {k} /\ call[d].session = wsess[k] /\ wsess[k] \in Ids
         /\ call[d].at \in Storing \cup {"leaving"}
         /\ call[d].at = "leaving" <=> request[k] = "close"
  BY Requester
<1> QED
  BY <1>1

\* The store of a session stays when another thread is at it.
LEMMA StoreStays ==
    ASSUME ServerInv, ClientInv, QuietInv, NEW k \in Connections, SessionsStep(k),
           NEW c \in Clients, k \notin call[c].conn, call[c].at \in Storing
    PROVE  /\ call[c].session \in Ids
           /\ sess'[call[c].session].store = sess[call[c].session].store
<1>1. PICK s : s = call[c].session
  OBVIOUS
<1>2. PICK j \in Connections : call[c].conn = {j}
  BY DEF ClientInv, Link, Storing, Waiting
<1>3. connected[j] = "yes"
  BY <1>2 DEF QuietInv, Calm, Storing
<1>4. call[c].at \in InSession
  BY DEF InSession, Storing
<1>5. s \in Ids /\ sess[s].phase = "open"
  BY <1>1, <1>2, <1>3, <1>4, InOpen
<1>6. StoreStep(k, s)
  BY <1>5 DEF SessionsStep
<1>7. ~(wp[k] = "serve" /\ request[k] \in {"store", "unstore"} /\ wsess[k] = s)
  <2>1. SUFFICES ASSUME wp[k] = "serve", request[k] \in {"store", "unstore"}, wsess[k] = s
                 PROVE  FALSE
    OBVIOUS
  <2>2. PICK d \in Clients : call[d].conn = {k} /\ call[d].session = s /\ call[d].at \in Storing
    BY <2>1, StoreOwner
  <2>3. d = c
    BY <1>1, <2>2 DEF ClientInv, Rules
  <2> QED
    BY <2>2, <2>3
<1>8. ~(wp[k] = "last" /\ wsess[k] = s)
  BY <1>1, <1>2, <1>3, <1>4, LastAlone
<1>9. sess'[s].store = sess[s].store
  BY <1>5, <1>6, <1>7, <1>8 DEF StoreStep
<1> QED
  BY <1>1, <1>5, <1>9

\* The threads whose connection the worker does not serve
LEMMA CalmLeft ==
    ASSUME ServerInv, ClientInv, QuietInv, NEW k \in Connections, SessionsStep(k),
           UNCHANGED <<cl, call>>, unclosed \subseteq unclosed', \A j \in Connections \ {k} : WireSame(j),
           NEW c \in Clients, k \notin call[c].conn
    PROVE  Calm(c)'
<1>1. Calm(c)
  BY DEF QuietInv
<1>2. \A j \in call[c].conn : WireSame(j)
  BY DEF ServerInv, Types, ClientTypes, CallType
<1>3. ASSUME call[c].at = "creating", NEW j \in call[c].conn, wsess[j] # 0
      PROVE  ~sess'[wsess[j]].store
  <2>1. PICK t \in Ids : t = wsess[j]
    BY <1>3 DEF ServerInv, Types, ServerTypes, ClientTypes, CallType
  <2>2. sess[t].phase # "none" /\ \A d \in Clients : call[d].session # t
    BY <1>3, <2>1 DEF ClientInv, Fresh
  <2>3. ~(wp[k] = "serve" /\ request[k] \in {"store", "unstore"} /\ wsess[k] = t)
    BY <2>2, StoreOwner
  <2>4. ~sess[t].store
    BY <1>1, <1>3, <2>1 DEF Calm
  <2>5. StoreStep(k, t)
    BY DEF SessionsStep
  <2> QED
    BY <2>1, <2>3, <2>4, <2>5 DEF StoreStep
<1>4. call[c].at \in Storing => sess'[call[c].session].store = sess[call[c].session].store
  BY StoreStays
<1> QED
  BY <1>1, <1>2, <1>3, <1>4 DEF Calm, WireSame, Storing, GaveUp, NoStore

\* The thread it serves
LEMMA CalmServed ==
    ASSUME ServerInv, ClientInv, QuietInv, NEW k \in Connections,
           WorkerAct(k), ~Drop(k), ~DetachStoreThrows(k),
           NEW c \in Clients, call[c].conn = {k}
    PROVE  Calm(c)'
<1> USE DEF ServerInv
<1>1. UNCHANGED <<cl, call>> /\ unclosed \subseteq unclosed'
  BY WorkerWires, WorkerSessions
<1>2. Calm(c) /\ Link(c)
  BY DEF QuietInv, ClientInv
<1>3. call[c].at # "leaving" => connected[k] = "yes" /\ Talk(c, k)
  BY <1>2 DEF Calm, Link
<1>4. wp[k] \in {"request", "attach"} =>
         /\ call[c].at = IF request[k] = "create" /\ wp[k] = "request" THEN "creating" ELSE "opening"
         /\ request[k] = "create" \/ request[k] = "open"
  BY <1>2, <1>3 DEF Link, Talk, Pending
<1>5. ASSUME wp[k] = "serve", request[k] # "none"
      PROVE  /\ connected[k] = "yes" /\ call[c].session = wsess[k] /\ wsess[k] \in Ids
             /\ call[c].at \in Storing \cup {"leaving"}
             /\ call[c].at = "leaving" <=> request[k] = "close"
             /\ call[c].at = "configuring" <=> request[k] = "configure"
             /\ call[c].at = "storing" <=> request[k] = "store"
             /\ call[c].at \in {"unstoring", "emptying"} <=> request[k] = "unstore"
  <2>1. PICK d \in Clients :
              /\ call[d].conn = {k} /\ connected[k] = "yes"
              /\ call[d].session = wsess[k] /\ wsess[k] \in Ids
              /\ call[d].at \in Storing \cup {"leaving"}
              /\ call[d].at = "leaving" <=> request[k] = "close"
              /\ call[d].at = "configuring" <=> request[k] = "configure"
              /\ call[d].at = "storing" <=> request[k] = "store"
              /\ call[d].at \in {"unstoring", "emptying"} <=> request[k] = "unstore"
    BY <1>5, Requester
  <2>2. d = c
    BY <2>1 DEF ClientInv, Distinct
  <2> QED
    BY <2>1, <2>2
<1>6. CASE HandleSessionCreate(k)
  <2>1. PICK r : r = [phase |-> "open", alive |-> TRUE, refs |-> 1, workers |-> {},
                      store |-> FALSE]
    OBVIOUS
  <2>2. PICK t \in Ids : AddWorker(k, t, r)
    BY <1>6, <2>1 DEF HandleSessionCreate, QuietInv
  <2>3. wsess'[k] = t /\ sess'[t] = [r EXCEPT !.workers = @ \cup {k}]
    BY <2>2 DEF AddWorker, Types, ServerTypes
  <2>4. ~sess'[t].store
    BY <2>1, <2>3
  <2>5. call[c].at = "creating" /\ UNCHANGED <<reply, connected>>
    BY <1>4, <1>6 DEF HandleSessionCreate, QuietInv
  <2>6. ~GaveUp(k)'
    BY <2>2 DEF AddWorker, GoTo, GaveUp, Types, ServerTypes
  <2> QED
    BY <1>1, <1>2, <2>3, <2>4, <2>5, <2>6 DEF Calm
<1>7. CASE HandleSessionOpen(k) \/ LeaveLoop(k) \/ Finish(k)
  <2>1. UNCHANGED <<wires, wsess, sess>>
    BY <1>7, NotRefused DEF HandleSessionOpen, LeaveLoop, Finish
  <2>2. GaveUp(k)' => request[k] = "none"
    <3>1. CASE HandleSessionOpen(k)
      BY <3>1, NotRefused DEF HandleSessionOpen, GoTo, GaveUp, Types, ServerTypes
    <3>2. CASE LeaveLoop(k)
      <4>1. wp[k] = "serve" /\ (state[k] = "stopping" \/ connected[k] = "no")
        BY <3>2 DEF LeaveLoop, shouldStop
      <4>2. connected[k] = "no" => request[k] = "none"
        BY <1>2 DEF Calm
      <4>3. ASSUME request[k] # "none" PROVE Attends(k)
        <5>1. call[c].at \in Storing \cup {"leaving"}
          BY <1>5, <4>1, <4>3
        <5> QED
          BY <4>3, <5>1, Attended DEF Storing, InSession
      <4> QED
        BY <4>1, <4>2, <4>3 DEF Attends
    <3>3. CASE Finish(k)
      BY <1>2, <3>3 DEF Finish, Calm, GaveUp
    <3> QED
      BY <1>7, <3>1, <3>2, <3>3
  <2> QED
    BY <1>1, <1>2, <2>1, <2>2 DEF Calm, NoStore, wires
<1>8. CASE AttachSession(k)
  <2>1. wp[k] = "attach" /\ UNCHANGED <<reply, connected>>
    BY <1>8, NotRefused DEF AttachSession
  <2>2. call[c].at = "opening"
    BY <1>4, <2>1
  <2>3. ~GaveUp(k)'
    BY <1>8, NotRefused DEF AttachSession, AddWorker, GoTo, GaveUp, Types, ServerTypes
  <2> QED
    BY <1>1, <1>2, <2>1, <2>2, <2>3 DEF Calm
<1>9. CASE WorkerStart(k)
  <2>1. /\ wp[k] = "starting" /\ UNCHANGED <<request, connected, sess, wsess>>
        /\ reply'[k] = IF connected[k] = "yes" THEN "ok" ELSE reply[k]
    BY <1>9 DEF WorkerStart, Ret, Types, WireTypes
  <2>2. call[c].at \in {"creating", "opening", "leaving"} /\ request[k] = "none"
    BY <1>2, <1>3, <2>1 DEF Link, Talk, Places, Types, ClientTypes, CallType, Waiting, InSession, Calm,
                            Storing, Attends, GaveUp
  <2> QED
    BY <1>1, <1>2, <2>1, <2>2 DEF Calm
<1>10. ASSUME wp[k] = "serve", request[k] \in {"configure", "store", "unstore"}
       PROVE  /\ call[c].at \in Storing /\ connected[k] = "yes" /\ call[c].session = wsess[k]
              /\ wsess[k] \in Ids /\ sess[wsess[k]].alive
  <2>1. /\ connected[k] = "yes" /\ call[c].session = wsess[k] /\ wsess[k] \in Ids
        /\ call[c].at \in Storing
    BY <1>5, <1>10 DEF Storing
  <2>2. call[c].at \in InSession
    BY <2>1 DEF Storing, InSession
  <2> QED
    BY <2>1, <2>2, InOpen
<1>11. ASSUME NEW status, Served(k, status), connected[k] = "yes"
       PROVE  reply'[k] = status /\ connected' = connected /\ request'[k] = "none" /\ wsess' = wsess
  BY <1>11 DEF Served, Take, Ret, Types, WireTypes
<1>12. CASE HandleSetConfiguration(k)
  <2>1. wp[k] = "serve" /\ request[k] = "configure" /\ sess' = sess
    BY <1>12 DEF HandleSetConfiguration, Serving
  <2>2. Served(k, "ok") /\ connected[k] = "yes"
    BY <1>10, <1>12, <2>1 DEF HandleSetConfiguration
  <2>3. reply'[k] = "ok" /\ connected' = connected /\ request'[k] = "none"
    BY <1>11, <2>2
  <2>4. call[c].at = "configuring"
    BY <1>5, <2>1
  <2> QED
    BY <1>1, <1>2, <2>1, <2>2, <2>3, <2>4 DEF Calm, NoStore
<1>13. CASE HandleStoreCreate(k)
  <2>1. PICK s : s = wsess[k]
    OBVIOUS
  <2>2. wp[k] = "serve" /\ request[k] = "store"
    BY <1>13 DEF HandleStoreCreate, Serving
  <2>3. connected[k] = "yes" /\ call[c].session = s /\ s \in Ids /\ call[c].at = "storing"
    BY <1>5, <2>1, <2>2
  <2>4. reply[k] # "ok"
    BY <1>3, <2>2, <2>3 DEF Talk, Storing
  <2>5. ~cl[s].store /\ NoStore(s)
    BY <1>2, <2>3, <2>4 DEF Calm
  <2>6. PICK made \in BOOLEAN :
           /\ sess' = [sess EXCEPT ![s].store = @ \/ made]
           /\ Served(k, IF made THEN "ok" ELSE "failed")
    BY <1>13, <2>1 DEF HandleStoreCreate
  <2>7. /\ reply'[k] = IF made THEN "ok" ELSE "failed"
        /\ connected' = connected /\ request'[k] = "none" /\ wsess' = wsess
    BY <1>11, <2>3, <2>6
  <2>8. sess'[s].store <=> sess[s].store \/ made
    BY <2>3, <2>6 DEF Types, ServerTypes, SessionType
  <2>9. /\ reply'[k] = "ok" => sess'[s].store
        /\ reply'[k] # "ok" => NoStore(s)'
    BY <1>1, <2>5, <2>7, <2>8 DEF NoStore
  <2> QED
    BY <1>1, <1>2, <2>3, <2>5, <2>7, <2>9 DEF Calm
<1>16. CASE NothingToClose(k) \/ CloseStoreDone(k)
  <2>1. PICK s : s = wsess[k]
    OBVIOUS
  <2>2. wp[k] = "serve" /\ request[k] = "unstore"
    BY <1>16 DEF NothingToClose, CloseStoreDone, Serving
  <2>3. /\ connected[k] = "yes" /\ call[c].session = s /\ s \in Ids
        /\ call[c].at \in {"unstoring", "emptying"}
    BY <1>5, <2>1, <2>2
  <2>4. PICK status :
           /\ Served(k, status) /\ status \in {"ok", "failed"}
           /\ status = "ok" => ~sess'[s].store
           /\ status = "failed" => s \in unclosed'
    <3>1. CASE NothingToClose(k)
      BY <2>1, <3>1 DEF NothingToClose
    <3>2. CASE CloseStoreDone(k)
      <4>1. PICK closed \in BOOLEAN :
               /\ sess' = [sess EXCEPT ![s].store = ~closed]
               /\ unclosed' = IF closed THEN unclosed ELSE unclosed \cup {s}
               /\ Served(k, IF closed THEN "ok" ELSE "failed")
        BY <2>1, <3>2 DEF CloseStoreDone
      <4>2. sess'[s].store <=> ~closed
        BY <2>3, <4>1 DEF Types, ServerTypes, SessionType
      <4> QED
        BY <4>1, <4>2
    <3> QED
      BY <1>16, <3>1, <3>2
  <2>5. reply'[k] = status /\ connected' = connected /\ request'[k] = "none" /\ wsess' = wsess
    BY <1>11, <2>3, <2>4
  <2> QED
    BY <1>1, <1>2, <2>3, <2>4, <2>5 DEF Calm
<1>14. CASE HandleSessionClose(k)
  <2>1. wp[k] = "serve" /\ request[k] = "close" /\ Served(k, "ok")
    BY <1>14 DEF HandleSessionClose, Serving
  <2>2. connected[k] = "yes" /\ call[c].at = "leaving"
    BY <1>5, <2>1
  <2>3. reply'[k] = "ok" /\ connected' = connected /\ request'[k] = "none"
    BY <1>11, <2>1, <2>2
  <2> QED
    BY <1>1, <1>2, <2>2, <2>3 DEF Calm
<1>15. CASE DetachWorker(k) \/ DetachLast(k) \/ ReleaseSession(k)
  <2>1. wp[k] \in {"detach", "last", "release"}
    BY <1>15 DEF DetachWorker, DetachLast, ReleaseSession
  <2>2. call[c].at = "leaving"
    BY <1>2, <1>3, <2>1 DEF Link, Talk, Places, Types, ClientTypes, CallType, Waiting, InSession, Calm,
                            Storing, Asked, Attends, GaveUp
  <2>3. request[k] = "none" /\ reply[k] = "ok"
    BY <1>2, <2>1, <2>2 DEF Calm, Link, Talk, Attends, GaveUp
  <2>4. Parting(k) \/ WireSame(k)
    <3>1. WireStep(k)
      BY WorkerWires
    <3> QED
      BY <2>1, <3>1 DEF WireStep, Dropping, Creating, Looking, Attaching, Starting, Answering,
                        Farewell
  <2>5. request'[k] = "none" /\ reply'[k] = "ok"
    BY <2>3, <2>4 DEF Parting, WireSame
  <2> QED
    BY <1>1, <2>2, <2>5 DEF Calm
<1> QED
  BY <1>6, <1>7, <1>8, <1>9, <1>12, <1>13, <1>14, <1>15, <1>16 DEF WorkerAct, PlainStep

\* Both sides agree on the store after a step of a worker.
LEMMA WorkerAgreed ==
    ASSUME ServerInv, ClientInv, QuietInv, NEW k \in Connections, SessionsStep(k),
           UNCHANGED <<cl, call>>, unclosed \subseteq unclosed', NEW t \in Ids
    PROVE  Agreed(t)'
<1>1. SUFFICES ASSUME cl[t].alive, StoreFree(t)
               PROVE  /\ cl[t].store => sess'[t].store
                      /\ cl[t].store \/ t \in unclosed \/ ~sess'[t].store
  BY DEF Agreed, StoreFree, NoStore
<1>2. StoreStep(k, t) /\ ClientSession(t)
  BY DEF SessionsStep, ClientInv
<1>3. (cl[t].store => sess[t].store) /\ (cl[t].store \/ NoStore(t))
  BY <1>1 DEF QuietInv, Agreed
<1>4. ~(wp[k] = "serve" /\ request[k] \in {"store", "unstore"} /\ wsess[k] = t)
  BY <1>1, StoreOwner DEF StoreFree, Storing
<1>5. ASSUME wp[k] = "last", wsess[k] = t PROVE ~cl[t].store
  <2>1. ASSUME NEW d \in Threads(t) PROVE d \in Clients /\ call[d].at = "leaving" /\ call[d].session = t
    <3>1. d \in Clients /\ call[d].session = t /\ call[d].at \in InSession \cup {"leaving", "broken"}
      BY <2>1 DEF Threads
    <3>2. call[d].at # "broken"
      BY <3>1 DEF QuietInv, Calm
    <3>3. ASSUME call[d].at \in InSession PROVE FALSE
      <4>1. PICK j \in Connections : call[d].conn = {j}
        BY <3>1, <3>3 DEF ClientInv, Link, InSession, Waiting
      <4>2. connected[j] = "yes"
        BY <3>1, <3>3, <4>1 DEF QuietInv, Calm, InSession
      <4> QED
        BY <1>5, <3>1, <3>3, <4>1, <4>2, LastAlone
    <3> QED
      BY <3>1, <3>2, <3>3
  <2>2. PICK d : d \in Threads(t)
    BY <1>1, <1>2 DEF ClientSession
  <2>3. Threads(t) = {d}
    BY <2>1, <2>2 DEF ClientInv, Rules, Exclusive
  <2> QED
    BY <1>2, <2>1, <2>2, <2>3 DEF ClientInv, Opening, ClientSession
<1>6. sess[t].phase # "none"
  BY <1>1, <1>2 DEF ClientSession
<1> QED
  BY <1>2, <1>3, <1>4, <1>5, <1>6 DEF StoreStep, NoStore

\* Every request has its client, and nobody else releases the session.
LEMMA WorkerWanted ==
    ASSUME ServerInv, ClientInv, QuietInv, NEW k \in Connections,
           WorkerAct(k), ~DetachStoreThrows(k), SessionsStep(k), NEW j \in Connections
    PROVE  Wanted(j)'
<1> USE DEF ServerInv
<1>1. WireStep(k) /\ (\A i \in Connections \ {k} : WireSame(i)) /\ UNCHANGED call
  BY WorkerWires
<1>2. ASSUME request'[j] # "none" \/ wp'[j] \in {"request", "attach"}
      PROVE  \E c \in Clients : j \in call'[c].conn
  <2>1. request[j] # "none" \/ wp[j] \in {"request", "attach"}
    <3>1. CASE j = k
      BY <1>1, <1>2, <3>1 DEF WireStep, WireSame, Dropping, Creating, Looking, Attaching,
                              Starting, Answering, Farewell, Parting, Inside
    <3>2. CASE j # k
      BY <1>1, <1>2, <3>2 DEF WireSame
    <3> QED
      BY <3>1, <3>2
  <2> QED
    BY <1>1, <2>1 DEF QuietInv, Wanted
<1>3. ASSUME NEW i \in Connections, wp'[i] = "release"
      PROVE  /\ wsess'[i] = wsess[i] /\ wsess[i] \in Ids
             /\ \/ wp[i] = "release" /\ sess[wsess[i]].workers = {}
                \/ i = k /\ wp[k] = "last" /\ k \in sess[wsess[k]].workers
             /\ sess[wsess[i]].phase = "open"
  <2>1. CASE wp[i] = "release"
    <3>1. wsess'[i] = wsess[i]
      BY <1>1, <2>1 DEF WireStep, WireSame, Dropping, Creating, Looking, Attaching,
                        Starting, Answering, Farewell, Parting, Inside
    <3> QED
      BY <2>1, <3>1 DEF QuietInv, Wanted, ServerGood, WorkerGood
  <2>2. CASE wp[i] # "release"
    <3>1. i = k
      BY <1>1, <1>3, <2>2 DEF WireSame
    <3>2. DetachLast(k)
      BY <1>3, <2>2, <3>1 DEF WorkerAct, PlainStep, HandleSessionCreate, HandleSessionOpen, AttachSession,
         DropRequest, Meets, AddWorker, GoTo, WorkerStart, HandleSetConfiguration,
         HandleStoreCreate, NothingToClose, CloseStoreDone, HandleSessionClose, Served,
         LeaveLoop, Drop, Finish,
         DetachWorker, Terminate, ReleaseSession, Types, ServerTypes
    <3>3. wp[k] = "last"
      BY <3>2 DEF DetachLast
    <3>4. wsess[k] \in Ids /\ k \in WorkersOf(wsess[k])
      BY <3>3 DEF ServerGood, WorkerGood, WorkersOf, Inside
    <3>5. k \in sess[wsess[k]].workers /\ sess[wsess[k]].phase = "open"
      BY <3>4 DEF ServerGood, SessionGood
    <3>6. wsess'[k] = wsess[k]
      BY <1>1, <3>3 DEF WireStep, WireSame, Dropping, Creating, Looking, Attaching,
                        Starting, Answering, Farewell, Parting, Inside
    <3> QED
      BY <3>1, <3>3, <3>4, <3>5, <3>6
  <2> QED
    BY <2>1, <2>2
<1>4. ASSUME wp'[j] = "release"
      PROVE  /\ sess'[wsess'[j]].phase = "open"
             /\ \A i \in Connections : wp'[i] = "release" /\ wsess'[i] = wsess'[j] => i = j
  <2>1. ASSUME NEW i \in Connections, wp'[i] = "release", wsess[i] = wsess[j] PROVE i = j
    <3>1. CASE wp[i] = "release" /\ wp[j] = "release"
      BY <2>1, <3>1 DEF QuietInv, Wanted
    <3>2. CASE ~(wp[i] = "release" /\ wp[j] = "release")
      BY <1>3, <1>4, <2>1, <3>2
    <3> QED
      BY <3>1, <3>2
  <2>2. PICK s \in Ids : s = wsess[j] /\ sess[s].phase = "open" /\ wsess'[j] = s
    BY <1>3, <1>4
  <2>3. sess'[s].phase = "open"
    <3>1. PhaseStep(k, s)
      BY DEF SessionsStep
    <3>2. ~(wp[k] = "release" /\ wsess[k] = s /\ wp'[k] = "done")
      <4>1. SUFFICES ASSUME wp[k] = "release", wsess[k] = s, wp'[k] = "done" PROVE FALSE
        OBVIOUS
      <4>2. j # k /\ wp[j] = "release"
        BY <1>3, <1>4, <4>1
      <4> QED
        BY <2>2, <4>1, <4>2 DEF QuietInv, Wanted
    <3> QED
      BY <2>2, <3>1, <3>2 DEF PhaseStep
  <2>4. \A i \in Connections : wp'[i] = "release" => wsess'[i] = wsess[i]
    BY <1>3
  <2> QED
    BY <1>4, <2>1, <2>2, <2>3, <2>4
<1> QED
  BY <1>2, <1>4 DEF Wanted

\* Every step of a worker leaves the calm.
LEMMA WorkerQuiet ==
    ASSUME ServerInv, ClientInv, QuietInv, NEW k \in Connections,
           WorkerAct(k), ~Drop(k), ~DetachStoreThrows(k)
    PROVE  QuietInv'
<1>1. /\ SessionsStep(k) /\ UNCHANGED <<canCreate, lost, cl, call>>
      /\ unclosed \subseteq unclosed'
      /\ \A j \in Connections \ {k} : WireSame(j)
  BY WorkerSessions, WorkerWires
<1>2. ASSUME NEW c \in Clients PROVE Calm(c)'
  <2>1. CASE k \in call[c].conn
    <3>1. call[c].conn = {k}
      BY <2>1 DEF ClientInv, Link, ServerInv, Types, ClientTypes, CallType, Places
    <3> QED
      BY <3>1, CalmServed
  <2>2. CASE k \notin call[c].conn
    BY <1>1, <2>2, CalmLeft
  <2> QED
    BY <2>1, <2>2
<1>3. \A t \in Ids : Agreed(t)'
  BY <1>1, WorkerAgreed
<1>4. \A j \in Connections : Wanted(j)'
  BY <1>1, WorkerWanted
<1>5. canCreate' /\ lost' = {}
  BY <1>1 DEF QuietInv
<1> QED
  BY <1>2, <1>3, <1>4, <1>5 DEF QuietInv

-----------------------------------------------------------------------------
(* The invariant of the conversation, and what follows.                    *)

\* A killed client has no threads.
Dead == died => \A c \in Clients : call[c].at = "dead"

SessionsInv == ServerInv /\ ClientInv /\ QInv /\ Dead

\* A killed client stays dead.
LEMMA DeadKept ==
    ASSUME ServerInv, Dead, [Next]_vars PROVE Dead'
<1>1. CASE UNCHANGED <<call, died>>
  BY <1>1 DEF Dead
<1>2. CASE Kill
  BY <1>2 DEF Kill, Dead
<1>3. ASSUME NEW c \in Clients, ClientCall(c) \/ ClientStep(c)
      PROVE  Dead'
  <2>1. call[c].at # "dead" /\ died' = died
    <3>1. CASE CreateSession(c) \/ Attach(c) \/ AttachThrows(c) \/ \E s \in Ids : Find(c, s)
      BY <3>1 DEF CreateSession, Attach, AttachThrows, Find, FindSession, Connect
    <3>2. CASE OpenStore(c) \/ CloseStore(c) \/ Detach(c)
      BY <3>2 DEF OpenStore, CloseStore, Detach, Continue
    <3>3. CASE Reply(c)
      BY <3>3 DEF Reply, Waiting
    <3>4. CASE CallThrows(c)
      BY <3>4 DEF CallThrows, Waiting
    <3>5. CASE Release(c) \/ LoseStore(c)
      BY <3>5 DEF Release, LoseStore
    <3> QED
      BY <1>3, <3>1, <3>2, <3>3, <3>4, <3>5 DEF ClientCall, ClientStep
  <2> QED
    BY <1>3, <2>1 DEF Dead
<1>4. CASE (\E k \in Connections : WorkerStep(k)) \/ CloseManager \/ CloserStep
  <2>1. UNCHANGED client
    BY <1>4, ServerKeeps, WorkerActs
  <2> QED
    BY <1>1, <2>1 DEF client
<1> QED
  BY <1>1, <1>2, <1>3, <1>4 DEF Next, vars, client

\* A step that changes none of what the calm is about
LEMMA CalmStays ==
    ASSUME QuietInv, UNCHANGED <<client, wires, server, unclosed>>
    PROVE  QuietInv'
<1>1. UNCHANGED <<cl, call, request, reply, connected, sess, wp, wsess, canCreate, lost, unclosed>>
  BY DEF client, wires, server
<1>2. ASSUME NEW c \in Clients PROVE Calm(c)'
  BY <1>1 DEF QuietInv, Calm, NoStore, GaveUp
<1>3. ASSUME NEW s \in Ids PROVE Agreed(s)'
  BY <1>1 DEF QuietInv, Agreed, NoStore, StoreFree
<1>4. ASSUME NEW k \in Connections PROVE Wanted(k)'
  BY <1>1 DEF QuietInv, Wanted
<1> QED
  BY <1>1, <1>2, <1>3, <1>4 DEF QuietInv

\* As long as the client lives, the server is up and drops no connection, every
\* step leaves the calm.
LEMMA QInvKept ==
    ASSUME ServerInv, ServerInv', ClientInv, QInv, [Next]_vars PROVE QInv'
<1>1. SUFFICES ASSUME Quiet' PROVE QuietInv'
  BY DEF QInv
<1>2. CASE UNCHANGED vars
  <2>1. UNCHANGED <<client, wires, server, unclosed>> /\ Quiet
    BY <1>1, <1>2 DEF vars, stores, Quiet, client, server
  <2> QED
    BY <2>1, CalmStays DEF QInv
<1>3. ASSUME NEW c \in Clients, ClientCall(c) \/ ClientStep(c)
      PROVE  QuietInv'
  <2>1. UNCHANGED <<died, closer>>
    <3>1. CASE CreateSession(c) \/ Attach(c) \/ AttachThrows(c) \/ \E s \in Ids : Find(c, s)
      BY <3>1 DEF CreateSession, Attach, AttachThrows, Find, Connect, server
    <3>2. CASE OpenStore(c) \/ CloseStore(c) \/ Detach(c)
      BY <3>2 DEF OpenStore, CloseStore, Detach, Continue, server
    <3>3. CASE LoseStore(c) \/ Reply(c)
      BY <3>3 DEF LoseStore, Reply, server
    <3>4. CASE CallThrows(c) \/ Release(c)
      BY <3>4 DEF CallThrows, Release, server
    <3> QED
      BY <1>3, <3>1, <3>2, <3>3, <3>4 DEF ClientCall, ClientStep
  <2>2. dropped' = dropped
    BY <1>3 DEF ClientCall, ClientStep, stores
  <2>3. QuietInv
    BY <1>1, <2>1, <2>2 DEF QInv, Quiet
  <2> QED
    BY <1>3, <2>3, ClientQuiet DEF ServerInv
<1>4. ASSUME NEW k \in Connections, WorkerStep(k) PROVE QuietInv'
  <2>1. CASE UNCHANGED <<client, wires, server, dropped, unclosed>>
    <3>1. Quiet
      BY <1>1, <2>1 DEF Quiet, client, server
    <3> QED
      BY <2>1, <3>1, CalmStays DEF QInv
  <2>2. CASE WorkerAct(k)
    <3>1. ~Drop(k) /\ ~DetachStoreThrows(k)
      BY <1>1 DEF Quiet, Drop, DetachStoreThrows
    <3>2. UNCHANGED <<died, closer>>
      BY <2>2, <3>1, WorkerWires
    <3>3. dropped' = dropped
      BY <2>2, <3>1 DEF WorkerAct, NothingToClose, CloseStoreDone, DetachLast, stores
    <3> QED
      BY <1>1, <2>2, <3>1, <3>2, <3>3, WorkerQuiet DEF QInv, Quiet
  <2> QED
    BY <1>4, <2>1, <2>2, WorkerActs
<1>5. CASE Kill \/ CloseManager
  BY <1>1, <1>5 DEF Kill, CloseManager, Quiet, ServerInv, Types, ServerTypes, CloserType
<1>6. CASE CloserStep
  <2>1. closer.at # "off" /\ closer \in CloserType
    BY <1>6 DEF CloserStep, CloseSession, CloserLocks, CloserLeaves, CloserStops,
                CloserSetsState, CloserWaits, FinalizeServer, ServerInv, Types, ServerTypes
  <2>2. closer'.at # "off"
    BY <1>6, <2>1 DEF CloserStep, CloseSession, CloserLocks, CloserLeaves, CloserStops,
                CloserSetsState, CloserWaits, FinalizeServer, CloserThrows, Meets, ClosersOwn,
                CloserType
  <2> QED
    BY <1>1, <2>2 DEF Quiet
<1> QED
  BY <1>2, <1>3, <1>4, <1>5, <1>6 DEF Next

\* There is calm before the first call.
LEMMA QInvInit ==
    ASSUME Init PROVE QInv /\ Dead
  BY DEF Init, QInv, QuietInv, Calm, Agreed, NoStore, Wanted, NoClient, Dead

\* The whole inductive invariant: the server (ServerInv), the client and its
\* conversation with the server (ClientInv), and, until the client is killed, the
\* server goes down or it drops a connection of a client that lives, that every
\* connection stands until its thread has left, only the create and the close of
\* a store fail, both sides agree on the store and no freed session is used (QInv).
THEOREM SessionsHold == Spec => []SessionsInv
<1>1. Init => QInv /\ Dead
  BY QInvInit
<1>2. ServerInv /\ ServerInv' /\ ClientInv /\ ClientInv' /\ QInv /\ Dead /\ [Next]_vars
      => QInv' /\ Dead'
  BY QInvKept, DeadKept
<1> QED
  BY <1>1, <1>2, ServerHolds, ClientHolds, PTL DEF Spec, SessionsInv

\* _handleSessionOpen and the worker that releases a session use sessions they
\* have looked up without a lock, and still no thread of the server meets one
\* that was freed, unless the client is killed, the server goes down or it drops a
\* connection of a client that lives.
THEOREM NoFreedSessionUsed == Spec => []NoUseAfterFree
<1>1. SessionsInv => NoUseAfterFree
  BY DEF SessionsInv, QInv, Quiet, QuietInv, NoUseAfterFree
<1> QED
  BY <1>1, SessionsHold, PTL

\* A thread that is part of a session finds the session of the server open and
\* its own worker in it as long as its connection stands.  Both sides agree on
\* whether a store is open whenever no thread is at it, the server is up and
\* dropped no connection, except that the server keeps a store that it could not
\* close (ClientSession and ServerSession).
THEOREM AttachedLives == Spec => []AttachedSessionLives
<1>1. ASSUME SessionsInv, NEW c \in Clients, NEW k \in call[c].conn, connected[k] = "yes",
             call[c].at \in InSession
      PROVE  /\ sess[call[c].session].phase = "open" /\ sess[call[c].session].alive
             /\ k \in sess[call[c].session].workers
             /\ closer.at = "off" /\ dropped = {} /\ StoreFree(call[c].session) =>
                    /\ cl[call[c].session].store => sess[call[c].session].store
                    /\ cl[call[c].session].store \/ NoStore(call[c].session)
  <2>1. ServerInv /\ ClientInv /\ QInv /\ Dead
    BY <1>1 DEF SessionsInv
  <2>2. PICK s \in Ids : s = call[c].session
    BY <1>1, <2>1, InOpen
  <2>3. ~died
    BY <1>1, <2>1 DEF Dead, InSession
  <2>4. cl[s].alive
    BY <1>1, <2>1, <2>2 DEF ClientInv, ClientSession, Threads
  <2>5. closer.at = "off" /\ dropped = {} /\ StoreFree(s) =>
            /\ cl[s].store => sess[s].store
            /\ cl[s].store \/ NoStore(s)
    BY <2>1, <2>2, <2>3, <2>4 DEF QInv, Quiet, QuietInv, Agreed
  <2> QED
    BY <1>1, <2>1, <2>2, <2>5, InOpen
<1>2. SessionsInv => AttachedSessionLives
  BY <1>1 DEF AttachedSessionLives, InSession, NoStore
<1> QED
  BY <1>2, SessionsHold, PTL

=============================================================================
