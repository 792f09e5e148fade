----------------------------- MODULE WorkerPool -----------------------------
(***************************************************************************)
(* classes WorkerPool, WorkQueue and WorkerStreamWait: the threads that    *)
(* encode and decode segments in the background.                           *)
(*                                                                         *)
(* A work item may submit further items and wait for them (a decoder that  *)
(* opens the hidden streams of a memory stream): instead of blocking, its  *)
(* worker then executes what it finds in the queue, so a worker has a      *)
(* stack of items.  The events are counting semaphores, as on Linux.  An   *)
(* item whose execute throws is over like any other: the pool swallows the *)
(* exception.                                                              *)
(***************************************************************************)
EXTENDS Integers, Sequences, SequencesExt

CONSTANTS
    Workers,
    Items,
    Children,      \* the items an item submits and waits for
    PriorityOf,    \* of every item
    ClosedEarly    \* close may be called before all workers have started

Priorities == 0..2     \* Low, Normal, High

ASSUME PoolWorkAssumption ==
    /\ Children \in [Items -> SUBSET Items]
    /\ \A i \in Items : \A j \in Children[i] : Children[j] = {}
    /\ PriorityOf \in [Items -> Priorities]
    /\ ClosedEarly \in BOOLEAN

VARIABLES
    queue,      \* _queue
    workEvent, emptyEvent,
    blocked,    \* _blocked
    state,      \* ThreadBase::_state of a worker
    pc,         \* where a worker is in _workerMain
    stack,      \* the items a worker is executing, the innermost last
    over,       \* the items that were executed
    missed,     \* the workers that sleep although their wait is over: see Finish
    closer      \* where WorkerPool::close is

poolVars ==
    <<queue, workEvent, emptyEvent, blocked, state, pc, stack, over, missed, closer>>

WorkFrame == [item : Items, todo : SUBSET Items, at : {"run", "help", "block"}]

PoolTypeOK ==
    /\ queue \in [Priorities -> Seq(Items)]
    /\ workEvent \in Nat /\ emptyEvent \in Nat
    /\ blocked \in BOOLEAN
    /\ state \in [Workers -> {"starting", "running", "stopping", "finished"}]
    /\ pc \in [Workers -> {"start", "test", "wait", "take", "exec", "done"}]
    /\ stack \in [Workers -> Seq(WorkFrame)]
    /\ over \in SUBSET Items
    /\ missed \in SUBSET Workers
    /\ closer \in {"open", "drain", "stop", "wake", "join", "closed"}

PoolInit ==
    /\ queue = [p \in Priorities |-> <<>>]
    /\ workEvent = 0 /\ emptyEvent = 0
    /\ blocked = FALSE
    /\ state = [w \in Workers |-> "starting"]
    /\ pc = [w \in Workers |-> "start"]
    /\ stack = [w \in Workers |-> <<>>]
    /\ over = {}
    /\ missed = {}
    /\ closer = "open"

-----------------------------------------------------------------------------
(* WorkQueue: each operation runs under _lock.                             *)

IsEmpty == \A p \in Priorities : queue[p] = <<>>

Queued == UNION {Range(queue[p]) : p \in Priorities}

Executing == UNION {{stack[w][k].item : k \in DOMAIN stack[w]} : w \in Workers}

\* enqueueWork, for a queue that is not blocked
EnqueueWork(i) ==
    /\ queue' = [queue EXCEPT ![PriorityOf[i]] = Append(@, i)]
    /\ workEvent' = workEvent + 1

\* The queue of the highest priority that has work
Busiest == CHOOSE p \in Priorities :
    queue[p] # <<>> /\ \A q \in Priorities : queue[q] # <<>> => q <= p

\* dequeueWork returns an item, which worker w starts to execute ...
DequeueWork(w) ==
    LET i == Head(queue[Busiest])
    IN  /\ ~IsEmpty
        /\ queue' = [queue EXCEPT ![Busiest] = Tail(@)]
        /\ stack' = [stack EXCEPT ![w] =
                       Append(@, [item |-> i, todo |-> Children[i], at |-> "run"])]
        /\ pc' = [pc EXCEPT ![w] = "exec"]
        /\ UNCHANGED emptyEvent

\* ... or nullptr
DequeueNothing ==
    /\ IsEmpty
    /\ emptyEvent' = IF blocked THEN emptyEvent + 1 ELSE emptyEvent
    /\ UNCHANGED queue

-----------------------------------------------------------------------------
(* submitWork, by a thread that is not a worker                            *)

\* A blocked queue throws.
SubmitWork(i) ==
    /\ ~blocked
    /\ \A j \in Items : i \notin Children[j]
    /\ i \notin over \cup Queued \cup Executing
    /\ EnqueueWork(i)
    /\ UNCHANGED <<emptyEvent, blocked, state, pc, stack, over, missed, closer>>

-----------------------------------------------------------------------------
(* _workerMain                                                             *)

\* ThreadStart sets the state of the thread, whatever it was.
Start(w) ==
    /\ pc[w] = "start"
    /\ state' = [state EXCEPT ![w] = "running"]
    /\ pc' = [pc EXCEPT ![w] = "test"]
    /\ UNCHANGED <<queue, workEvent, emptyEvent, blocked, stack, over, missed, closer>>

\* while (!thread.shouldStop())
Test(w) ==
    /\ pc[w] = "test"
    /\ IF state[w] = "stopping"
       THEN /\ state' = [state EXCEPT ![w] = "finished"]
            /\ pc' = [pc EXCEPT ![w] = "done"]
       ELSE /\ pc' = [pc EXCEPT ![w] = "wait"]
            /\ UNCHANGED state
    /\ UNCHANGED <<queue, workEvent, emptyEvent, blocked, stack, over, missed, closer>>

\* queue.wait()
Wait(w) ==
    /\ pc[w] = "wait"
    /\ workEvent > 0
    /\ workEvent' = workEvent - 1
    /\ pc' = [pc EXCEPT ![w] = "take"]
    /\ UNCHANGED <<queue, emptyEvent, blocked, state, stack, over, missed, closer>>

\* tryProcessWorkItem in the inner loop
Take(w) ==
    /\ pc[w] = "take"
    /\ \/ DequeueWork(w)
       \/ /\ DequeueNothing
          /\ pc' = [pc EXCEPT ![w] = "test"]
          /\ UNCHANGED stack
    /\ UNCHANGED <<workEvent, blocked, state, over, missed, closer>>

Top(w) == Last(stack[w])

Satisfied(w) == Children[Top(w).item] \subseteq over

\* The innermost item of w returns to the wait it was executed in, or to
\* the inner loop.  When it ends the wait of a worker that blocks, this one
\* may miss the wake-up, which comes without the lock: it has tested the
\* count and does not sleep yet (module WaitContext).
Finish(w) ==
    /\ over' = over \cup {Top(w).item}
    /\ \E S \in SUBSET {v \in Workers \ {w} :
                            /\ pc[v] = "exec" /\ Top(v).at = "block"
                            /\ ~Satisfied(v)
                            /\ Children[Top(v).item] \subseteq over'} :
          missed' = missed \cup S
    /\ stack' = [stack EXCEPT ![w] = Front(@)]
    /\ pc' = [pc EXCEPT ![w] = IF Len(stack[w]) > 1 THEN "exec"
                               ELSE IF state[w] = "stopping" THEN "test" ELSE "take"]

\* An item without further work, or one whose next item the queue refuses
Run(w) ==
    /\ pc[w] = "exec" /\ Top(w).at = "run"
    /\ Children[Top(w).item] = {} \/ (Top(w).todo # {} /\ blocked)
    /\ Finish(w)
    /\ UNCHANGED <<queue, workEvent, emptyEvent, blocked, state, closer>>

\* An item submits another one, and waits when it has submitted all.
RunSubmit(w) ==
    /\ pc[w] = "exec" /\ Top(w).at = "run"
    /\ ~blocked
    /\ \E i \in Top(w).todo :
          /\ EnqueueWork(i)
          /\ stack' = [stack EXCEPT ![w][Len(stack[w])] =
                [@ EXCEPT !.todo = Top(w).todo \ {i},
                          !.at = IF Top(w).todo = {i} THEN "help" ELSE "run"]]
    /\ UNCHANGED <<emptyEvent, blocked, state, pc, over, missed, closer>>

\* Variant: the worker does not execute other items while it waits.
HelpNot(w) ==
    /\ pc[w] = "exec" /\ Top(w).at = "help"
    /\ stack' = [stack EXCEPT ![w][Len(stack[w])].at = "block"]
    /\ UNCHANGED <<queue, workEvent, emptyEvent, blocked, state, pc, over, missed, closer>>

\* The loop of WorkerStreamWait::wait: while the wait is not satisfied the
\* worker executes other items; without any it blocks.
Help(w) ==
    /\ pc[w] = "exec" /\ Top(w).at = "help"
    /\ ~Satisfied(w)
    /\ \/ DequeueWork(w)
       \/ /\ DequeueNothing
          /\ stack' = [stack EXCEPT ![w][Len(stack[w])].at = "block"]
          /\ UNCHANGED pc
    /\ UNCHANGED <<workEvent, blocked, state, over, missed, closer>>

\* StreamWait::wait returns.
Resume(w) ==
    /\ pc[w] = "exec" /\ Top(w).at \in {"help", "block"}
    /\ Satisfied(w) /\ w \notin missed
    /\ Finish(w)
    /\ UNCHANGED <<queue, workEvent, emptyEvent, blocked, state, closer>>

\* A spurious wake-up, which nobody may count on
Spurious(w) ==
    /\ w \in missed
    /\ missed' = missed \ {w}
    /\ UNCHANGED <<queue, workEvent, emptyEvent, blocked, state, pc, stack, over, closer>>

-----------------------------------------------------------------------------
(* WorkerPool::close                                                       *)

CloseBlock ==
    /\ closer = "open"
    /\ ClosedEarly \/ \A w \in Workers : pc[w] # "start"
    /\ blocked' = TRUE
    /\ emptyEvent' = IF IsEmpty THEN emptyEvent + 1 ELSE emptyEvent
    /\ closer' = "drain"
    /\ UNCHANGED <<queue, workEvent, state, pc, stack, over, missed>>

\* Variant: close does not wait.
WaitEmptyNot ==
    /\ closer = "drain"
    /\ closer' = "stop"
    /\ UNCHANGED <<queue, workEvent, emptyEvent, blocked, state, pc, stack, over, missed>>

WaitEmpty ==
    /\ closer = "drain"
    /\ emptyEvent > 0
    /\ emptyEvent' = emptyEvent - 1
    /\ closer' = "stop"
    /\ UNCHANGED <<queue, workEvent, blocked, state, pc, stack, over, missed>>

StopWorkers ==
    /\ closer = "stop"
    /\ state' = [w \in Workers |-> "stopping"]
    /\ closer' = "wake"
    /\ UNCHANGED <<queue, workEvent, emptyEvent, blocked, pc, stack, over, missed>>

\* Variant: nobody is woken up.
WakeUpWorkersNot ==
    /\ closer = "wake"
    /\ closer' = "join"
    /\ UNCHANGED <<queue, workEvent, emptyEvent, blocked, state, pc, stack, over, missed>>

WakeUpWorkers ==
    /\ closer = "wake"
    /\ workEvent' = workEvent + 1
    /\ closer' = "join"
    /\ UNCHANGED <<queue, emptyEvent, blocked, state, pc, stack, over, missed>>

Join ==
    /\ closer = "join"
    /\ \A w \in Workers : state[w] = "finished"
    /\ closer' = "closed"
    /\ UNCHANGED <<queue, workEvent, emptyEvent, blocked, state, pc, stack, over, missed>>

-----------------------------------------------------------------------------
Worker(w) ==
    \/ Start(w) \/ Test(w) \/ Wait(w) \/ Take(w)
    \/ Run(w) \/ RunSubmit(w) \/ Help(w) \/ Resume(w)

CloseStep == WaitEmpty \/ StopWorkers \/ WakeUpWorkers \/ Join

PoolNext ==
    \/ \E i \in Items : SubmitWork(i)
    \/ \E w \in Workers : Worker(w) \/ Spurious(w)
    \/ CloseBlock \/ CloseStep

PoolSpec == PoolInit /\ [][PoolNext]_poolVars

\* The threads of the pool run, and close goes on once it was called.  A
\* semaphore that is posted wakes some sleeper, not a certain one.
FairSpec ==
    /\ PoolSpec
    /\ \A w \in Workers : WF_poolVars(Worker(w))
    /\ WF_poolVars(CloseStep)

-----------------------------------------------------------------------------
(* Properties                                                              *)

\* Every item the pool accepted has been executed when close returns.
ClosedMeansDone ==
    closer = "closed" => Queued = {} /\ Executing = {}

\* The work that lost wake-ups take away: all of it if every worker sleeps
\* for good, else the items of those that do
Lost(i) ==
    \/ missed = Workers
    \/ \E w \in missed : \E k \in DOMAIN stack[w] : stack[w][k].item = i

\* An item that was accepted is executed, although workers wait for items
\* inside of items: "all jobs, which the caller can possibly have submitted,
\* are either finished or are currently being processed by other worker
\* threads.  The wait should thus be satisfied soon."  Only a lost wake-up
\* keeps an item, and only those of the workers that missed one.
WorkIsDone == \A i \in Items : i \in Queued ~> (i \in over \/ []Lost(i))

\* close returns: "we therefore, wake all workers up so they recognize that
\* they should stop".  Lost wake-ups apart, it does not.
CloseReturns == closer = "drain" ~> (closer = "closed" \/ missed # {})

=============================================================================
