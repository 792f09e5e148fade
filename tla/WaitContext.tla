---------------------------- MODULE WaitContext ----------------------------
(***************************************************************************)
(* class WaitContext: a thread starts asynchronous operations, each of     *)
(* which holds one count of the context, and waits until the count is      *)
(* zero.  An operation ends with decrement: an interlocked subtraction and *)
(* then, if it was the last, _cv.wakeAll() - without the lock of _cv.      *)
(*                                                                         *)
(* Only the one thread that waits ever takes that lock, so it orders       *)
(* nothing and is left out; between the test of the count and the sleep in *)
(* pthread_cond_wait the operations go on.                                 *)
(***************************************************************************)
EXTENDS Integers, FiniteSets

CONSTANT Ops       \* the operations that use the context

VARIABLES
    count,         \* _count
    op,            \* what an operation is doing
    owner          \* what the thread is doing that owns the context

vars == <<count, op, owner>>

TypeOK ==
    /\ count \in 0..Cardinality(Ops)
    /\ op \in [Ops -> {"none", "running", "waking", "over"}]
    /\ owner \in {"begin", "test", "sleepy", "asleep", "returned", "destroyed"}

Init ==
    /\ count = 0
    /\ op = [o \in Ops |-> "none"]
    /\ owner = "begin"

-----------------------------------------------------------------------------
\* increment, and the operation is started.  The context is used again
\* after a wait.
Increment(o) ==
    /\ owner \in {"begin", "returned"}
    /\ op[o] = "none"
    /\ count' = count + 1
    /\ op' = [op EXCEPT ![o] = "running"]
    /\ owner' = "begin"

\* decrement, first half
Decrement(o) ==
    /\ op[o] = "running"
    /\ count' = count - 1
    /\ op' = [op EXCEPT ![o] = IF count = 1 THEN "waking" ELSE "over"]
    /\ UNCHANGED owner

\* decrement, second half: wakeAll
WakeAll(o) ==
    /\ op[o] = "waking"
    /\ op' = [op EXCEPT ![o] = "over"]
    /\ owner' = IF owner = "asleep" THEN "test" ELSE owner
    /\ UNCHANGED count

\* wait is called.
Wait ==
    /\ owner = "begin"
    /\ owner' = "test"
    /\ UNCHANGED <<count, op>>

\* while (_count > 0)
Test ==
    /\ owner = "test"
    /\ owner' = IF count > 0 THEN "sleepy" ELSE "returned"
    /\ UNCHANGED <<count, op>>

\* _cv.wait() puts the thread to sleep.
Sleep ==
    /\ owner = "sleepy"
    /\ owner' = "asleep"
    /\ UNCHANGED <<count, op>>

\* pthread_cond_wait may return without a wake-up.
Spurious ==
    /\ owner = "asleep"
    /\ owner' = "test"
    /\ UNCHANGED <<count, op>>

\* ~WaitContext: the wait in it returns at once, as nothing was started
\* since the last one.
Destroy ==
    /\ owner = "returned"
    /\ owner' = "destroyed"
    /\ UNCHANGED <<count, op>>

-----------------------------------------------------------------------------
Operation(o) == Decrement(o) \/ WakeAll(o)

Next ==
    \/ \E o \in Ops : Increment(o) \/ Operation(o)
    \/ Wait \/ Test \/ Sleep \/ Spurious \/ Destroy

Spec == Init /\ [][Next]_vars

\* The threads run and every operation ends.  Nothing makes a sleeping
\* thread wake up without a reason.
FairSpec ==
    /\ Spec
    /\ \A o \in Ops : WF_vars(Operation(o))
    /\ WF_vars(Test \/ Sleep)

-----------------------------------------------------------------------------
(* Properties                                                              *)

\* "Wait for any worker who uses this context to finish" (~WaitContext): no
\* operation touches the context after its destruction.
DestroyedUnused == owner = "destroyed" => \A o \in Ops : op[o] # "waking"

\* wait returns when all operations have ended.
WaitReturns == owner = "test" ~> owner = "returned"

=============================================================================
