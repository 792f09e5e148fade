---------------------------- MODULE MCWorkerPool ----------------------------
(* Instances of WorkerPool for TLC.                                        *)
EXTENDS WorkerPool

\* Two decoders of a memory stream with one hidden stream each, and an
\* item of high priority
MCItems == {"mem1", "hidden1", "mem2", "hidden2", "urgent"}
MCChildren == [i \in MCItems |->
    CASE i = "mem1" -> {"hidden1"}
      [] i = "mem2" -> {"hidden2"}
      [] OTHER -> {}]
MCPriority == [i \in MCItems |-> IF i = "urgent" THEN 2 ELSE 1]

\* One decoder with two hidden streams
MCItemsOne == {"mem", "hidden1", "hidden2"}
MCChildrenOne == [i \in MCItemsOne |->
    IF i = "mem" THEN {"hidden1", "hidden2"} ELSE {}]
MCPriorityOne == [i \in MCItemsOne |-> 1]

=============================================================================
