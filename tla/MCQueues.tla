------------------------------- MODULE MCQueues -------------------------------
(***************************************************************************)
(* Calls on queues that may have to wait, on small instances: for a slot   *)
(* or an element of the ring (LockFreeQueue), for an item of the           *)
(* moodycamel queue (BlockingQueue), or for another thread that is         *)
(* replacing its table of producers (ProducerTable).  `part' says which of *)
(* them a behaviour is about.                                              *)
(***************************************************************************)
EXTENDS LockFreeQueue, BlockingQueue, ProducerTable

VARIABLE part

\* LockFreeProducerConsumerQueue(2, ...)
QSizeOf2 == NextPow2(2)

QueuesInit == Init /\ BqInit /\ PtInit /\ part \in {"ring", "blocking", "table"}

QueuesNext ==
  \/ part = "ring" /\ Next /\ UNCHANGED <<bqVars, ptVars, part>>
  \/ part = "blocking" /\ BqNext /\ UNCHANGED <<vars, ptVars, part>>
  \/ part = "table" /\ PtNext /\ UNCHANGED <<vars, bqVars, part>>

\* A thread outside of a call has no step that fairness asks for.
QueuesSpec ==
  /\ QueuesInit /\ [][QueuesNext]_<<vars, bqVars, ptVars, part>>
  /\ Fairness /\ BqFairness /\ PtFairness
=============================================================================
