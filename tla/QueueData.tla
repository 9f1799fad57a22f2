------------------------------ MODULE QueueData -------------------------------
(***************************************************************************)
(* What ProducerConsumerQueue (whisperlib/sync/producer_consumer_queue.h)  *)
(* does with data_ while it holds its mutex.                               *)
(***************************************************************************)
EXTENDS Naturals, Sequences

HasEmptySpace(data, max_size) == max_size = 0 \/ Len(data) < max_size

HasData(data) == data # <<>>

\* the end of PutAt, once there is space
PutAt(data, c, at_front) == IF at_front THEN <<c>> \o data ELSE Append(data, c)
=============================================================================
