--------------------------- MODULE MCConcurrentQueue ---------------------------
(***************************************************************************)
(* The lock-free parts of the moodycamel ConcurrentQueue on small          *)
(* instances: the blocks of one producer with a token (ConcurrentQueue) or *)
(* without (ImplicitProducer), the list of free blocks (RefFreeList), the  *)
(* choice of a producer (TokenRotation).  `part' says which of them a      *)
(* behaviour is about.                                                     *)
(***************************************************************************)
EXTENDS ImplicitProducer, RefFreeList, TokenRotation, TLC

CONSTANTS t1, t3, n1

VARIABLE part

\* the consumers of the blocks do the same things
Alike == Permutations(CqConsumers)

\* So do the threads at the free list: the third has nothing at the start, the first
\* has the first node, and the second node is with the first or the second.
MoodyInit ==
  /\ ImpInit /\ FlInit /\ TrInit
  /\ part \in {"blocks", "implicit", "free list", "producers"}
  /\ part = "implicit" \/ ixs # <<>>
  /\ n1 \in holds[t1] /\ holds[t3] = {}
  /\ part = "free list" \/ holds[t1] = FlNodes

\* Producers are numbered in the order in which they come into the list.
ProducersNumbered == \A p \in InList' : 1 .. p \subseteq InList'

\* The last item is only for a block index that has not been replaced yet: it makes
\* the index grow after it has wrapped.
LastItemWraps ==
  ipc = "idle" /\ ip' # ip /\ tailIndex + ip'.call.n = ImpItems => Len(ixs) <= 1

MoodyNext ==
  \/ part = "blocks" /\ CqNext /\ UNCHANGED <<impVars, flVars, trVars, part>>
  \/ part = "implicit" /\ ImpNext /\ LastItemWraps /\ UNCHANGED <<flVars, trVars, part>>
  \/ part = "free list" /\ FlNext /\ UNCHANGED <<cqVars, impVars, trVars, part>>
  \/ part = "producers" /\ TrNext /\ ProducersNumbered /\ UNCHANGED <<cqVars, impVars, flVars, part>>

MoodySpec == MoodyInit /\ [][MoodyNext]_<<cqVars, impVars, flVars, trVars, part>>
=============================================================================
