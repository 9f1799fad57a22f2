----------------------------- MODULE RefFreeList -----------------------------
(***************************************************************************)
(* The lock-free FreeList of sync/moody/concurrentqueue.h: a stack whose    *)
(* nodes carry a reference count and the bit SHOULD_BE_ON_FREELIST, so that *)
(* a node goes back on the list only when nobody looks at its next pointer. *)
(* Every atomic access is a step.                                           *)
(***************************************************************************)
EXTENDS Integers, FiniteSets

CONSTANTS
  FlThreads,  \* threads that take and give back blocks
  FlNodes,    \* the blocks
  NoNode,     \* nullptr
  FlCalls     \* bound: calls of one thread

ASSUME FlAssumption ==
  NoNode \notin FlNodes /\ IsFiniteSet(FlThreads) /\ FlCalls \in Nat

VARIABLES
  freeListHead,
  freeListRefs,  \* node -> the count and the bit
  freeListNext,
  holds,         \* thread -> the nodes it took and did not give back
  fl             \* thread -> the locals of its call

flVars == <<freeListHead, freeListRefs, freeListNext, holds, fl>>

Refs(n, bit) == [n |-> n, bit |-> bit]
FlIdle == [pc |-> "idle", head |-> NoNode, next |-> NoNode, refs |-> Refs(0, FALSE),
           node |-> NoNode, aHead |-> NoNode, back |-> "idle"]

\* The nodes start with one thread or another, as new blocks do.
FlInit ==
  /\ freeListHead = NoNode
  /\ freeListRefs = [n \in FlNodes |-> Refs(0, FALSE)]
  /\ freeListNext = [n \in FlNodes |-> NoNode]
  /\ \E owner \in [FlNodes -> FlThreads] :
       holds = [t \in FlThreads |-> {n \in FlNodes : owner[n] = t}]
  /\ fl = [t \in FlThreads |-> [calls |-> 0, x |-> FlIdle]]

Me(t) == fl[t].x
On(t, pc) == Me(t).pc = pc
Now(t, x) == fl' = [fl EXCEPT ![t].x = x]
Starts(t, x) == /\ On(t, "idle") /\ fl[t].calls < FlCalls
                /\ fl' = [fl EXCEPT ![t] = [calls |-> @.calls + 1, x |-> x]]
\* add_knowing_refcount_is_zero, called from one of the two methods.
AddKnowingZero(x, n, back) == [x EXCEPT !.pc = "aload", !.node = n, !.back = back]
\* It returns: to the caller of add(), or to the loop of try_get().
Done(x) == IF x.back = "idle" THEN FlIdle
           ELSE [x EXCEPT !.pc = IF x.head = NoNode THEN "idle" ELSE "refs", !.node = NoNode,
                          !.aHead = NoNode, !.back = "idle"]
\* The loop of try_get() with the head just loaded.
Looks(x, h) == IF h = NoNode THEN FlIdle ELSE [x EXCEPT !.pc = "refs", !.head = h]

---------------------------------------------------------------------------
\* add(): the bit is set; whoever brings the count to zero adds the node.
Add(t) ==
  /\ \E n \in holds[t] :
       /\ freeListRefs' = [freeListRefs EXCEPT ![n].bit = TRUE]
       /\ holds' = [holds EXCEPT ![t] = @ \ {n}]
       /\ Starts(t, IF freeListRefs[n] = Refs(0, FALSE) THEN AddKnowingZero(FlIdle, n, "idle")
                                                        ELSE FlIdle)
  /\ UNCHANGED <<freeListHead, freeListNext>>

\* try_get()
TryGet(t) ==
  /\ Starts(t, Looks(FlIdle, freeListHead))
  /\ UNCHANGED <<freeListHead, freeListRefs, freeListNext, holds>>

LoadRefs(t) ==
  /\ On(t, "refs")
  /\ Now(t, IF freeListRefs[Me(t).head].n = 0 THEN [Me(t) EXCEPT !.pc = "reload"]
            ELSE [Me(t) EXCEPT !.pc = "take", !.refs = freeListRefs[Me(t).head]])
  /\ UNCHANGED <<freeListHead, freeListRefs, freeListNext, holds>>

ReloadHead(t) ==
  /\ On(t, "reload")
  /\ Now(t, Looks(Me(t), freeListHead))
  /\ UNCHANGED <<freeListHead, freeListRefs, freeListNext, holds>>

\* The reference that pins the next pointer.
TakeRef(t) ==
  /\ On(t, "take")
  /\ LET h == Me(t).head
         same == freeListRefs[h] = Me(t).refs
     IN  /\ freeListRefs' = IF same THEN [freeListRefs EXCEPT ![h].n = @ + 1] ELSE freeListRefs
         /\ Now(t, [Me(t) EXCEPT !.pc = IF same THEN "next" ELSE "reload", !.refs = Refs(0, FALSE)])
  /\ UNCHANGED <<freeListHead, freeListNext, holds>>

LoadNext(t) ==
  /\ On(t, "next")
  /\ Now(t, [Me(t) EXCEPT !.pc = "pop", !.next = freeListNext[Me(t).head]])
  /\ UNCHANGED <<freeListHead, freeListRefs, freeListNext, holds>>

\* The compare_exchange of the head; a failure leaves prevHead in node.
PopHead(t) ==
  /\ On(t, "pop")
  /\ LET x == [Me(t) EXCEPT !.next = NoNode]
     IN  IF freeListHead = x.head
         THEN freeListHead' = Me(t).next /\ Now(t, [x EXCEPT !.pc = "got"])
         ELSE /\ UNCHANGED freeListHead
              /\ Now(t, [x EXCEPT !.pc = "drop", !.node = x.head, !.head = freeListHead])
  /\ UNCHANGED <<freeListRefs, freeListNext, holds>>

\* Two references go at once, the caller's and the list's.
Got(t) ==
  /\ On(t, "got")
  /\ freeListRefs' = [freeListRefs EXCEPT ![Me(t).head].n = @ - 2]
  /\ holds' = [holds EXCEPT ![t] = @ \cup {Me(t).head}]
  /\ Now(t, FlIdle)
  /\ UNCHANGED <<freeListHead, freeListNext>>

\* The head had changed: the reference is dropped, and with it perhaps the
\* last one of a node that should be on the list.
DropRef(t) ==
  /\ On(t, "drop")
  /\ LET n == Me(t).node
     IN  /\ freeListRefs' = [freeListRefs EXCEPT ![n].n = @ - 1]
         /\ Now(t, IF freeListRefs[n] = Refs(1, TRUE) THEN AddKnowingZero(Me(t), n, "try_get")
                   ELSE Done([Me(t) EXCEPT !.back = "try_get"]))
  /\ UNCHANGED <<freeListHead, freeListNext, holds>>

\* add_knowing_refcount_is_zero()
AddLoadHead(t) ==
  /\ On(t, "aload")
  /\ Now(t, [Me(t) EXCEPT !.pc = "astore", !.aHead = freeListHead])
  /\ UNCHANGED <<freeListHead, freeListRefs, freeListNext, holds>>

StoreNext(t) ==
  /\ On(t, "astore")
  /\ freeListNext' = [freeListNext EXCEPT ![Me(t).node] = Me(t).aHead]
  /\ Now(t, [Me(t) EXCEPT !.pc = "aone"])
  /\ UNCHANGED <<freeListHead, freeListRefs, holds>>

\* The bit goes away and the count is the list's one reference.
StoreOne(t) ==
  /\ On(t, "aone")
  /\ freeListRefs' = [freeListRefs EXCEPT ![Me(t).node] = Refs(1, FALSE)]
  /\ Now(t, [Me(t) EXCEPT !.pc = "apush"])
  /\ UNCHANGED <<freeListHead, freeListNext, holds>>

PushHead(t) ==
  /\ On(t, "apush")
  /\ IF freeListHead = Me(t).aHead
     THEN freeListHead' = Me(t).node /\ Now(t, Done(Me(t)))
     ELSE UNCHANGED freeListHead /\ Now(t, [Me(t) EXCEPT !.pc = "aback", !.aHead = freeListHead])
  /\ UNCHANGED <<freeListRefs, freeListNext, holds>>

\* The push failed: fetch_add(SHOULD_BE_ON_FREELIST - 1), and another try only
\* when nobody took a reference meanwhile.  (Faulty: in any case.)
RetryPutBack(t) ==
  /\ On(t, "aback")
  /\ freeListRefs' = [freeListRefs EXCEPT ![Me(t).node] = Refs(@.n - 1, TRUE)]
  /\ Now(t, [Me(t) EXCEPT !.pc = "astore"])
  /\ UNCHANGED <<freeListHead, freeListNext, holds>>
PutBack(t) ==
  /\ On(t, "aback")
  /\ LET n == Me(t).node
     IN  /\ freeListRefs' = [freeListRefs EXCEPT ![n] = Refs(@.n - 1, TRUE)]
         /\ Now(t, IF freeListRefs[n] = Refs(1, FALSE) THEN [Me(t) EXCEPT !.pc = "astore"]
                   ELSE Done(Me(t)))
  /\ UNCHANGED <<freeListHead, freeListNext, holds>>

FlNext == \E t \in FlThreads :
  \/ Add(t) \/ TryGet(t) \/ LoadRefs(t) \/ ReloadHead(t) \/ TakeRef(t) \/ LoadNext(t)
  \/ PopHead(t) \/ Got(t) \/ DropRef(t) \/ AddLoadHead(t) \/ StoreNext(t) \/ StoreOne(t)
  \/ PushHead(t) \/ PutBack(t)

FlSpec == FlInit /\ [][FlNext]_flVars

---------------------------------------------------------------------------
(* Properties.                                                              *)

\* Every variable has its type; no reference is dropped twice.
FlTypeOK ==
  /\ freeListHead \in FlNodes \cup {NoNode}
  /\ freeListNext \in [FlNodes -> FlNodes \cup {NoNode}]
  /\ freeListRefs \in [FlNodes -> [n : 0..(Cardinality(FlThreads) + 1), bit : BOOLEAN]]
  /\ holds \in [FlThreads -> SUBSET FlNodes]

\* Neither the head nor a next pointer leads out of S.
ClosedUnderNext(S) ==
  /\ freeListHead \in S \cup {NoNode}
  /\ \A n \in S : freeListNext[n] \in S \cup {NoNode}
\* The nodes that one meets from the head on.
Listed == {n \in FlNodes : \A S \in SUBSET FlNodes : ClosedUnderNext(S) => n \in S}
\* One does not go round in circles there.
ListEnds == \A S \in SUBSET Listed : S # {} => \E n \in S : freeListNext[n] \notin S

\* A node is held by one thread at most and never held while on the list, and
\* the list has an end: no thread pushes what another pops, no stale next
\* pointer becomes the head.
HeldOnce ==
  /\ \A t, u \in FlThreads : t # u => holds[t] \cap holds[u] = {}
  /\ \A t \in FlThreads : holds[t] \cap Listed = {}
  /\ ListEnds

\* The assertion of try_get: a node just popped does not have the bit.
PoppedHasNoBit == \A t \in FlThreads : On(t, "got") => ~freeListRefs[Me(t).head].bit

\* Once no call is under way no node is lost, and the counts are those of
\* nodes that nobody looks at.
FlQuiet == \A t \in FlThreads : On(t, "idle")
NodesAccounted ==
  FlQuiet =>
    /\ FlNodes = Listed \cup UNION {holds[t] : t \in FlThreads}
    /\ \A n \in FlNodes : freeListRefs[n] = Refs(IF n \in Listed THEN 1 ELSE 0, FALSE)

\* FreeList: a node is on the list or with one thread, and none is lost between
\* the last reference and the list.
FlInv == FlTypeOK /\ HeldOnce /\ PoppedHasNoBit /\ NodesAccounted
=============================================================================
