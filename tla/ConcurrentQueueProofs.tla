------------------------ MODULE ConcurrentQueueProofs ------------------------
(***************************************************************************)
(* Proofs about the moodycamel ConcurrentQueue: the list of free blocks    *)
(* (RefFreeList), for any number of threads, blocks and calls; the         *)
(* counters by which consumers claim items, shared by explicit and         *)
(* implicit producers (ConcurrentQueue, ImplicitProducer), for any number  *)
(* of consumers, calls and items in a bulk; and the calls that look for    *)
(* items in the list of producers (TokenRotation), for any producers,      *)
(* consumers and tokens.                                                   *)
(***************************************************************************)
EXTENDS ImplicitProducer, RefFreeList, TokenRotation, FiniteSetTheorems, NaturalsInduction,
        WellFoundedInduction, TLAPS

-----------------------------------------------------------------------------
(* The list of free blocks: the inductive invariant                        *)

\* What a thread with locals x does with node n: it holds a reference to it, has
\* popped it, or is adding it, before or after the bit went away.
Pinning(x, n) == \/ x.pc \in {"next", "pop", "got"} /\ x.head = n
                 \/ x.pc = "drop" /\ x.node = n
Popped(x, n) == x.pc = "got" /\ x.head = n
Early(x, n)  == x.pc \in {"aload", "astore", "aone"} /\ x.node = n
Late(x, n)   == x.pc \in {"apush", "aback"} /\ x.node = n
Adding(x, n) == Early(x, n) \/ Late(x, n)

Pins(n) == {t \in FlThreads : Pinning(Me(t), n)}

Nodes == FlNodes \cup {NoNode}
Locals ==
  [pc : {"idle", "refs", "reload", "take", "next", "pop", "got", "drop",
         "aload", "astore", "aone", "apush", "aback"},
   head : Nodes, next : Nodes, refs : [n : Nat, bit : BOOLEAN],
   node : Nodes, aHead : Nodes, back : {"idle", "try_get"}]

FlKinds ==
  /\ freeListHead \in Nodes
  /\ freeListNext \in [FlNodes -> Nodes]
  /\ freeListRefs \in [FlNodes -> [n : Nat, bit : BOOLEAN]]
  /\ holds \in [FlThreads -> SUBSET FlNodes]
  /\ fl \in [FlThreads -> [calls : Nat, x : Locals]]

(* What a thread read is still so when it relies on it: the next pointer   *)
(* of a node that it pins, and the one of a node that it adds.             *)
LocalsHold(x) ==
  /\ x.pc \in {"refs", "reload", "take", "next", "pop", "got"} => x.head \in FlNodes
  /\ x.pc \in {"drop", "aload", "astore", "aone", "apush", "aback"} => x.node \in FlNodes
  /\ x.pc = "take" => x.refs.n > 0
  /\ x.pc = "pop" => x.next = freeListNext[x.head]
  /\ x.pc \in {"aone", "apush"} => x.aHead = freeListNext[x.node]

(* The list, its last node first.                                          *)
ListIs(k, s) ==
  /\ s \in [1..k -> FlNodes]
  /\ \A i, j \in 1..k : s[i] = s[j] => i = j
  /\ freeListHead = IF k = 0 THEN NoNode ELSE s[k]
  /\ \A i \in 1..k : freeListNext[s[i]] = IF i = 1 THEN NoNode ELSE s[i - 1]

OnList(k, s) == {s[i] : i \in 1..k}

\* nodes that own a reference: ls are those on the list
Counted(n, ls) == n \in ls \/ \E t \in FlThreads : Popped(Me(t), n) \/ Late(Me(t), n)
Held(n) == \E t \in FlThreads : n \in holds[t]

(* A node is on the list, with one thread that holds it, popped it or adds *)
(* it, or waits for its last reference to be dropped: then it has the bit. *)
(* Its count is that of the threads that pin it and of the list.           *)
PlaceOK(n, ls) ==
  /\ \A t \in FlThreads : n \in holds[t] =>
       n \notin ls /\ \A u \in FlThreads : /\ u # t => n \notin holds[u]
                                          /\ ~Adding(Me(u), n) /\ ~Popped(Me(u), n)
  /\ \A t \in FlThreads : Adding(Me(t), n) =>
       n \notin ls /\ \A u \in FlThreads : /\ u # t => ~Adding(Me(u), n)
                                          /\ ~Popped(Me(u), n)
  /\ \A t \in FlThreads : Popped(Me(t), n) =>
       n \notin ls /\ \A u \in FlThreads : u # t => ~Popped(Me(u), n)
  /\ freeListRefs[n].n = Cardinality(Pins(n)) + IF Counted(n, ls) THEN 1 ELSE 0
  /\ freeListRefs[n].bit <=> ~(Counted(n, ls) \/ Held(n))
  /\ (\E t \in FlThreads : Early(Me(t), n)) <=> freeListRefs[n].n = 0 /\ freeListRefs[n].bit

FlIInv ==
  /\ FlKinds
  /\ \A t \in FlThreads : LocalsHold(Me(t))
  /\ \E k \in Nat : \E s \in [1..k -> FlNodes] :
       ListIs(k, s) /\ \A n \in FlNodes : PlaceOK(n, OnList(k, s))

-----------------------------------------------------------------------------
(* Lemmas                                                                  *)

(* The call of one thread moves on.                                        *)
LEMMA MovesOn ==
  ASSUME FlKinds, NEW t \in FlThreads, NEW y \in Locals, Now(t, y) \/ Starts(t, y)
  PROVE  /\ fl' \in [FlThreads -> [calls : Nat, x : Locals]]
         /\ Me(t)' = y
         /\ \A u \in FlThreads : u # t => Me(u)' = Me(u)
<1>1. fl \in [FlThreads -> [calls : Nat, x : Locals]]
  BY DEF FlKinds
<1>2. PICK c \in Nat : fl' = [fl EXCEPT ![t] = [calls |-> c, x |-> y]]
  <2>1. CASE Now(t, y)
    <3>1. fl' = [fl EXCEPT ![t] = [fl[t] EXCEPT !.x = y]]
      BY <2>1 DEF Now
    <3>2. [fl[t] EXCEPT !.x = y] = [calls |-> fl[t].calls, x |-> y] /\ fl[t].calls \in Nat
      BY <1>1
    <3>3. QED
      BY <3>1, <3>2
  <2>2. CASE Starts(t, y)
    <3>1. fl' = [fl EXCEPT ![t] = [calls |-> fl[t].calls + 1, x |-> y]]
      BY <2>2 DEF Starts
    <3>2. fl[t].calls + 1 \in Nat
      BY <1>1
    <3>3. QED
      BY <3>1, <3>2
  <2>3. QED
    BY <2>1, <2>2
<1>3. [calls |-> c, x |-> y] \in [calls : Nat, x : Locals]
  OBVIOUS
<1>4. QED
  BY <1>1, <1>2, <1>3 DEF Me

(* The threads that pin a node are finitely many, and one thread is one of *)
(* them.                                                                   *)
LEMMA PinBounds ==
  ASSUME NEW n
  PROVE  /\ IsFiniteSet(Pins(n)) /\ Cardinality(Pins(n)) \in Nat
         /\ Cardinality(FlThreads) \in Nat /\ Cardinality(Pins(n)) <= Cardinality(FlThreads)
         /\ \A t \in FlThreads : Pinning(Me(t), n) => Cardinality(Pins(n)) > 0
         /\ Cardinality(Pins(n)) > 0 => \E t \in FlThreads : Pinning(Me(t), n)
<1>1. IsFiniteSet(FlThreads) /\ Pins(n) \in SUBSET FlThreads
  BY FlAssumption DEF Pins
<1>2. IsFiniteSet(Pins(n)) /\ Cardinality(Pins(n)) <= Cardinality(FlThreads)
  BY <1>1, FS_Subset
<1>3. Cardinality(Pins(n)) \in Nat /\ Cardinality(FlThreads) \in Nat
  BY <1>1, <1>2, FS_CardinalityType
<1>4. Cardinality(Pins(n)) = 0 <=> Pins(n) = {}
  BY <1>2, FS_EmptySet
<1>5. \A t \in FlThreads : Pinning(Me(t), n) => t \in Pins(n)
  BY DEF Pins
<1>6. Pins(n) # {} => \E t \in FlThreads : Pinning(Me(t), n)
  BY DEF Pins
<1>7. QED
  BY <1>2, <1>3, <1>4, <1>5, <1>6

One(b) == IF b THEN 1 ELSE 0

(* A step of one thread changes the number of them by what it does itself. *)
LEMMA PinCount ==
  ASSUME NEW t \in FlThreads, NEW n, NEW y, Me(t)' = y,
         \A u \in FlThreads : u # t => Me(u)' = Me(u)
  PROVE  Cardinality(Pins(n))' =
           Cardinality(Pins(n)) + One(Pinning(y, n)) - One(Pinning(Me(t), n))
<1>1. IsFiniteSet(Pins(n)) /\ Cardinality(Pins(n)) \in Nat
  BY PinBounds
<1>2. PICK P : P = {u \in FlThreads : Pinning(Me(u), n)'}
  OBVIOUS
<1>3. P = IF Pinning(y, n) THEN Pins(n) \cup {t} ELSE Pins(n) \ {t}
  BY <1>2 DEF Pins, Pinning
<1>4. t \in Pins(n) <=> Pinning(Me(t), n)
  BY DEF Pins
<1>5. Cardinality(Pins(n))' = Cardinality(P)
  BY <1>2 DEF Pins
<1>6. CASE Pinning(y, n)
  <2>1. Cardinality(P) = IF t \in Pins(n) THEN Cardinality(Pins(n)) ELSE Cardinality(Pins(n)) + 1
    BY <1>1, <1>3, <1>6, FS_AddElement
  <2>2. QED
    BY <1>1, <1>4, <1>5, <1>6, <2>1 DEF One
<1>7. CASE ~Pinning(y, n)
  <2>1. Cardinality(P) = IF t \in Pins(n) THEN Cardinality(Pins(n)) - 1 ELSE Cardinality(Pins(n))
    BY <1>1, <1>3, <1>7, FS_RemoveElement
  <2>2. QED
    BY <1>1, <1>4, <1>5, <1>7, <2>1 DEF One
<1>8. QED
  BY <1>6, <1>7

\* thread t, with locals y after the step, does nothing to node n
SameFor(t, y, n) ==
  /\ Pinning(y, n) <=> Pinning(Me(t), n)
  /\ Popped(y, n) <=> Popped(Me(t), n)
  /\ Early(y, n) <=> Early(Me(t), n)
  /\ Late(y, n) <=> Late(Me(t), n)

(* A node that a step is not about keeps its place.                        *)
LEMMA Elsewhere ==
  ASSUME NEW t \in FlThreads, NEW n \in FlNodes, NEW y, NEW K, NEW ls,
         Me(t)' = y, \A u \in FlThreads : u # t => Me(u)' = Me(u),
         SameFor(t, y, n), PlaceOK(n, K), n \in ls <=> n \in K,
         freeListRefs'[n] = freeListRefs[n],
         \A u \in FlThreads : n \in holds'[u] <=> n \in holds[u]
  PROVE  PlaceOK(n, ls)'
<1>1. \A u \in FlThreads : /\ Popped(Me(u), n)' <=> Popped(Me(u), n)
                           /\ Early(Me(u), n)' <=> Early(Me(u), n)
                           /\ Late(Me(u), n)' <=> Late(Me(u), n)
                           /\ Adding(Me(u), n)' <=> Adding(Me(u), n)
  BY DEF SameFor, Popped, Early, Late, Adding
<1>2. Counted(n, ls)' <=> Counted(n, K)
  BY <1>1 DEF Counted
<1>3. Held(n)' <=> Held(n)
  BY DEF Held
<1>4. Cardinality(Pins(n))' = Cardinality(Pins(n))
  BY PinCount, PinBounds DEF SameFor, One
<1>5. QED
  BY <1>1, <1>2, <1>3, <1>4 DEF PlaceOK

(* A list with every node in its place.                                    *)
LEMMA Concludes ==
  ASSUME FlKinds', \A u \in FlThreads : LocalsHold(Me(u))',
         NEW k \in Nat, NEW s \in [1..k -> FlNodes], ListIs(k, s)',
         NEW ls, ls = OnList(k, s), \A n \in FlNodes : PlaceOK(n, ls)'
  PROVE  FlIInv'
<1>1. OnList(k, s)' = ls
  BY DEF OnList
<1>2. \A n \in FlNodes : PlaceOK(n, OnList(k, s))'
  BY <1>1
<1>3. QED
  BY <1>2 DEF FlIInv

(* A step that only reads.                                                 *)
LEMMA ReadStep ==
  ASSUME FlIInv, NEW t \in FlThreads, NEW y \in Locals, Now(t, y) \/ Starts(t, y),
         UNCHANGED <<freeListHead, freeListRefs, freeListNext, holds>>,
         LocalsHold(y), \A n \in FlNodes : SameFor(t, y, n)
  PROVE  FlIInv'
<1>1. FlKinds /\ \A u \in FlThreads : LocalsHold(Me(u))
  BY DEF FlIInv
<1>2. PICK k \in Nat : \E s \in [1..k -> FlNodes] :
        ListIs(k, s) /\ \A n \in FlNodes : PlaceOK(n, OnList(k, s))
  BY DEF FlIInv
<1>3. PICK s \in [1..k -> FlNodes] :
        ListIs(k, s) /\ \A n \in FlNodes : PlaceOK(n, OnList(k, s))
  BY <1>2
<1>4. /\ fl' \in [FlThreads -> [calls : Nat, x : Locals]]
      /\ Me(t)' = y /\ \A u \in FlThreads : u # t => Me(u)' = Me(u)
  BY <1>1, MovesOn
<1>5. FlKinds'
  BY <1>1, <1>4 DEF FlKinds
<1>6. \A u \in FlThreads : LocalsHold(Me(u))'
  BY <1>1, <1>4 DEF LocalsHold
<1>7. ListIs(k, s)'
  BY <1>3 DEF ListIs
<1>8. PICK ls : ls = OnList(k, s)
  OBVIOUS
<1>9. \A n \in FlNodes : PlaceOK(n, ls)
  BY <1>3, <1>8
<1>10. ASSUME NEW n \in FlNodes PROVE PlaceOK(n, ls)'
  BY <1>4, <1>9, Elsewhere
<1>11. QED
  BY <1>3, <1>5, <1>6, <1>7, <1>8, <1>10, Concludes

LEMMA IdleLocals ==
  /\ FlIdle \in Locals /\ FlIdle.pc = "idle" /\ FlIdle.head = NoNode /\ FlIdle.back = "idle"
  /\ \A n : ~Pinning(FlIdle, n) /\ ~Popped(FlIdle, n) /\ ~Early(FlIdle, n) /\ ~Late(FlIdle, n)
  /\ LocalsHold(FlIdle)
<1>1. FlIdle \in Locals /\ FlIdle.pc = "idle" /\ FlIdle.head = NoNode /\ FlIdle.back = "idle"
  BY DEF FlIdle, Locals, Nodes, Refs
<1>2. QED
  BY <1>1 DEF Pinning, Popped, Early, Late, LocalsHold

(* The loop of try_get with a head: no role.                               *)
LEMMA LooksLocals ==
  ASSUME NEW x \in Locals, NEW h \in Nodes
  PROVE  /\ Looks(x, h) \in Locals /\ LocalsHold(Looks(x, h))
         /\ \A n : /\ ~Pinning(Looks(x, h), n) /\ ~Popped(Looks(x, h), n)
                   /\ ~Early(Looks(x, h), n) /\ ~Late(Looks(x, h), n)
<1>1. CASE h = NoNode
  BY <1>1, IdleLocals DEF Looks
<1>2. CASE h # NoNode
  <2>1. PICK y : y = [x EXCEPT !.pc = "refs", !.head = h]
    OBVIOUS
  <2>2. y \in Locals /\ y.pc = "refs" /\ y.head \in FlNodes
    BY <1>2, <2>1 DEF Locals, Nodes
  <2>3. Looks(x, h) = y
    BY <1>2, <2>1 DEF Looks
  <2>4. QED
    BY <2>2, <2>3 DEF Pinning, Popped, Early, Late, LocalsHold
<1>3. QED
  BY <1>1, <1>2

(* add_knowing_refcount_is_zero has returned: no role either.              *)
LEMMA DoneLocals ==
  ASSUME NEW x \in Locals
  PROVE  /\ Done(x) \in Locals /\ LocalsHold(Done(x))
         /\ \A n : /\ ~Pinning(Done(x), n) /\ ~Popped(Done(x), n)
                   /\ ~Early(Done(x), n) /\ ~Late(Done(x), n)
<1>1. CASE x.back = "idle"
  BY <1>1, IdleLocals DEF Done
<1>2. CASE x.back # "idle"
  <2>1. PICK y : y = [x EXCEPT !.pc = IF x.head = NoNode THEN "idle" ELSE "refs",
                               !.node = NoNode, !.aHead = NoNode, !.back = "idle"]
    OBVIOUS
  <2>2. y \in Locals /\ y.pc \in {"idle", "refs"} /\ (y.pc = "refs" => y.head \in FlNodes)
    BY <2>1 DEF Locals, Nodes
  <2>3. Done(x) = y
    BY <1>2, <2>1 DEF Done
  <2>4. QED
    BY <2>2, <2>3 DEF Pinning, Popped, Early, Late, LocalsHold
<1>3. QED
  BY <1>1, <1>2

(* The steps of try_get and add that only read.                            *)
LEMMA Reading ==
  ASSUME FlIInv, NEW t \in FlThreads,
         TryGet(t) \/ LoadRefs(t) \/ ReloadHead(t) \/ LoadNext(t) \/ AddLoadHead(t)
  PROVE  FlIInv'
<1> DEFINE x == Me(t)
<1>1. /\ FlKinds /\ LocalsHold(x) /\ x \in Locals /\ freeListHead \in Nodes
      /\ freeListNext \in [FlNodes -> Nodes]
      /\ freeListRefs \in [FlNodes -> [n : Nat, bit : BOOLEAN]]
  BY DEF FlIInv, FlKinds, Me
<1>2. UNCHANGED <<freeListHead, freeListRefs, freeListNext, holds>>
  BY DEF TryGet, LoadRefs, ReloadHead, LoadNext, AddLoadHead
<1>3. CASE TryGet(t)
  <2>1. PICK y : y = Looks(FlIdle, freeListHead)
    OBVIOUS
  <2>2. Starts(t, y) /\ x.pc = "idle"
    BY <1>3, <2>1 DEF TryGet, Starts, On
  <2>3. /\ y \in Locals /\ LocalsHold(y)
        /\ \A n : ~Pinning(y, n) /\ ~Popped(y, n) /\ ~Early(y, n) /\ ~Late(y, n)
    BY <1>1, <2>1, IdleLocals, LooksLocals
  <2>4. \A n \in FlNodes : SameFor(t, y, n)
    BY <2>2, <2>3 DEF SameFor, Pinning, Popped, Early, Late
  <2>5. QED
    BY <1>2, <2>2, <2>3, <2>4, ReadStep
<1>4. CASE ReloadHead(t)
  <2>1. PICK y : y = Looks(x, freeListHead)
    OBVIOUS
  <2>2. Now(t, y) /\ x.pc = "reload"
    BY <1>4, <2>1 DEF ReloadHead, On
  <2>3. /\ y \in Locals /\ LocalsHold(y)
        /\ \A n : ~Pinning(y, n) /\ ~Popped(y, n) /\ ~Early(y, n) /\ ~Late(y, n)
    BY <1>1, <2>1, LooksLocals
  <2>4. \A n \in FlNodes : SameFor(t, y, n)
    BY <2>2, <2>3 DEF SameFor, Pinning, Popped, Early, Late
  <2>5. QED
    BY <1>2, <2>2, <2>3, <2>4, ReadStep
<1>5. CASE LoadRefs(t)
  <2>1. PICK y : y = IF freeListRefs[x.head].n = 0 THEN [x EXCEPT !.pc = "reload"]
                     ELSE [x EXCEPT !.pc = "take", !.refs = freeListRefs[x.head]]
    OBVIOUS
  <2>2. Now(t, y) /\ x.pc = "refs"
    BY <1>5, <2>1 DEF LoadRefs, On
  <2>3. x.head \in FlNodes /\ freeListRefs[x.head] \in [n : Nat, bit : BOOLEAN]
    BY <1>1, <2>2 DEF LocalsHold
  <2>4. /\ y \in Locals /\ y.head = x.head /\ y.pc \in {"reload", "take"}
        /\ y.pc = "take" => y.refs.n > 0
    <3>1. PICK r \in [n : Nat, bit : BOOLEAN] : r = freeListRefs[x.head]
      BY <2>3
    <3>2. CASE r.n = 0
      BY <1>1, <2>1, <3>1, <3>2 DEF Locals
    <3>3. CASE r.n # 0
      <4>1. y = [x EXCEPT !.pc = "take", !.refs = r] /\ r.n > 0
        BY <2>1, <3>1, <3>3
      <4>2. QED
        BY <1>1, <4>1 DEF Locals
    <3>4. QED
      BY <3>2, <3>3
  <2>5. LocalsHold(y) /\ \A n \in FlNodes : SameFor(t, y, n)
    BY <2>2, <2>3, <2>4 DEF LocalsHold, SameFor, Pinning, Popped, Early, Late
  <2>6. QED
    BY <1>2, <2>2, <2>4, <2>5, ReadStep
<1>6. CASE LoadNext(t)
  <2>1. PICK y : y = [x EXCEPT !.pc = "pop", !.next = freeListNext[x.head]]
    OBVIOUS
  <2>2. Now(t, y) /\ x.pc = "next"
    BY <1>6, <2>1 DEF LoadNext, On
  <2>3. x.head \in FlNodes /\ freeListNext[x.head] \in Nodes
    BY <1>1, <2>2 DEF LocalsHold
  <2>4. y \in Locals /\ y.head = x.head /\ y.pc = "pop" /\ y.next = freeListNext[x.head]
    BY <1>1, <2>1, <2>3 DEF Locals
  <2>5. LocalsHold(y) /\ \A n \in FlNodes : SameFor(t, y, n)
    BY <2>2, <2>3, <2>4 DEF LocalsHold, SameFor, Pinning, Popped, Early, Late
  <2>6. QED
    BY <1>2, <2>2, <2>4, <2>5, ReadStep
<1>7. CASE AddLoadHead(t)
  <2>1. PICK y : y = [x EXCEPT !.pc = "astore", !.aHead = freeListHead]
    OBVIOUS
  <2>2. Now(t, y) /\ x.pc = "aload"
    BY <1>7, <2>1 DEF AddLoadHead, On
  <2>3. y \in Locals /\ y.node = x.node /\ y.pc = "astore" /\ x.node \in FlNodes
    BY <1>1, <2>1, <2>2 DEF Locals, LocalsHold
  <2>4. LocalsHold(y) /\ \A n \in FlNodes : SameFor(t, y, n)
    BY <2>2, <2>3 DEF LocalsHold, SameFor, Pinning, Popped, Early, Late
  <2>5. QED
    BY <1>2, <2>2, <2>3, <2>4, ReadStep
<1>8. QED
  BY <1>3, <1>4, <1>5, <1>6, <1>7

-----------------------------------------------------------------------------
(* The steps that write the counts                                         *)

(* The roles for a node after a step of t.                                 *)
LEMMA RolesAfter ==
  ASSUME NEW t \in FlThreads, NEW y, NEW m, Me(t)' = y,
         \A u \in FlThreads : u # t => Me(u)' = Me(u)
  PROVE  /\ \A u \in FlThreads : u # t =>
              /\ (Popped(Me(u), m)' <=> Popped(Me(u), m)) /\ (Early(Me(u), m)' <=> Early(Me(u), m))
              /\ (Late(Me(u), m)' <=> Late(Me(u), m)) /\ (Adding(Me(u), m)' <=> Adding(Me(u), m))
         /\ (Popped(Me(t), m)' <=> Popped(y, m)) /\ (Early(Me(t), m)' <=> Early(y, m))
         /\ (Late(Me(t), m)' <=> Late(y, m)) /\ (Adding(Me(t), m)' <=> Adding(y, m))
         /\ Cardinality(Pins(m))' =
              Cardinality(Pins(m)) + One(Pinning(y, m)) - One(Pinning(Me(t), m))
         /\ Cardinality(Pins(m)) \in Nat
         /\ Pinning(Me(t), m) => Cardinality(Pins(m)) > 0
<1>1. Cardinality(Pins(m))' = Cardinality(Pins(m)) + One(Pinning(y, m)) - One(Pinning(Me(t), m))
  BY PinCount
<1>2. Cardinality(Pins(m)) \in Nat /\ (Pinning(Me(t), m) => Cardinality(Pins(m)) > 0)
  BY PinBounds
<1>3. QED
  BY <1>1, <1>2 DEF Popped, Early, Late, Adding

(* The count of one node changes, the list does not.                       *)
LEMMA CountStep ==
  ASSUME FlIInv, NEW t \in FlThreads, NEW y \in Locals, Now(t, y) \/ Starts(t, y),
         NEW m \in FlNodes, NEW r \in [n : Nat, bit : BOOLEAN],
         freeListRefs' = [freeListRefs EXCEPT ![m] = r],
         UNCHANGED <<freeListHead, freeListNext>>,
         holds' \in [FlThreads -> SUBSET FlNodes],
         \A n \in FlNodes : n # m => \A u \in FlThreads : n \in holds'[u] <=> n \in holds[u],
         LocalsHold(y), \A n \in FlNodes : n # m => SameFor(t, y, n),
         \A ls : PlaceOK(m, ls) => PlaceOK(m, ls)'
  PROVE  FlIInv'
<1>1. FlKinds /\ \A u \in FlThreads : LocalsHold(Me(u))
  BY DEF FlIInv
<1>2. PICK k \in Nat : \E s \in [1..k -> FlNodes] :
        ListIs(k, s) /\ \A n \in FlNodes : PlaceOK(n, OnList(k, s))
  BY DEF FlIInv
<1>3. PICK s \in [1..k -> FlNodes] :
        ListIs(k, s) /\ \A n \in FlNodes : PlaceOK(n, OnList(k, s))
  BY <1>2
<1>4. /\ fl' \in [FlThreads -> [calls : Nat, x : Locals]]
      /\ Me(t)' = y /\ \A u \in FlThreads : u # t => Me(u)' = Me(u)
  BY <1>1, MovesOn
<1>5. FlKinds'
  BY <1>1, <1>4 DEF FlKinds
<1>6. \A u \in FlThreads : LocalsHold(Me(u))'
  BY <1>1, <1>4 DEF LocalsHold
<1>7. ListIs(k, s)'
  BY <1>3 DEF ListIs
<1>8. PICK ls : ls = OnList(k, s)
  OBVIOUS
<1>9. \A n \in FlNodes : PlaceOK(n, ls)
  BY <1>3, <1>8
<1>10. \A n \in FlNodes : n # m => freeListRefs'[n] = freeListRefs[n]
  BY <1>1 DEF FlKinds
<1>11. ASSUME NEW n \in FlNodes PROVE PlaceOK(n, ls)'
  <2>1. CASE n = m
    BY <1>9, <2>1
  <2>2. CASE n # m
    <3>1. SameFor(t, y, n) /\ freeListRefs'[n] = freeListRefs[n] /\ PlaceOK(n, ls)
      BY <1>9, <1>10, <2>2
    <3>2. \A u \in FlThreads : n \in holds'[u] <=> n \in holds[u]
      BY <2>2
    <3>3. QED
      BY <1>4, <3>1, <3>2, Elsewhere
  <2>3. QED
    BY <2>1, <2>2
<1>12. QED
  BY <1>3, <1>5, <1>6, <1>7, <1>8, <1>11, Concludes

(* The reference of TakeRef: the node has one already, so nobody adds it   *)
(* before the bit goes away.                                               *)
LEMMA Taking ==
  ASSUME FlIInv, NEW t \in FlThreads, TakeRef(t)
  PROVE  FlIInv'
<1>1. PICK x \in Locals : x = Me(t) /\ LocalsHold(x) /\ x.pc = "take"
  BY DEF FlIInv, FlKinds, Me, TakeRef, On
<1>2. PICK m \in FlNodes : m = x.head
  BY <1>1 DEF LocalsHold
<1>3. /\ freeListRefs \in [FlNodes -> [n : Nat, bit : BOOLEAN]]
      /\ holds \in [FlThreads -> SUBSET FlNodes] /\ FlKinds
      /\ UNCHANGED <<freeListHead, freeListNext, holds>>
      /\ x.refs \in [n : Nat, bit : BOOLEAN]
  BY <1>1 DEF FlIInv, FlKinds, TakeRef, Locals
<1>4. Refs(0, FALSE) \in [n : Nat, bit : BOOLEAN]
  BY DEF Refs
<1>5. CASE freeListRefs[m] = x.refs
  <2>1. PICK y : y = [x EXCEPT !.pc = "next", !.refs = Refs(0, FALSE)]
    OBVIOUS
  <2>2. PICK r : r = [freeListRefs[m] EXCEPT !.n = @ + 1]
    OBVIOUS
  <2>3. Now(t, y) /\ freeListRefs' = [freeListRefs EXCEPT ![m] = r]
    BY <1>1, <1>2, <1>5, <2>1, <2>2 DEF TakeRef
  <2>4. y \in Locals /\ y.pc = "next" /\ y.head = m
    BY <1>1, <1>2, <1>4, <2>1 DEF Locals
  <2>5. /\ r \in [n : Nat, bit : BOOLEAN] /\ r.n = freeListRefs[m].n + 1
        /\ r.bit = freeListRefs[m].bit /\ freeListRefs[m].n > 0
    BY <1>1, <1>3, <1>5, <2>2 DEF LocalsHold
  <2>6. LocalsHold(y) /\ \A n \in FlNodes : n # m => SameFor(t, y, n)
    BY <1>1, <2>4 DEF LocalsHold, SameFor, Pinning, Popped, Early, Late
  <2>7. ASSUME NEW ls, PlaceOK(m, ls) PROVE PlaceOK(m, ls)'
    <3>1. /\ Pinning(y, m) /\ ~Popped(y, m) /\ ~Early(y, m) /\ ~Late(y, m) /\ ~Adding(y, m)
          /\ ~Pinning(Me(t), m) /\ ~Popped(Me(t), m) /\ ~Early(Me(t), m) /\ ~Late(Me(t), m)
          /\ ~Adding(Me(t), m)
      BY <1>1, <2>4 DEF Pinning, Popped, Early, Late, Adding
    <3>2. freeListRefs'[m] = r /\ holds' = holds /\ freeListRefs[m].n \in Nat
      BY <1>3, <2>3
    <3>3. Me(t)' = y /\ \A u \in FlThreads : u # t => Me(u)' = Me(u)
      BY <1>3, <2>3, <2>4, MovesOn
    <3>4. Cardinality(Pins(m))' = Cardinality(Pins(m)) + 1 /\ Cardinality(Pins(m)) \in Nat
      BY <3>1, <3>3, RolesAfter DEF One
    <3>5. \A u \in FlThreads :
            /\ (Popped(Me(u), m)' <=> Popped(Me(u), m)) /\ (Early(Me(u), m)' <=> Early(Me(u), m))
            /\ (Late(Me(u), m)' <=> Late(Me(u), m)) /\ (Adding(Me(u), m)' <=> Adding(Me(u), m))
      BY <3>1, <3>3, RolesAfter
    <3>6. (Counted(m, ls)' <=> Counted(m, ls)) /\ (Held(m)' <=> Held(m))
      BY <3>2, <3>5 DEF Counted, Held
    <3>7. QED
      BY <2>5, <2>7, <3>2, <3>4, <3>5, <3>6 DEF PlaceOK
  <2>8. QED
    BY <1>3, <2>3, <2>4, <2>5, <2>6, <2>7, CountStep
<1>6. CASE freeListRefs[m] # x.refs
  <2>1. PICK y : y = [x EXCEPT !.pc = "reload", !.refs = Refs(0, FALSE)]
    OBVIOUS
  <2>2. Now(t, y) /\ freeListRefs' = freeListRefs
    BY <1>1, <1>2, <1>6, <2>1 DEF TakeRef
  <2>3. y \in Locals /\ y.pc = "reload" /\ y.head = m
    BY <1>1, <1>2, <1>4, <2>1 DEF Locals
  <2>4. LocalsHold(y) /\ \A n \in FlNodes : SameFor(t, y, n)
    BY <1>1, <2>3 DEF LocalsHold, SameFor, Pinning, Popped, Early, Late
  <2>5. QED
    BY <1>3, <2>2, <2>3, <2>4, ReadStep
<1>7. QED
  BY <1>5, <1>6

(* add(): the holder gives the node up.  Without a reference it adds the   *)
(* node itself, otherwise whoever drops the last one does.                 *)
LEMMA GivingBack ==
  ASSUME FlIInv, NEW t \in FlThreads, Add(t)
  PROVE  FlIInv'
<1>1. PICK m \in holds[t] :
        /\ freeListRefs' = [freeListRefs EXCEPT ![m].bit = TRUE]
        /\ holds' = [holds EXCEPT ![t] = @ \ {m}]
        /\ Starts(t, IF freeListRefs[m] = Refs(0, FALSE) THEN AddKnowingZero(FlIdle, m, "idle")
                                                         ELSE FlIdle)
        /\ UNCHANGED <<freeListHead, freeListNext>>
  BY DEF Add
<1>2. /\ freeListRefs \in [FlNodes -> [n : Nat, bit : BOOLEAN]]
      /\ holds \in [FlThreads -> SUBSET FlNodes] /\ FlKinds /\ m \in FlNodes
  BY DEF FlIInv, FlKinds
<1>3. PICK r : r = [freeListRefs[m] EXCEPT !.bit = TRUE]
  OBVIOUS
<1>4. /\ freeListRefs' = [freeListRefs EXCEPT ![m] = r] /\ r \in [n : Nat, bit : BOOLEAN]
      /\ r.n = freeListRefs[m].n /\ r.bit /\ freeListRefs[m].n \in Nat
  BY <1>1, <1>2, <1>3
<1>5. PICK y : y = IF freeListRefs[m] = Refs(0, FALSE) THEN AddKnowingZero(FlIdle, m, "idle")
                                                       ELSE FlIdle
  OBVIOUS
<1>6. Starts(t, y) /\ Me(t).pc = "idle"
  BY <1>1, <1>5 DEF Starts, On
<1>7. freeListRefs[m] = Refs(0, FALSE) <=> freeListRefs[m].n = 0 /\ ~freeListRefs[m].bit
  BY <1>2 DEF Refs
<1>8. /\ y \in Locals /\ LocalsHold(y) /\ \A n : ~Pinning(y, n) /\ ~Popped(y, n) /\ ~Late(y, n)
      /\ \A n : Early(y, n) <=> n = m /\ freeListRefs[m].n = 0 /\ ~freeListRefs[m].bit
  <2>1. CASE freeListRefs[m] = Refs(0, FALSE)
    <3>1. y = [FlIdle EXCEPT !.pc = "aload", !.node = m, !.back = "idle"]
      BY <1>5, <2>1 DEF AddKnowingZero
    <3>2. y \in Locals /\ y.pc = "aload" /\ y.node = m
      BY <1>2, <3>1, IdleLocals DEF Locals, Nodes
    <3>3. QED
      BY <1>2, <1>7, <2>1, <3>2 DEF LocalsHold, Pinning, Popped, Late, Early
  <2>2. CASE freeListRefs[m] # Refs(0, FALSE)
    BY <1>5, <1>7, <2>2, IdleLocals
  <2>3. QED
    BY <2>1, <2>2
<1>9. \A n \in FlNodes : n # m => SameFor(t, y, n)
  BY <1>6, <1>8 DEF SameFor, Pinning, Popped, Early, Late
<1>10. /\ holds' \in [FlThreads -> SUBSET FlNodes]
       /\ \A n \in FlNodes : n # m => \A u \in FlThreads : n \in holds'[u] <=> n \in holds[u]
       /\ m \notin holds'[t] /\ \A u \in FlThreads : u # t => holds'[u] = holds[u]
  BY <1>1, <1>2
<1>11. ASSUME NEW ls, PlaceOK(m, ls) PROVE PlaceOK(m, ls)'
  <2>1. /\ ~Pinning(Me(t), m) /\ ~Popped(Me(t), m) /\ ~Early(Me(t), m) /\ ~Late(Me(t), m)
    BY <1>6 DEF Pinning, Popped, Early, Late
  <2>2. freeListRefs'[m] = r
    BY <1>2, <1>4
  <2>3. Me(t)' = y /\ \A u \in FlThreads : u # t => Me(u)' = Me(u)
    BY <1>2, <1>6, <1>8, MovesOn
  <2>4. Cardinality(Pins(m))' = Cardinality(Pins(m)) /\ Cardinality(Pins(m)) \in Nat
    BY <1>8, <2>1, <2>3, RolesAfter DEF One
  <2>5. /\ \A u \in FlThreads : /\ ~Adding(Me(u), m) /\ ~Popped(Me(u), m) /\ ~Late(Me(u), m)
                                /\ u # t => m \notin holds[u]
        /\ m \notin ls /\ Held(m)
    BY <1>1, <1>11 DEF PlaceOK, Held, Adding
  <2>6. \A u \in FlThreads : /\ ~Popped(Me(u), m)' /\ ~Late(Me(u), m)'
                             /\ (Early(Me(u), m)' <=> u = t /\ Early(y, m))
                             /\ (Adding(Me(u), m)' <=> u = t /\ Early(y, m))
    BY <1>8, <2>3, <2>5, RolesAfter DEF Adding
  <2>7. ~Counted(m, ls)' /\ ~Counted(m, ls) /\ ~Held(m)'
    BY <1>10, <2>5, <2>6 DEF Counted, Held
  <2>8. freeListRefs[m].n = Cardinality(Pins(m)) /\ ~freeListRefs[m].bit
    BY <1>4, <1>11, <2>4, <2>5, <2>7 DEF PlaceOK
  <2>9. QED
    BY <1>4, <1>8, <1>10, <2>2, <2>4, <2>5, <2>6, <2>7, <2>8 DEF PlaceOK
<1>12. m \in FlNodes /\ UNCHANGED <<freeListHead, freeListNext>>
  BY <1>1, <1>2
<1>13. QED
  BY <1>4, <1>6, <1>8, <1>9, <1>10, <1>11, <1>12, CountStep

(* The node that was popped: the reference of the list and one's own.      *)
LEMMA Getting ==
  ASSUME FlIInv, NEW t \in FlThreads, Got(t)
  PROVE  FlIInv'
<1>1. PICK x \in Locals : x = Me(t) /\ LocalsHold(x) /\ x.pc = "got"
  BY DEF FlIInv, FlKinds, Me, Got, On
<1>2. PICK m \in FlNodes : m = x.head
  BY <1>1 DEF LocalsHold
<1>3. /\ freeListRefs \in [FlNodes -> [n : Nat, bit : BOOLEAN]]
      /\ holds \in [FlThreads -> SUBSET FlNodes] /\ FlKinds
  BY DEF FlIInv, FlKinds
<1>4. PICK r : r = [freeListRefs[m] EXCEPT !.n = @ - 2]
  OBVIOUS
<1>5. /\ freeListRefs' = [freeListRefs EXCEPT ![m] = r]
      /\ holds' = [holds EXCEPT ![t] = @ \cup {m}] /\ Now(t, FlIdle)
      /\ UNCHANGED <<freeListHead, freeListNext>>
      /\ r.n = freeListRefs[m].n - 2 /\ r.bit = freeListRefs[m].bit /\ freeListRefs[m].n \in Nat
  BY <1>1, <1>2, <1>3, <1>4 DEF Got
<1>6. Pinning(Me(t), m) /\ Popped(Me(t), m) /\ ~Early(Me(t), m) /\ ~Late(Me(t), m)
  BY <1>1, <1>2 DEF Pinning, Popped, Early, Late
<1>7. freeListRefs[m].n = Cardinality(Pins(m)) + 1 /\ Cardinality(Pins(m)) > 0
      /\ Cardinality(Pins(m)) \in Nat
  <2>1. \E ls : PlaceOK(m, ls)
    BY DEF FlIInv
  <2>2. PICK ls : PlaceOK(m, ls)
    BY <2>1
  <2>3. Counted(m, ls)
    BY <1>6 DEF Counted
  <2>4. QED
    BY <1>6, <2>2, <2>3, PinBounds DEF PlaceOK
<1>8. r \in [n : Nat, bit : BOOLEAN]
  <2>1. freeListRefs[m].n - 2 \in Nat
    BY <1>7
  <2>2. QED
    BY <1>3, <1>4, <2>1
<1>9. \A n \in FlNodes : n # m => SameFor(t, FlIdle, n)
  BY <1>1, <1>2, IdleLocals DEF SameFor, Pinning, Popped, Early, Late
<1>10. /\ holds' \in [FlThreads -> SUBSET FlNodes]
       /\ \A n \in FlNodes : n # m => \A u \in FlThreads : n \in holds'[u] <=> n \in holds[u]
       /\ m \in holds'[t] /\ \A u \in FlThreads : u # t => holds'[u] = holds[u]
  BY <1>3, <1>5
<1>11. ASSUME NEW ls, PlaceOK(m, ls) PROVE PlaceOK(m, ls)'
  <2>1. freeListRefs'[m] = r
    BY <1>3, <1>5
  <2>2. Me(t)' = FlIdle /\ \A u \in FlThreads : u # t => Me(u)' = Me(u)
    BY <1>3, <1>5, IdleLocals, MovesOn
  <2>3. Cardinality(Pins(m))' = Cardinality(Pins(m)) - 1
    BY <1>6, <1>7, <2>2, IdleLocals, RolesAfter DEF One
  <2>4. /\ \A u \in FlThreads : /\ ~Adding(Me(u), m) /\ m \notin holds[u]
                                /\ u # t => ~Popped(Me(u), m)
        /\ m \notin ls /\ ~freeListRefs[m].bit
    BY <1>6, <1>11 DEF PlaceOK, Counted
  <2>5. \A u \in FlThreads : ~Popped(Me(u), m)' /\ ~Adding(Me(u), m)'
    BY <2>2, <2>4, IdleLocals, RolesAfter DEF Adding
  <2>6. \A u \in FlThreads : ~Late(Me(u), m)' /\ ~Early(Me(u), m)'
    BY <2>5 DEF Adding
  <2>7. ~Counted(m, ls)' /\ Held(m)'
    BY <1>10, <2>4, <2>5, <2>6 DEF Counted, Held
  <2>8. QED
    BY <1>5, <1>7, <1>10, <2>1, <2>3, <2>4, <2>5, <2>6, <2>7 DEF PlaceOK
<1>12. QED
  BY <1>3, <1>5, <1>8, <1>9, <1>10, <1>11, IdleLocals, CountStep

(* The head had changed: a reference is dropped, and with the last one of  *)
(* a node that has the bit the thread begins to add it.                    *)
LEMMA Dropping ==
  ASSUME FlIInv, NEW t \in FlThreads, DropRef(t)
  PROVE  FlIInv'
<1>1. PICK x \in Locals : x = Me(t) /\ LocalsHold(x) /\ x.pc = "drop"
  BY DEF FlIInv, FlKinds, Me, DropRef, On
<1>2. PICK m \in FlNodes : m = x.node
  BY <1>1 DEF LocalsHold
<1>3. /\ freeListRefs \in [FlNodes -> [n : Nat, bit : BOOLEAN]]
      /\ holds \in [FlThreads -> SUBSET FlNodes] /\ FlKinds
      /\ UNCHANGED <<freeListHead, freeListNext, holds>>
  BY DEF FlIInv, FlKinds, DropRef
<1>4. PICK r : r = [freeListRefs[m] EXCEPT !.n = @ - 1]
  OBVIOUS
<1>5. PICK y : y = IF freeListRefs[m] = Refs(1, TRUE) THEN AddKnowingZero(x, m, "try_get")
                   ELSE Done([x EXCEPT !.back = "try_get"])
  OBVIOUS
<1>6. /\ freeListRefs' = [freeListRefs EXCEPT ![m] = r] /\ Now(t, y)
      /\ r.n = freeListRefs[m].n - 1 /\ r.bit = freeListRefs[m].bit /\ freeListRefs[m].n \in Nat
  BY <1>1, <1>2, <1>3, <1>4, <1>5 DEF DropRef
<1>7. Pinning(Me(t), m) /\ ~Popped(Me(t), m) /\ ~Early(Me(t), m) /\ ~Late(Me(t), m)
  BY <1>1, <1>2 DEF Pinning, Popped, Early, Late
<1>8. Cardinality(Pins(m)) > 0 /\ Cardinality(Pins(m)) \in Nat
  BY <1>7, PinBounds
<1>9. r \in [n : Nat, bit : BOOLEAN]
  <2>1. PICK ls : PlaceOK(m, ls)
    BY DEF FlIInv
  <2>2. freeListRefs[m].n - 1 \in Nat
    BY <1>8, <2>1 DEF PlaceOK
  <2>3. QED
    BY <1>3, <1>4, <2>2
<1>10. freeListRefs[m] = Refs(1, TRUE) <=> freeListRefs[m].n = 1 /\ freeListRefs[m].bit
  BY <1>3 DEF Refs
<1>11. /\ y \in Locals /\ LocalsHold(y) /\ \A n : ~Pinning(y, n) /\ ~Popped(y, n) /\ ~Late(y, n)
       /\ \A n : Early(y, n) <=> n = m /\ freeListRefs[m].n = 1 /\ freeListRefs[m].bit
  <2>1. CASE freeListRefs[m] = Refs(1, TRUE)
    <3>1. y = [x EXCEPT !.pc = "aload", !.node = m, !.back = "try_get"]
      BY <1>5, <2>1 DEF AddKnowingZero
    <3>2. y \in Locals /\ y.pc = "aload" /\ y.node = m
      BY <3>1 DEF Locals, Nodes
    <3>3. QED
      BY <1>10, <2>1, <3>2 DEF LocalsHold, Pinning, Popped, Late, Early
  <2>2. CASE freeListRefs[m] # Refs(1, TRUE)
    <3>1. PICK z : z = [x EXCEPT !.back = "try_get"]
      OBVIOUS
    <3>2. z \in Locals /\ y = Done(z)
      BY <1>5, <2>2, <3>1 DEF Locals
    <3>3. QED
      BY <1>10, <2>2, <3>2, DoneLocals
  <2>3. QED
    BY <2>1, <2>2
<1>12. \A n \in FlNodes : n # m => SameFor(t, y, n)
  BY <1>1, <1>2, <1>11 DEF SameFor, Pinning, Popped, Early, Late
<1>13. ASSUME NEW ls, PlaceOK(m, ls) PROVE PlaceOK(m, ls)'
  <2>1. freeListRefs'[m] = r /\ holds' = holds
    BY <1>3, <1>6
  <2>2. Me(t)' = y /\ \A u \in FlThreads : u # t => Me(u)' = Me(u)
    BY <1>3, <1>6, <1>11, MovesOn
  <2>3. Cardinality(Pins(m))' = Cardinality(Pins(m)) - 1
    BY <1>7, <1>8, <1>11, <2>2, RolesAfter DEF One
  <2>4. \A u \in FlThreads : /\ (Popped(Me(u), m)' <=> Popped(Me(u), m))
                             /\ (Late(Me(u), m)' <=> Late(Me(u), m))
    BY <1>7, <1>11, <2>2, RolesAfter
  <2>5. (Counted(m, ls)' <=> Counted(m, ls)) /\ (Held(m)' <=> Held(m))
    BY <2>1, <2>4 DEF Counted, Held
  <2>6. \A u \in FlThreads : ~Early(Me(u), m)
    BY <1>6, <1>8, <1>13 DEF PlaceOK
  <2>7. \A u \in FlThreads : /\ (Early(Me(u), m)' <=> u = t /\ Early(y, m))
                             /\ (Adding(Me(u), m)' <=> Late(Me(u), m) \/ (u = t /\ Early(y, m)))
    BY <1>7, <1>11, <2>2, <2>6, RolesAfter DEF Adding
  <2>8. Early(y, m) => freeListRefs[m].n = 1 /\ freeListRefs[m].bit /\ ~Counted(m, ls) /\ ~Held(m)
    BY <1>11, <1>13 DEF PlaceOK
  <2>9. \A u \in FlThreads : Early(y, m) => ~Late(Me(u), m) /\ ~Popped(Me(u), m) /\ m \notin holds[u]
                                            /\ m \notin ls
    BY <2>8 DEF Counted, Held
  <2>10. \A u \in FlThreads : Adding(Me(u), m) <=> Late(Me(u), m)
    BY <2>6 DEF Adding
  <2>11. (\E u \in FlThreads : Early(Me(u), m)') <=> r.n = 0 /\ r.bit
    <3>1. r.n = 0 /\ r.bit <=> Early(y, m)
      BY <1>6, <1>11
    <3>2. QED
      BY <2>7, <3>1
  <2>12. r.n = Cardinality(Pins(m))' + (IF Counted(m, ls)' THEN 1 ELSE 0)
         /\ (r.bit <=> ~(Counted(m, ls)' \/ Held(m)'))
    BY <1>6, <1>8, <1>13, <2>3, <2>5 DEF PlaceOK
  <2>13. QED
    BY <1>13, <2>1, <2>4, <2>7, <2>9, <2>10, <2>11, <2>12 DEF PlaceOK
<1>14. QED
  BY <1>3, <1>6, <1>9, <1>11, <1>12, <1>13, CountStep

(* The bit gives way to the list's reference.                              *)
LEMMA Announcing ==
  ASSUME FlIInv, NEW t \in FlThreads, StoreOne(t)
  PROVE  FlIInv'
<1>1. PICK x \in Locals : x = Me(t) /\ LocalsHold(x) /\ x.pc = "aone"
  BY DEF FlIInv, FlKinds, Me, StoreOne, On
<1>2. PICK m \in FlNodes : m = x.node
  BY <1>1 DEF LocalsHold
<1>3. /\ freeListRefs \in [FlNodes -> [n : Nat, bit : BOOLEAN]]
      /\ holds \in [FlThreads -> SUBSET FlNodes] /\ FlKinds
      /\ UNCHANGED <<freeListHead, freeListNext, holds>>
  BY DEF FlIInv, FlKinds, StoreOne
<1>4. PICK r : r = Refs(1, FALSE) /\ r \in [n : Nat, bit : BOOLEAN] /\ r.n = 1 /\ ~r.bit
  <2>1. /\ Refs(1, FALSE) \in [n : Nat, bit : BOOLEAN]
        /\ Refs(1, FALSE).n = 1 /\ ~Refs(1, FALSE).bit
    BY DEF Refs
  <2>2. QED
    BY <2>1
<1>5. PICK y : y = [x EXCEPT !.pc = "apush"]
  OBVIOUS
<1>6. freeListRefs' = [freeListRefs EXCEPT ![m] = r] /\ Now(t, y)
  BY <1>1, <1>2, <1>4, <1>5 DEF StoreOne
<1>7. y \in Locals /\ y.pc = "apush" /\ y.node = m /\ y.aHead = x.aHead
  BY <1>1, <1>2, <1>5 DEF Locals
<1>8. LocalsHold(y) /\ \A n \in FlNodes : n # m => SameFor(t, y, n)
  BY <1>1, <1>2, <1>7 DEF LocalsHold, SameFor, Pinning, Popped, Early, Late
<1>9. /\ ~Pinning(Me(t), m) /\ Early(Me(t), m) /\ Adding(Me(t), m) /\ ~Late(Me(t), m)
      /\ ~Pinning(y, m) /\ ~Popped(y, m) /\ ~Early(y, m) /\ Late(y, m)
  BY <1>1, <1>2, <1>7 DEF Pinning, Popped, Early, Late, Adding
<1>10. ASSUME NEW ls, PlaceOK(m, ls) PROVE PlaceOK(m, ls)'
  <2>1. freeListRefs'[m] = r /\ holds' = holds
    BY <1>3, <1>6
  <2>2. Me(t)' = y /\ \A u \in FlThreads : u # t => Me(u)' = Me(u)
    BY <1>3, <1>6, <1>7, MovesOn
  <2>3. Cardinality(Pins(m))' = Cardinality(Pins(m)) /\ Cardinality(Pins(m)) \in Nat
    BY <1>9, <2>2, RolesAfter DEF One
  <2>4. /\ \A u \in FlThreads : ~Popped(Me(u), m) /\ (u # t => ~Adding(Me(u), m))
        /\ \A u \in FlThreads : m \notin holds[u]
        /\ m \notin ls /\ freeListRefs[m].n = 0
    BY <1>9, <1>10 DEF PlaceOK
  <2>5. Cardinality(Pins(m)) = 0
    BY <1>10, <2>3, <2>4 DEF PlaceOK
  <2>6. \A u \in FlThreads : /\ ~Popped(Me(u), m)' /\ ~Early(Me(u), m)'
                             /\ (Late(Me(u), m)' <=> u = t) /\ (Adding(Me(u), m)' <=> u = t)
    BY <1>9, <2>2, <2>4, RolesAfter DEF Adding
  <2>7. Counted(m, ls)' /\ ~Held(m)'
    BY <2>1, <2>4, <2>6 DEF Counted, Held
  <2>8. /\ r.n = Cardinality(Pins(m))' + (IF Counted(m, ls)' THEN 1 ELSE 0)
        /\ r.bit <=> ~(Counted(m, ls)' \/ Held(m)')
        /\ (\E u \in FlThreads : Early(Me(u), m)') <=> r.n = 0 /\ r.bit
    <3>1. Cardinality(Pins(m))' + (IF Counted(m, ls)' THEN 1 ELSE 0) = 1
      BY <2>3, <2>5, <2>7
    <3>2. ~(\E u \in FlThreads : Early(Me(u), m)')
      BY <2>6
    <3>3. QED
      BY <1>4, <2>7, <3>1, <3>2
  <2>9. QED
    BY <2>1, <2>4, <2>6, <2>8 DEF PlaceOK
<1>11. QED
  BY <1>3, <1>4, <1>6, <1>7, <1>8, <1>10, CountStep

(* A failed push takes the reference back and sets the bit; whoever has a  *)
(* reference then adds the node in the end.                                *)
LEMMA TakingBack ==
  ASSUME FlIInv, NEW t \in FlThreads, PutBack(t)
  PROVE  FlIInv'
<1>1. PICK x \in Locals : x = Me(t) /\ LocalsHold(x) /\ x.pc = "aback"
  BY DEF FlIInv, FlKinds, Me, PutBack, On
<1>2. PICK m \in FlNodes : m = x.node
  BY <1>1 DEF LocalsHold
<1>3. /\ freeListRefs \in [FlNodes -> [n : Nat, bit : BOOLEAN]]
      /\ holds \in [FlThreads -> SUBSET FlNodes] /\ FlKinds
      /\ UNCHANGED <<freeListHead, freeListNext, holds>>
  BY DEF FlIInv, FlKinds, PutBack
<1>4. PICK r : r = Refs(freeListRefs[m].n - 1, TRUE)
  OBVIOUS
<1>5. PICK y : y = IF freeListRefs[m] = Refs(1, FALSE) THEN [x EXCEPT !.pc = "astore"] ELSE Done(x)
  OBVIOUS
<1>6. /\ freeListRefs' = [freeListRefs EXCEPT ![m] = r] /\ Now(t, y)
      /\ r.n = freeListRefs[m].n - 1 /\ r.bit /\ freeListRefs[m].n \in Nat
  BY <1>1, <1>2, <1>3, <1>4, <1>5 DEF PutBack, Refs
<1>7. ~Pinning(Me(t), m) /\ ~Popped(Me(t), m) /\ ~Early(Me(t), m) /\ Late(Me(t), m)
      /\ Adding(Me(t), m)
  BY <1>1, <1>2 DEF Pinning, Popped, Early, Late, Adding
<1>8. /\ Cardinality(Pins(m)) \in Nat /\ freeListRefs[m].n = Cardinality(Pins(m)) + 1
      /\ ~freeListRefs[m].bit
  <2>1. PICK ls : PlaceOK(m, ls)
    BY DEF FlIInv
  <2>2. Counted(m, ls) /\ Cardinality(Pins(m)) \in Nat
    BY <1>7, PinBounds DEF Counted
  <2>3. QED
    BY <2>1, <2>2 DEF PlaceOK
<1>9. r \in [n : Nat, bit : BOOLEAN]
  BY <1>4, <1>8 DEF Refs
<1>10. freeListRefs[m] = Refs(1, FALSE) <=> freeListRefs[m].n = 1
  BY <1>3, <1>8 DEF Refs
<1>11. /\ y \in Locals /\ LocalsHold(y) /\ \A n : ~Pinning(y, n) /\ ~Popped(y, n) /\ ~Late(y, n)
       /\ \A n : Early(y, n) <=> n = m /\ freeListRefs[m].n = 1
  <2>1. CASE freeListRefs[m] = Refs(1, FALSE)
    <3>1. y \in Locals /\ y.pc = "astore" /\ y.node = m
      BY <1>2, <1>5, <2>1 DEF Locals, Nodes
    <3>2. QED
      BY <1>10, <2>1, <3>1 DEF LocalsHold, Pinning, Popped, Late, Early
  <2>2. CASE freeListRefs[m] # Refs(1, FALSE)
    BY <1>5, <1>10, <2>2, DoneLocals
  <2>3. QED
    BY <2>1, <2>2
<1>12. \A n \in FlNodes : n # m => SameFor(t, y, n)
  BY <1>1, <1>2, <1>11 DEF SameFor, Pinning, Popped, Early, Late
<1>13. ASSUME NEW ls, PlaceOK(m, ls) PROVE PlaceOK(m, ls)'
  <2>1. freeListRefs'[m] = r /\ holds' = holds
    BY <1>3, <1>6
  <2>2. Me(t)' = y /\ \A u \in FlThreads : u # t => Me(u)' = Me(u)
    BY <1>3, <1>6, <1>11, MovesOn
  <2>3. Cardinality(Pins(m))' = Cardinality(Pins(m))
    BY <1>7, <1>8, <1>11, <2>2, RolesAfter DEF One
  <2>4. /\ \A u \in FlThreads : ~Popped(Me(u), m) /\ (u # t => ~Adding(Me(u), m))
        /\ \A u \in FlThreads : m \notin holds[u]
        /\ m \notin ls
    BY <1>7, <1>13 DEF PlaceOK
  <2>5. \A u \in FlThreads : /\ ~Popped(Me(u), m)' /\ ~Late(Me(u), m)'
                             /\ (Early(Me(u), m)' <=> u = t /\ freeListRefs[m].n = 1)
                             /\ (Adding(Me(u), m)' <=> u = t /\ freeListRefs[m].n = 1)
    BY <1>11, <2>2, <2>4, RolesAfter DEF Adding
  <2>6. ~Counted(m, ls)' /\ ~Held(m)'
    BY <2>1, <2>4, <2>5 DEF Counted, Held
  <2>7. r.n = Cardinality(Pins(m)) /\ (r.n = 0 <=> freeListRefs[m].n = 1)
    BY <1>6, <1>8
  <2>8. QED
    BY <1>6, <1>8, <2>1, <2>3, <2>4, <2>5, <2>6, <2>7 DEF PlaceOK
<1>14. QED
  BY <1>3, <1>6, <1>9, <1>11, <1>12, <1>13, CountStep

-----------------------------------------------------------------------------
(* The steps that write the list                                           *)

(* The next pointer of a node that has the bit and no reference: nobody    *)
(* relies on it.                                                           *)
LEMMA Linking ==
  ASSUME FlIInv, NEW t \in FlThreads, StoreNext(t)
  PROVE  FlIInv'
<1>1. PICK x \in Locals : x = Me(t) /\ LocalsHold(x) /\ x.pc = "astore"
  BY DEF FlIInv, FlKinds, Me, StoreNext, On
<1>2. PICK m \in FlNodes : m = x.node
  BY <1>1 DEF LocalsHold
<1>3. FlKinds /\ (\A u \in FlThreads : LocalsHold(Me(u))) /\ x.aHead \in Nodes
  BY DEF FlIInv, Locals
<1>4. PICK k \in Nat : \E s \in [1..k -> FlNodes] :
        ListIs(k, s) /\ \A n \in FlNodes : PlaceOK(n, OnList(k, s))
  BY DEF FlIInv
<1>5. PICK s \in [1..k -> FlNodes] :
        ListIs(k, s) /\ \A n \in FlNodes : PlaceOK(n, OnList(k, s))
  BY <1>4
<1>6. PICK ls : ls = OnList(k, s)
  OBVIOUS
<1>7. PICK y : y = [x EXCEPT !.pc = "aone"]
  OBVIOUS
<1>8. /\ freeListNext' = [freeListNext EXCEPT ![m] = x.aHead] /\ Now(t, y)
      /\ UNCHANGED <<freeListHead, freeListRefs, holds>>
  BY <1>1, <1>2, <1>7 DEF StoreNext
<1>9. y \in Locals /\ y.pc = "aone" /\ y.node = m /\ y.aHead = x.aHead
  BY <1>1, <1>2, <1>7 DEF Locals
<1>10. /\ fl' \in [FlThreads -> [calls : Nat, x : Locals]]
       /\ Me(t)' = y /\ \A u \in FlThreads : u # t => Me(u)' = Me(u)
  BY <1>3, <1>8, <1>9, MovesOn
<1>11. Early(Me(t), m) /\ Adding(Me(t), m)
  BY <1>1, <1>2 DEF Early, Adding
<1>12. /\ m \notin ls /\ \A u \in FlThreads : ~Pinning(Me(u), m)
       /\ \A u \in FlThreads : u # t => ~Adding(Me(u), m)
  <2>1. PlaceOK(m, ls)
    BY <1>5, <1>6
  <2>2. /\ m \notin ls /\ \A u \in FlThreads : u # t => ~Adding(Me(u), m)
        /\ freeListRefs[m].n = 0
    BY <1>11, <2>1 DEF PlaceOK
  <2>3. Cardinality(Pins(m)) \in Nat /\ ~(Cardinality(Pins(m)) > 0)
    BY <2>1, <2>2, PinBounds DEF PlaceOK
  <2>4. QED
    BY <2>2, <2>3, PinBounds
<1>13. FlKinds'
  BY <1>3, <1>8, <1>10 DEF FlKinds
<1>14. ASSUME NEW u \in FlThreads PROVE LocalsHold(Me(u))'
  <2>1. freeListNext'[m] = x.aHead /\ \A n \in FlNodes : n # m => freeListNext'[n] = freeListNext[n]
    BY <1>3, <1>8 DEF FlKinds
  <2>2. CASE u = t
    BY <1>9, <1>10, <2>1, <2>2 DEF LocalsHold
  <2>3. CASE u # t
    <3>1. PICK z : z = Me(u)
      OBVIOUS
    <3>2. Me(u)' = z /\ LocalsHold(z) /\ ~Pinning(z, m) /\ ~Adding(z, m)
      BY <1>3, <1>10, <1>12, <2>3, <3>1
    <3>3. /\ z.pc = "pop" => z.head # m
          /\ z.pc \in {"aone", "apush"} => z.node # m
      BY <3>2 DEF Pinning, Adding, Early, Late
    <3>4. QED
      BY <2>1, <3>2, <3>3 DEF LocalsHold
  <2>4. QED
    BY <2>2, <2>3
<1>15. ListIs(k, s)'
  <2>1. \A i \in 1..k : s[i] # m
    BY <1>6, <1>12 DEF OnList
  <2>2. \A i \in 1..k : freeListNext'[s[i]] = freeListNext[s[i]]
    BY <1>3, <1>5, <1>8, <2>1 DEF FlKinds
  <2>3. QED
    BY <1>5, <1>8, <2>2 DEF ListIs
<1>16. ASSUME NEW n \in FlNodes PROVE PlaceOK(n, ls)'
  <2>1. SameFor(t, y, n)
    BY <1>1, <1>2, <1>9 DEF SameFor, Pinning, Popped, Early, Late
  <2>2. PlaceOK(n, ls)
    BY <1>5, <1>6
  <2>3. QED
    BY <1>8, <1>10, <2>1, <2>2, Elsewhere
<1>17. QED
  BY <1>5, <1>6, <1>13, <1>14, <1>15, <1>16, Concludes

(* The head is popped: the node that comes next is the one that the thread *)
(* read, because its reference kept the next pointer.                      *)
LEMMA Popping ==
  ASSUME FlIInv, NEW t \in FlThreads, PopHead(t)
  PROVE  FlIInv'
<1>1. PICK x \in Locals : x = Me(t) /\ LocalsHold(x) /\ x.pc = "pop"
  BY DEF FlIInv, FlKinds, Me, PopHead, On
<1>2. PICK m \in FlNodes : m = x.head /\ x.next = freeListNext[m]
  BY <1>1 DEF LocalsHold
<1>3. /\ FlKinds /\ freeListHead \in Nodes /\ UNCHANGED <<freeListRefs, freeListNext, holds>>
      /\ freeListNext \in [FlNodes -> Nodes]
  BY DEF FlIInv, FlKinds, PopHead
<1>4. CASE freeListHead # m
  <2>1. PICK y : y = [x EXCEPT !.next = NoNode, !.pc = "drop", !.node = m, !.head = freeListHead]
    OBVIOUS
  <2>2. y \in Locals /\ y.pc = "drop" /\ y.node = m
    BY <1>3, <2>1 DEF Locals, Nodes
  <2>3. Now(t, y) /\ freeListHead' = freeListHead
    <3>0. PICK z : z = [x EXCEPT !.next = NoNode]
      OBVIOUS
    <3>1. z \in Locals /\ z = [x EXCEPT !.next = NoNode] /\ z.head = m
      BY <1>2, <3>0 DEF Locals, Nodes
    <3>2. Now(t, [z EXCEPT !.pc = "drop", !.node = z.head, !.head = freeListHead])
          /\ freeListHead' = freeListHead
      BY <1>1, <1>4, <3>1 DEF PopHead
    <3>3. [z EXCEPT !.pc = "drop", !.node = z.head, !.head = freeListHead] = y
      BY <1>2, <2>1, <3>1 DEF Locals
    <3>4. QED
      BY <3>2, <3>3
  <2>4. LocalsHold(y) /\ \A n \in FlNodes : SameFor(t, y, n)
    BY <1>1, <1>2, <2>2 DEF LocalsHold, SameFor, Pinning, Popped, Early, Late
  <2>5. QED
    BY <1>3, <2>2, <2>3, <2>4, ReadStep
<1>5. CASE freeListHead = m
  <2>1. PICK k \in Nat : \E s \in [1..k -> FlNodes] :
          ListIs(k, s) /\ \A n \in FlNodes : PlaceOK(n, OnList(k, s))
    BY DEF FlIInv
  <2>2. PICK s \in [1..k -> FlNodes] :
          ListIs(k, s) /\ \A n \in FlNodes : PlaceOK(n, OnList(k, s))
    BY <2>1
  <2>3. PICK y : y = [x EXCEPT !.next = NoNode, !.pc = "got"]
    OBVIOUS
  <2>4. y \in Locals /\ y.pc = "got" /\ y.head = m
    BY <1>2, <2>3 DEF Locals, Nodes
  <2>5. Now(t, y) /\ freeListHead' = freeListNext[m]
    <3>0. PICK z : z = [x EXCEPT !.next = NoNode]
      OBVIOUS
    <3>1. z \in Locals /\ z = [x EXCEPT !.next = NoNode] /\ z.head = m
      BY <1>2, <3>0 DEF Locals, Nodes
    <3>2. Now(t, [z EXCEPT !.pc = "got"]) /\ freeListHead' = x.next
      BY <1>1, <1>5, <3>1 DEF PopHead
    <3>3. [z EXCEPT !.pc = "got"] = y
      BY <2>3, <3>1 DEF Locals
    <3>4. QED
      BY <1>2, <3>2, <3>3
  <2>6. k > 0 /\ s[k] = m /\ freeListNext[m] = IF k = 1 THEN NoNode ELSE s[k - 1]
    BY <1>5, <2>2, FlAssumption DEF ListIs
  <2>7. PICK j \in Nat : j = k - 1
    BY <2>6
  <2>8. PICK q \in [1..j -> FlNodes] : q = [i \in 1..j |-> s[i]]
    <3>1. \A i \in 1..j : i \in 1..k
      BY <2>7
    <3>2. [i \in 1..j |-> s[i]] \in [1..j -> FlNodes]
      BY <2>2, <3>1
    <3>3. QED
      BY <3>2
  <2>9. ListIs(j, q)'
    <3>1. \A i \in 1..j : q[i] = s[i] /\ i \in 1..k /\ (i > 1 => i - 1 \in 1..j /\ i - 1 \in 1..k)
      BY <2>7, <2>8
    <3>2. freeListHead' = IF j = 0 THEN NoNode ELSE q[j]
      BY <2>5, <2>6, <2>7, <2>8
    <3>3. \A i \in 1..j : freeListNext[q[i]] = IF i = 1 THEN NoNode ELSE q[i - 1]
      BY <2>2, <3>1 DEF ListIs
    <3>4. QED
      BY <1>3, <2>2, <2>8, <3>1, <3>2, <3>3 DEF ListIs
  <2>10. PICK K : K = OnList(j, q)
    OBVIOUS
  <2>11. PICK ls : ls = OnList(k, s)
    OBVIOUS
  <2>12. m \in ls /\ m \notin K /\ \A n : n # m => (n \in K <=> n \in ls)
    <3>1. \A i \in 1..k : i \in 1..j \/ i = k
      BY <2>7
    <3>2. \A i \in 1..j : i \in 1..k /\ i # k /\ q[i] = s[i]
      BY <2>7, <2>8
    <3>3. \A i \in 1..j : s[i] # m
      BY <2>2, <2>6, <3>2 DEF ListIs
    <3>4. k \in 1..k
      BY <2>6
    <3>5. QED
      BY <2>6, <2>10, <2>11, <3>1, <3>2, <3>3, <3>4 DEF OnList
  <2>13. /\ fl' \in [FlThreads -> [calls : Nat, x : Locals]]
         /\ Me(t)' = y /\ \A u \in FlThreads : u # t => Me(u)' = Me(u)
    BY <1>3, <2>4, <2>5, MovesOn
  <2>14. FlKinds'
    BY <1>3, <2>5, <2>13 DEF FlKinds
  <2>15. \A u \in FlThreads : LocalsHold(Me(u))'
    BY <1>3, <2>4, <2>13 DEF FlIInv, LocalsHold
  <2>16. ASSUME NEW n \in FlNodes PROVE PlaceOK(n, K)'
    <3>1. PlaceOK(n, ls)
      BY <2>2, <2>11
    <3>2. CASE n # m
      <4>1. SameFor(t, y, n)
        BY <1>1, <1>2, <2>4, <3>2 DEF SameFor, Pinning, Popped, Early, Late
      <4>2. n \in K <=> n \in ls
        BY <2>12, <3>2
      <4>3. QED
        BY <1>3, <2>13, <3>1, <4>1, <4>2, Elsewhere
    <3>3. CASE n = m
      <4>1. /\ Pinning(Me(t), m) /\ ~Popped(Me(t), m) /\ ~Early(Me(t), m) /\ ~Late(Me(t), m)
            /\ Pinning(y, m) /\ Popped(y, m) /\ ~Early(y, m) /\ ~Late(y, m) /\ ~Adding(y, m)
        BY <1>1, <1>2, <2>4 DEF Pinning, Popped, Early, Late, Adding
      <4>2. Cardinality(Pins(m))' = Cardinality(Pins(m)) /\ Cardinality(Pins(m)) \in Nat
        BY <2>13, <4>1, RolesAfter DEF One
      <4>3. \A u \in FlThreads : ~Popped(Me(u), m) /\ ~Adding(Me(u), m) /\ m \notin holds[u]
        BY <2>12, <3>1, <3>3 DEF PlaceOK
      <4>4. \A u \in FlThreads : (Popped(Me(u), m)' <=> u = t) /\ ~Adding(Me(u), m)'
        BY <2>13, <4>1, <4>3, RolesAfter
      <4>5. \A u \in FlThreads : ~Early(Me(u), m)' /\ ~Early(Me(u), m)
        BY <4>3, <4>4 DEF Adding
      <4>6. Counted(m, ls) /\ Counted(m, K)' /\ ~Held(m) /\ ~Held(m)'
        BY <1>3, <2>12, <4>3, <4>4 DEF Counted, Held
      <4>7. QED
        BY <1>3, <2>12, <3>1, <3>3, <4>2, <4>3, <4>4, <4>5, <4>6 DEF PlaceOK
    <3>4. QED
      BY <3>2, <3>3
  <2>17. QED
    BY <2>8, <2>9, <2>10, <2>14, <2>15, <2>16, Concludes
<1>6. QED
  BY <1>4, <1>5

(* A node is pushed in front of what its next pointer says.                *)
LEMMA Pushing ==
  ASSUME FlIInv, NEW t \in FlThreads, PushHead(t)
  PROVE  FlIInv'
<1>1. PICK x \in Locals : x = Me(t) /\ LocalsHold(x) /\ x.pc = "apush"
  BY DEF FlIInv, FlKinds, Me, PushHead, On
<1>2. PICK m \in FlNodes : m = x.node /\ x.aHead = freeListNext[m]
  BY <1>1 DEF LocalsHold
<1>3. /\ FlKinds /\ freeListHead \in Nodes /\ UNCHANGED <<freeListRefs, freeListNext, holds>>
  BY DEF FlIInv, FlKinds, PushHead
<1>4. CASE freeListHead # x.aHead
  <2>1. PICK y : y = [x EXCEPT !.pc = "aback", !.aHead = freeListHead]
    OBVIOUS
  <2>2. y \in Locals /\ y.pc = "aback" /\ y.node = m
    BY <1>2, <1>3, <2>1 DEF Locals, Nodes
  <2>3. Now(t, y) /\ freeListHead' = freeListHead
    BY <1>1, <1>4, <2>1 DEF PushHead
  <2>4. LocalsHold(y) /\ \A n \in FlNodes : SameFor(t, y, n)
    BY <1>1, <1>2, <2>2 DEF LocalsHold, SameFor, Pinning, Popped, Early, Late
  <2>5. QED
    BY <1>3, <2>2, <2>3, <2>4, ReadStep
<1>5. CASE freeListHead = x.aHead
  <2>1. PICK k \in Nat : \E s \in [1..k -> FlNodes] :
          ListIs(k, s) /\ \A n \in FlNodes : PlaceOK(n, OnList(k, s))
    BY DEF FlIInv
  <2>2. PICK s \in [1..k -> FlNodes] :
          ListIs(k, s) /\ \A n \in FlNodes : PlaceOK(n, OnList(k, s))
    BY <2>1
  <2>3. PICK y : y = Done(x)
    OBVIOUS
  <2>4. /\ y \in Locals /\ LocalsHold(y)
        /\ \A n : ~Pinning(y, n) /\ ~Popped(y, n) /\ ~Early(y, n) /\ ~Late(y, n)
    BY <2>3, DoneLocals
  <2>5. Now(t, y) /\ freeListHead' = m
    BY <1>1, <1>2, <1>5, <2>3 DEF PushHead
  <2>6. PICK ls : ls = OnList(k, s)
    OBVIOUS
  <2>7. Late(Me(t), m) /\ Adding(Me(t), m) /\ ~Early(Me(t), m) /\ ~Pinning(Me(t), m)
    BY <1>1, <1>2 DEF Late, Adding, Early, Pinning
  <2>8. /\ PlaceOK(m, ls) /\ m \notin ls
        /\ \A u \in FlThreads : ~Popped(Me(u), m) /\ (u # t => ~Adding(Me(u), m))
        /\ \A u \in FlThreads : m \notin holds[u]
    BY <2>2, <2>6, <2>7 DEF PlaceOK
  <2>9. PICK j \in Nat : j = k + 1
    OBVIOUS
  <2>10. PICK q \in [1..j -> FlNodes] : q = [i \in 1..j |-> IF i = j THEN m ELSE s[i]]
    <3>1. \A i \in 1..j : i # j => i \in 1..k
      BY <2>9
    <3>2. [i \in 1..j |-> IF i = j THEN m ELSE s[i]] \in [1..j -> FlNodes]
      BY <2>2, <3>1
    <3>3. QED
      BY <3>2
  <2>11. /\ j \in 1..j /\ q[j] = m /\ j # 0 /\ (j = 1 <=> k = 0) /\ j - 1 = k
         /\ \A i \in 1..j : i # j => i \in 1..k /\ q[i] = s[i]
         /\ \A i \in 1..k : i \in 1..j /\ i # j /\ q[i] = s[i] /\ s[i] # m
         /\ \A i \in 1..k : i # 1 => i - 1 \in 1..k
         /\ k # 0 => k \in 1..k
    <3>1. \A i \in 1..k : s[i] # m
      BY <2>6, <2>8 DEF OnList
    <3>2. QED
      BY <2>9, <2>10, <3>1
  <2>12. ListIs(j, q)'
    <3>1. \A i, l \in 1..j : q[i] = q[l] => i = l
      BY <2>2, <2>11 DEF ListIs
    <3>2. ASSUME NEW i \in 1..j
          PROVE  freeListNext[q[i]] = IF i = 1 THEN NoNode ELSE q[i - 1]
      <4>1. CASE i = j
        <5>1. freeListNext[q[i]] = IF k = 0 THEN NoNode ELSE s[k]
          BY <1>2, <1>5, <2>2, <2>11, <4>1 DEF ListIs
        <5>2. QED
          BY <2>11, <4>1, <5>1
      <4>2. CASE i # j
        <5>1. i \in 1..k /\ q[i] = s[i]
          BY <2>11, <4>2
        <5>2. freeListNext[s[i]] = IF i = 1 THEN NoNode ELSE s[i - 1]
          BY <2>2, <5>1 DEF ListIs
        <5>3. QED
          BY <2>11, <5>1, <5>2
      <4>3. QED
        BY <4>1, <4>2
    <3>3. freeListHead' = IF j = 0 THEN NoNode ELSE q[j]
      BY <2>5, <2>11
    <3>4. QED
      BY <1>3, <2>10, <3>1, <3>2, <3>3 DEF ListIs
  <2>13. PICK K : K = OnList(j, q)
    OBVIOUS
  <2>14. m \in K /\ \A n : n # m => (n \in K <=> n \in ls)
    BY <2>6, <2>11, <2>13 DEF OnList
  <2>15. /\ fl' \in [FlThreads -> [calls : Nat, x : Locals]]
         /\ Me(t)' = y /\ \A u \in FlThreads : u # t => Me(u)' = Me(u)
    BY <1>3, <2>4, <2>5, MovesOn
  <2>16. FlKinds'
    BY <1>3, <2>5, <2>15 DEF FlKinds, Nodes
  <2>17. \A u \in FlThreads : LocalsHold(Me(u))'
    BY <1>3, <2>4, <2>15 DEF FlIInv, LocalsHold
  <2>18. ASSUME NEW n \in FlNodes PROVE PlaceOK(n, K)'
    <3>1. CASE n # m
      <4>1. SameFor(t, y, n)
        BY <1>1, <1>2, <2>4, <3>1 DEF SameFor, Pinning, Popped, Early, Late
      <4>2. (n \in K <=> n \in ls) /\ PlaceOK(n, ls)
        BY <2>2, <2>6, <2>14, <3>1
      <4>3. QED
        BY <1>3, <2>15, <4>1, <4>2, Elsewhere
    <3>2. CASE n = m
      <4>1. Cardinality(Pins(m))' = Cardinality(Pins(m)) /\ Cardinality(Pins(m)) \in Nat
        BY <2>4, <2>7, <2>15, RolesAfter DEF One
      <4>2. \A u \in FlThreads : ~Popped(Me(u), m)' /\ ~Adding(Me(u), m)' /\ ~Early(Me(u), m)
        BY <2>4, <2>7, <2>8, <2>15, RolesAfter DEF Adding
      <4>3. \A u \in FlThreads : ~Early(Me(u), m)'
        BY <4>2 DEF Adding
      <4>4. Counted(m, ls) /\ Counted(m, K)' /\ ~Held(m) /\ ~Held(m)'
        BY <1>3, <2>7, <2>8, <2>14 DEF Counted, Held
      <4>5. QED
        BY <1>3, <2>8, <3>2, <4>1, <4>2, <4>3, <4>4 DEF PlaceOK
    <3>3. QED
      BY <3>1, <3>2
  <2>19. QED
    BY <2>10, <2>12, <2>13, <2>16, <2>17, <2>18, Concludes
<1>6. QED
  BY <1>4, <1>5

-----------------------------------------------------------------------------
(* The theorem                                                             *)

LEMMA FlInitIInv == FlInit => FlIInv
<1> SUFFICES ASSUME FlInit PROVE FlIInv
  OBVIOUS
<1>1. PICK owner \in [FlNodes -> FlThreads] :
        holds = [t \in FlThreads |-> {n \in FlNodes : owner[n] = t}]
  BY DEF FlInit
<1>2. /\ freeListHead = NoNode /\ freeListNext = [n \in FlNodes |-> NoNode]
      /\ freeListRefs = [n \in FlNodes |-> Refs(0, FALSE)]
      /\ fl = [t \in FlThreads |-> [calls |-> 0, x |-> FlIdle]]
  BY DEF FlInit
<1>3. Refs(0, FALSE) \in [n : Nat, bit : BOOLEAN] /\ Refs(0, FALSE).n = 0 /\ ~Refs(0, FALSE).bit
  BY DEF Refs
<1>4. FlKinds
  <2>1. [calls |-> 0, x |-> FlIdle] \in [calls : Nat, x : Locals]
    BY IdleLocals
  <2>2. QED
    BY <1>1, <1>2, <1>3, <2>1 DEF FlKinds, Nodes
<1>5. \A t \in FlThreads : Me(t) = FlIdle /\ LocalsHold(Me(t))
  BY <1>2, IdleLocals DEF Me
<1>6. PICK s \in [1..0 -> FlNodes] : TRUE
  <2>1. [i \in 1..0 |-> NoNode] \in [1..0 -> FlNodes]
    OBVIOUS
  <2>2. QED
    BY <2>1
<1>7. ListIs(0, s)
  BY <1>2 DEF ListIs
<1>8. PICK ls : ls = OnList(0, s)
  OBVIOUS
<1>9. ASSUME NEW n \in FlNodes PROVE PlaceOK(n, ls)
  <2>1. n \notin ls
    BY <1>8 DEF OnList
  <2>2. \A t \in FlThreads : /\ ~Pinning(Me(t), n) /\ ~Popped(Me(t), n) /\ ~Early(Me(t), n)
                             /\ ~Late(Me(t), n) /\ ~Adding(Me(t), n)
    BY <1>5, IdleLocals DEF Adding
  <2>3. Cardinality(Pins(n)) = 0
    BY <2>2, PinBounds
  <2>4. ~Counted(n, ls) /\ Held(n)
    BY <1>1, <2>1, <2>2 DEF Counted, Held
  <2>5. freeListRefs[n].n = 0 /\ ~freeListRefs[n].bit
    BY <1>2, <1>3
  <2>6. \A t \in FlThreads : n \in holds[t] <=> t = owner[n]
    BY <1>1
  <2>7. QED
    BY <2>1, <2>2, <2>3, <2>4, <2>5, <2>6 DEF PlaceOK
<1>10. QED
  BY <1>4, <1>5, <1>7, <1>8, <1>9 DEF FlIInv

LEMMA FlNextIInv == FlIInv /\ [FlNext]_flVars => FlIInv'
<1> SUFFICES ASSUME FlIInv, [FlNext]_flVars PROVE FlIInv'
  OBVIOUS
<1>1. ASSUME NEW t \in FlThreads,
             \/ Add(t) \/ TryGet(t) \/ LoadRefs(t) \/ ReloadHead(t) \/ TakeRef(t) \/ LoadNext(t)
             \/ PopHead(t) \/ Got(t) \/ DropRef(t) \/ AddLoadHead(t) \/ StoreNext(t)
             \/ StoreOne(t) \/ PushHead(t) \/ PutBack(t)
      PROVE  FlIInv'
  BY <1>1, Reading, Taking, GivingBack, Getting, Dropping, Announcing, TakingBack, Linking,
     Popping, Pushing
<1>2. CASE UNCHANGED flVars
  <2>1. /\ UNCHANGED <<freeListHead, freeListRefs, freeListNext, holds, fl>>
        /\ FlKinds /\ \A u \in FlThreads : LocalsHold(Me(u))
    BY <1>2 DEF flVars, FlIInv
  <2>2. PICK k \in Nat : \E s \in [1..k -> FlNodes] :
          ListIs(k, s) /\ \A n \in FlNodes : PlaceOK(n, OnList(k, s))
    BY DEF FlIInv
  <2>3. PICK s \in [1..k -> FlNodes] :
          ListIs(k, s) /\ \A n \in FlNodes : PlaceOK(n, OnList(k, s))
    BY <2>2
  <2>4. PICK ls : ls = OnList(k, s)
    OBVIOUS
  <2>5. FlKinds' /\ ListIs(k, s)'
    BY <2>1, <2>3 DEF FlKinds, ListIs
  <2>6. \A u \in FlThreads : Me(u)' = Me(u)
    BY <2>1 DEF Me
  <2>7. \A u \in FlThreads : LocalsHold(Me(u))'
    BY <2>1, <2>6 DEF LocalsHold
  <2>8. ASSUME NEW n \in FlNodes PROVE PlaceOK(n, ls)'
    <3>1. PlaceOK(n, ls)
      BY <2>3, <2>4
    <3>2. CASE FlThreads = {}
      <4>1. Cardinality(Pins(n))' = Cardinality(Pins(n))
        BY <3>2 DEF Pins
      <4>2. QED
        BY <2>1, <3>1, <3>2, <4>1 DEF PlaceOK, Counted, Held
    <3>3. CASE FlThreads # {}
      <4>1. PICK t \in FlThreads : TRUE
        BY <3>3
      <4>2. PICK y : y = Me(t)
        OBVIOUS
      <4>3. SameFor(t, y, n) /\ Me(t)' = y
        BY <2>6, <4>2 DEF SameFor
      <4>4. QED
        BY <2>1, <2>6, <3>1, <4>3, Elsewhere
    <3>4. QED
      BY <3>2, <3>3
  <2>9. QED
    BY <2>3, <2>4, <2>5, <2>7, <2>8, Concludes
<1>3. QED
  BY <1>1, <1>2 DEF FlNext

(* A set of natural numbers has a least one.                               *)
LEMMA Least ==
  ASSUME NEW Ts, Ts \subseteq Nat, Ts # {}
  PROVE  \E i \in Ts : \A j \in Ts : i <= j
<1> DEFINE R == {p \in Nat \X Nat : p[1] < p[2]}
<1>1. IsWellFoundedOn(R, Nat)
  BY NatLessThanWellFounded, Zenon DEF OpToRel
<1>2. \A i, j \in Nat : j < i => <<j, i>> \in R
  OBVIOUS
<1> HIDE DEF R
<1>3. PICK i \in Ts : \A j \in Ts : ~ (<<j, i>> \in R)
  BY <1>1, WFMin
<1>4. \A j \in Ts : i \in Nat /\ j \in Nat /\ ~(j < i)
  BY <1>2, <1>3
<1>5. QED
  BY <1>4

(* From the head on one meets the nodes of the list, and its end.          *)
LEMMA ListedIsOnList ==
  ASSUME FlKinds, NEW k \in Nat, NEW s \in [1..k -> FlNodes], ListIs(k, s),
         NEW ls, ls = OnList(k, s)
  PROVE  Listed = ls /\ ListEnds
<1>1. /\ \A i \in 1..k : s[i] \in ls /\ s[i] \in FlNodes
      /\ \A n \in ls : \E i \in 1..k : n = s[i]
      /\ ls \subseteq FlNodes
  BY DEF OnList
<1>2. /\ freeListHead = IF k = 0 THEN NoNode ELSE s[k]
      /\ \A i \in 1..k : freeListNext[s[i]] = IF i = 1 THEN NoNode ELSE s[i - 1]
      /\ \A i \in 1..k : i # 1 => i - 1 \in 1..k
      /\ k # 0 => k \in 1..k
  BY DEF ListIs
<1>3. ClosedUnderNext(ls)
  BY <1>1, <1>2 DEF ClosedUnderNext
<1>4. ASSUME NEW S \in SUBSET FlNodes, ClosedUnderNext(S), NEW l \in 1..k, s[l] \notin S
      PROVE  FALSE
  <2>1. PICK Ts : Ts = {j \in Nat : j < k /\ s[k - j] \notin S}
    OBVIOUS
  <2>2. k - l \in Ts
    <3>1. k - l \in Nat /\ k - l < k /\ k - (k - l) = l
      OBVIOUS
    <3>2. QED
      BY <1>4, <2>1, <3>1
  <2>3. PICK j \in Ts : \A i \in Ts : j <= i
    BY <2>1, <2>2, Least
  <2>4. PICK i : i = k - j
    OBVIOUS
  <2>5. j \in Nat /\ j < k /\ i \in 1..k /\ s[i] \notin S
    BY <2>1, <2>3, <2>4
  <2>6. CASE j = 0
    <3>1. i = k /\ k # 0 /\ s[k] = freeListHead /\ s[k] # NoNode
      BY <1>1, <1>2, <2>4, <2>5, <2>6, FlAssumption
    <3>2. QED
      BY <1>4, <2>5, <3>1 DEF ClosedUnderNext
  <2>7. CASE j # 0
    <3>1. j - 1 \notin Ts /\ j - 1 \in Nat /\ j - 1 < k
      BY <2>3, <2>5, <2>7
    <3>2. k - (j - 1) = i + 1 /\ i + 1 \in 1..k /\ i + 1 # 1 /\ (i + 1) - 1 = i
      BY <2>4, <2>5, <2>7
    <3>3. s[i + 1] \in S
      BY <2>1, <3>1, <3>2
    <3>4. freeListNext[s[i + 1]] = s[i]
      BY <1>2, <3>2
    <3>5. QED
      BY <1>1, <1>4, <2>5, <3>3, <3>4, FlAssumption DEF ClosedUnderNext
  <2>8. QED
    BY <2>6, <2>7
<1>5. Listed = ls
  <2>1. \A n \in ls : n \in Listed
    BY <1>1, <1>4 DEF Listed
  <2>2. \A n \in Listed : n \in ls
    BY <1>1, <1>3 DEF Listed
  <2>3. QED
    BY <2>1, <2>2
<1>6. ASSUME NEW S \in SUBSET Listed, S # {} PROVE \E n \in S : freeListNext[n] \notin S
  <2>1. PICK Ts : Ts = {i \in 1..k : s[i] \in S}
    OBVIOUS
  <2>2. Ts \subseteq Nat /\ Ts # {}
    BY <1>1, <1>5, <1>6, <2>1
  <2>3. PICK i \in Ts : \A j \in Ts : i <= j
    BY <2>2, Least
  <2>4. i \in 1..k /\ s[i] \in S /\ S \subseteq FlNodes
    BY <1>1, <1>5, <2>1, <2>3
  <2>5. CASE i = 1
    BY <1>2, <2>4, <2>5, FlAssumption
  <2>6. CASE i # 1
    <3>1. i - 1 \notin Ts /\ i - 1 \in 1..k
      BY <2>3, <2>4, <2>6
    <3>2. QED
      BY <1>2, <2>1, <2>4, <2>6, <3>1
  <2>7. QED
    BY <2>5, <2>6
<1>7. QED
  BY <1>5, <1>6 DEF ListEnds

LEMMA FlIInvImplies == FlIInv => FlInv
<1> SUFFICES ASSUME FlIInv PROVE FlInv
  OBVIOUS
<1>1. FlKinds
  BY DEF FlIInv
<1>2. PICK k \in Nat : \E s \in [1..k -> FlNodes] :
        ListIs(k, s) /\ \A n \in FlNodes : PlaceOK(n, OnList(k, s))
  BY DEF FlIInv
<1>3. PICK s \in [1..k -> FlNodes] :
        ListIs(k, s) /\ \A n \in FlNodes : PlaceOK(n, OnList(k, s))
  BY <1>2
<1>4. PICK ls : ls = OnList(k, s)
  OBVIOUS
<1>5. Listed = ls /\ ListEnds /\ \A n \in FlNodes : PlaceOK(n, ls)
  BY <1>1, <1>3, <1>4, ListedIsOnList
<1>6. FlTypeOK
  <2>1. ASSUME NEW n \in FlNodes PROVE freeListRefs[n].n \in 0..(Cardinality(FlThreads) + 1)
    <3>1. /\ Cardinality(Pins(n)) \in Nat /\ Cardinality(FlThreads) \in Nat
          /\ Cardinality(Pins(n)) <= Cardinality(FlThreads)
      BY PinBounds
    <3>2. freeListRefs[n].n = Cardinality(Pins(n)) + IF Counted(n, ls) THEN 1 ELSE 0
      BY <1>5 DEF PlaceOK
    <3>3. QED
      BY <3>1, <3>2
  <2>2. PICK C : C = 0..(Cardinality(FlThreads) + 1)
    OBVIOUS
  <2>3. freeListRefs \in [FlNodes -> [n : C, bit : BOOLEAN]]
    BY <1>1, <2>1, <2>2 DEF FlKinds
  <2>4. QED
    BY <1>1, <2>2, <2>3 DEF FlTypeOK, FlKinds, Nodes
<1>7. HeldOnce
  <2>1. ASSUME NEW t \in FlThreads, NEW n \in holds[t]
        PROVE  n \notin Listed /\ \A u \in FlThreads : u # t => n \notin holds[u]
    <3>1. n \in FlNodes
      BY <1>1 DEF FlKinds
    <3>2. QED
      BY <1>5, <3>1 DEF PlaceOK
  <2>2. QED
    BY <1>5, <2>1 DEF HeldOnce
<1>8. PoppedHasNoBit
  <2>1. ASSUME NEW t \in FlThreads, On(t, "got") PROVE ~freeListRefs[Me(t).head].bit
    <3>1. PICK n \in FlNodes : n = Me(t).head /\ Popped(Me(t), n)
      BY <2>1 DEF FlIInv, LocalsHold, On, Popped
    <3>2. Counted(n, ls)
      BY <3>1 DEF Counted
    <3>3. QED
      BY <1>5, <3>1, <3>2 DEF PlaceOK
  <2>2. QED
    BY <2>1 DEF PoppedHasNoBit
<1>9. NodesAccounted
  <2> SUFFICES ASSUME FlQuiet
               PROVE  /\ FlNodes = Listed \cup UNION {holds[t] : t \in FlThreads}
                      /\ \A n \in FlNodes :
                           freeListRefs[n] = Refs(IF n \in Listed THEN 1 ELSE 0, FALSE)
    BY DEF NodesAccounted
  <2>1. ASSUME NEW n \in FlNodes
        PROVE  /\ n \in ls \/ \E t \in FlThreads : n \in holds[t]
               /\ freeListRefs[n] = Refs(IF n \in ls THEN 1 ELSE 0, FALSE)
    <3>1. \A t \in FlThreads : /\ ~Pinning(Me(t), n) /\ ~Popped(Me(t), n)
                               /\ ~Early(Me(t), n) /\ ~Late(Me(t), n)
      BY DEF FlQuiet, On, Pinning, Popped, Early, Late
    <3>2. Cardinality(Pins(n)) = 0 /\ (Counted(n, ls) <=> n \in ls)
      BY <3>1, PinBounds DEF Counted
    <3>3. freeListRefs[n].n = (IF n \in ls THEN 1 ELSE 0)
      BY <1>5, <3>2 DEF PlaceOK
    <3>4. freeListRefs[n].bit <=> ~(n \in ls \/ Held(n))
      BY <1>5, <3>2 DEF PlaceOK
    <3>5. ~freeListRefs[n].bit
      <4>1. ~(freeListRefs[n].n = 0 /\ freeListRefs[n].bit)
        BY <1>5, <3>1 DEF PlaceOK
      <4>2. QED
        BY <3>3, <3>4, <4>1
    <3>6. freeListRefs[n] \in [n : Nat, bit : BOOLEAN]
      BY <1>1 DEF FlKinds
    <3>7. QED
      BY <3>3, <3>4, <3>5, <3>6 DEF Held, Refs
  <2>2. \A t \in FlThreads : holds[t] \subseteq FlNodes
    BY <1>1 DEF FlKinds
  <2>3. Listed \subseteq FlNodes
    BY DEF Listed
  <2>4. QED
    BY <1>5, <2>1, <2>2, <2>3
<1>10. QED
  BY <1>6, <1>7, <1>8, <1>9 DEF FlInv

(* FreeList: whatever calls of try_get and add overlap, a node is on the   *)
(* list or with one thread at most, the list ends, a popped node does not  *)
(* have the bit, and when no call is under way no node is lost.            *)
THEOREM FlInvHolds == FlSpec => []FlInv
  BY FlInitIInv, FlNextIInv, FlIInvImplies, PTL DEF FlSpec

-----------------------------------------------------------------------------
(* Sums over a finite set                                                  *)

\* The sum of a function f is the number of its cells, f[c] of them above each c:
\* so the library's facts about cardinalities are facts about sums.
Cells(f) == {p \in (DOMAIN f) \X Nat : p[2] < f[p[1]]}
Total(f) == Cardinality(Cells(f))

\* the cells above c
Column(c, n) == {c} \X (0..(n - 1))

\* As many cells are above c as f[c] says.
LEMMA ColumnSize ==
  ASSUME NEW c, NEW n \in Nat
  PROVE  IsFiniteSet(Column(c, n)) /\ Cardinality(Column(c, n)) = n
<1>1. IsFiniteSet(0..(n - 1)) /\ Cardinality(0..(n - 1)) = n
  BY FS_Interval
<1>2. IsFiniteSet({c}) /\ Cardinality({c}) = 1
  BY FS_Singleton
<1> QED
  BY <1>1, <1>2, FS_Product DEF Column

\* The sum of finitely many naturals is a natural.
LEMMA CellsFinite ==
  ASSUME NEW S, IsFiniteSet(S), NEW f \in [S -> Nat]
  PROVE  IsFiniteSet(Cells(f)) /\ Total(f) \in Nat
<1> DEFINE cols == {Column(c, f[c]) : c \in S}
<1>1. IsFiniteSet(cols)
  <2> DEFINE g == [c \in S |-> Column(c, f[c])]
  <2>1. g \in Surjection(S, cols)
    BY DEF Surjection
  <2> QED
    BY <2>1, FS_Surjection
<1>2. \A Ts \in cols : IsFiniteSet(Ts)
  <2> SUFFICES ASSUME NEW c \in S PROVE IsFiniteSet(Column(c, f[c]))
    OBVIOUS
  <2> QED
    BY ColumnSize
<1>3. IsFiniteSet(UNION cols)
  BY <1>1, <1>2, FS_UNION
<1>4. Cells(f) \subseteq UNION cols
  <2> SUFFICES ASSUME NEW p \in Cells(f) PROVE \E Ts \in cols : p \in Ts
    OBVIOUS
  <2>1. p \in S \X Nat /\ p[2] < f[p[1]]
    BY DEF Cells
  <2>2. p \in Column(p[1], f[p[1]])
    BY <2>1 DEF Column
  <2> QED
    BY <2>1, <2>2
<1>5. IsFiniteSet(Cells(f))
  BY <1>3, <1>4, FS_Subset
<1> QED
  BY <1>5, FS_CardinalityType DEF Total

\* g differs from f at c at most.
OneChanged(S, f, g, c) ==
  /\ f \in [S -> Nat] /\ g \in [S -> Nat]
  /\ \A d \in S : d # c => g[d] = f[d]

\* A sum moves by what its one changed term moves by.
LEMMA TotalUpdate ==
  ASSUME NEW S, IsFiniteSet(S), NEW c \in S, NEW f, NEW g, OneChanged(S, f, g, c)
  PROVE  /\ Total(f) \in Nat /\ Total(g) \in Nat
         /\ Total(g) = Total(f) - f[c] + g[c]
<1> DEFINE rest == {p \in S \X Nat : p[1] # c /\ p[2] < f[p[1]]}
<1>0. f \in [S -> Nat] /\ g \in [S -> Nat] /\ f[c] \in Nat /\ g[c] \in Nat
  BY DEF OneChanged
<1>1. IsFiniteSet(Cells(f)) /\ Total(f) \in Nat /\ Total(g) \in Nat
  BY <1>0, CellsFinite
<1>2. rest \subseteq Cells(f)
  BY <1>0 DEF Cells
<1>3. IsFiniteSet(rest) /\ Cardinality(rest) \in Nat
  BY <1>1, <1>2, FS_Subset, FS_CardinalityType
<1>4. ASSUME NEW h \in [S -> Nat], \A d \in S : d # c => h[d] = f[d]
      PROVE  Total(h) = Cardinality(rest) + h[c]
  <2>1. Cells(h) = rest \cup Column(c, h[c])
    <3>0. h[c] \in Nat
      BY <1>4
    <3>1. ASSUME NEW p \in Cells(h) PROVE p \in rest \cup Column(c, h[c])
      <4>0. p \in S \X Nat /\ p[2] < h[p[1]]
        BY <3>1 DEF Cells
      <4>00. p = <<p[1], p[2]>> /\ p[1] \in S /\ p[2] \in Nat
        BY <4>0
      <4>1. PICK a \in S, k \in Nat : p = <<a, k>> /\ k < h[a]
        BY <4>0, <4>00
      <4>2. CASE a # c
        <5>1. p \in S \X Nat /\ p[1] = a /\ p[2] = k /\ h[a] = f[a]
          BY <4>1, <4>2, <1>4
        <5> QED
          BY <5>1, <4>1, <4>2
      <4>3. CASE a = c
        <5>1. k \in 0..(h[c] - 1)
          BY <4>1, <4>3, <3>0
        <5> QED
          BY <5>1, <4>1, <4>3 DEF Column
      <4> QED
        BY <4>2, <4>3
    <3>2. ASSUME NEW p \in rest PROVE p \in Cells(h)
      BY <3>2, <1>4 DEF Cells
    <3>3. ASSUME NEW p \in Column(c, h[c]) PROVE p \in Cells(h)
      <4>1. PICK k \in 0..(h[c] - 1) : p = <<c, k>>
        BY <3>3 DEF Column
      <4>2. k \in Nat /\ k < h[c]
        BY <3>0
      <4> QED
        BY <4>1, <4>2, <1>4 DEF Cells
    <3> QED
      BY <3>1, <3>2, <3>3
  <2>2. rest \cap Column(c, h[c]) = {}
    BY DEF Column
  <2>3. h[c] \in Nat
    BY <1>4
  <2>4. IsFiniteSet(Column(c, h[c])) /\ Cardinality(Column(c, h[c])) = h[c]
    BY <2>3, ColumnSize
  <2>5. Cardinality(Cells(h)) =
          Cardinality(rest) + Cardinality(Column(c, h[c])) - Cardinality(rest \cap Column(c, h[c]))
    BY <2>1, <2>4, <1>3, FS_Union
  <2>6. Cardinality(rest \cap Column(c, h[c])) = 0
    BY <2>2, FS_EmptySet
  <2> QED
    BY <2>3, <2>4, <2>5, <2>6, <1>3 DEF Total
<1>5. Total(f) = Cardinality(rest) + f[c]
  BY <1>0, <1>4
<1>6. Total(g) = Cardinality(rest) + g[c]
  BY <1>0, <1>4 DEF OneChanged
<1> QED
  BY <1>0, <1>1, <1>3, <1>5, <1>6

\* A sum of zeros is zero.
LEMMA TotalZero ==
  ASSUME NEW S, NEW f \in [S -> Nat], \A c \in S : f[c] = 0
  PROVE  Total(f) = 0
<1>1. Cells(f) = {}
  BY DEF Cells
<1> QED
  BY <1>1, FS_EmptySet DEF Total


-----------------------------------------------------------------------------
(* The counters of dequeue and dequeue_bulk                                *)

\* What a call with locals x has added to dequeueOptimisticCount is undecided until
\* the tail is read again; then a part is granted, for it to take from headIndex,
\* and the rest refused, for it to give back to dequeueOvercommit.
Undecided(x) == IF x.pc = "recheck" THEN x.want ELSE 0

\* An undecided claim counts as earlier than k if the count was below k.
EarlierUndecided(x, k) == IF x.pc = "recheck" /\ x.my < k THEN x.want ELSE 0
Granted(x) == IF x.pc \in {"giveback", "head"} THEN x.n ELSE 0
Refused(x) == IF x.pc = "giveback" THEN x.want - x.n ELSE 0

\* the same for every consumer
AllUndecided == [c \in CqConsumers |-> Undecided(X(c))]
AllEarlier(k) == [c \in CqConsumers |-> EarlierUndecided(X(c), k)]
AllGranted == [c \in CqConsumers |-> Granted(X(c))]
AllRefused == [c \in CqConsumers |-> Refused(X(c))]

\* the locals of a call
CqFields == {"pc", "max", "tail", "over", "my", "want", "first", "n", "hdr", "front", "slot", "block"}
CqShape ==
  /\ DOMAIN deq = CqConsumers
  /\ \A c \in CqConsumers : DOMAIN deq[c] = {"calls", "x"} /\ DOMAIN deq[c].x = CqFields

\* the locals that matter to the counters, where they do
CallKinds(x) ==
  /\ x.pc \in {"overcommit", "desire"} => x.max \in Nat \ {0} /\ x.tail \in Nat
  /\ x.pc \in {"desire", "claim", "recheck"} => x.over \in Nat
  /\ x.pc \in {"claim", "recheck", "giveback"} => x.want \in Nat \ {0}
  /\ x.pc = "recheck" => x.my \in Nat
  /\ x.pc = "giveback" => x.n \in 0..x.want
  /\ x.pc = "head" => x.n \in Nat \ {0}

CqNumbers ==
  /\ headIndex \in Nat /\ tailIndex \in Nat
  /\ dequeueOptimisticCount \in Nat /\ dequeueOvercommit \in Nat

CqKinds == CqNumbers /\ CqShape /\ \A c \in CqConsumers : CallKinds(X(c))

\* What a call loaded from dequeueOvercommit is not above it; what it has added is
\* in dequeueOptimisticCount; and no two calls got the same count.
LoadedOvercommit(x) == x.pc \in {"desire", "claim"} => x.over <= dequeueOvercommit
ClaimedBefore(x) == x.pc = "recheck" => x.my + x.want <= dequeueOptimisticCount
ClaimsApart ==
  \A c, d \in CqConsumers :
    c # d /\ AtPc(c, "recheck") /\ AtPc(d, "recheck") => X(c).my # X(d).my

\* Every unit of dequeueOptimisticCount has been taken from the head, was given
\* back, or belongs to a call under way.
CountsAdd ==
  dequeueOptimisticCount = headIndex + Total(AllGranted) + dequeueOvercommit
                             + Total(AllRefused) + Total(AllUndecided)

\* The head cannot pass the tail, whatever the calls under way are granted: those
\* that got a count below b all fit; one that got a higher count will be granted
\* no more than the tail leaves it, and what is granted before it fits below that.
Within(b) ==
  /\ headIndex + Total(AllGranted) + Total(AllEarlier(b)) <= tailIndex
  /\ \A c \in CqConsumers : AtPc(c, "recheck") /\ X(c).my >= b =>
       headIndex + Total(AllGranted) + Total(AllEarlier(X(c).my)) <= X(c).my - X(c).over

\* The inductive invariant of the counters.  The boundary b is that of the latest
\* claim that was compared with the tail: claims may be decided in any order.
CountInv ==
  /\ CqKinds
  /\ \A c \in CqConsumers : LoadedOvercommit(X(c)) /\ ClaimedBefore(X(c))
  /\ ClaimsApart
  /\ CountsAdd
  /\ \E b \in Nat : b <= dequeueOptimisticCount /\ Within(b)

\* the terms of the sums
WeightsTyped ==
  /\ AllUndecided \in [CqConsumers -> Nat] /\ AllGranted \in [CqConsumers -> Nat]
  /\ AllRefused \in [CqConsumers -> Nat]
  /\ \A k \in Nat : AllEarlier(k) \in [CqConsumers -> Nat]

\* The terms are naturals.
LEMMA WeightKinds == CqKinds => WeightsTyped
<1> SUFFICES ASSUME CqKinds PROVE WeightsTyped
  OBVIOUS
<1>1. ASSUME NEW c \in CqConsumers
      PROVE  /\ Undecided(X(c)) \in Nat /\ Granted(X(c)) \in Nat /\ Refused(X(c)) \in Nat
             /\ \A k \in Nat : EarlierUndecided(X(c), k) \in Nat
  <2> DEFINE x == X(c)
  <2>1. CallKinds(x)
    BY DEF CqKinds
  <2> HIDE DEF x
  <2> QED
    BY <2>1 DEF CallKinds, Undecided, Granted, Refused, EarlierUndecided, x
<1> QED
  BY <1>1 DEF WeightsTyped, AllUndecided, AllGranted, AllRefused, AllEarlier

\* A step of one consumer changes each sum by its own term.
LEMMA SumsMove ==
  ASSUME CqKinds, CqKinds', NEW c \in CqConsumers,
         \A d \in CqConsumers : d # c => X(d)' = X(d)
  PROVE  /\ Total(AllGranted) \in Nat /\ Total(AllRefused) \in Nat /\ Total(AllUndecided) \in Nat
         /\ Total(AllGranted') = Total(AllGranted) - Granted(X(c)) + Granted(X(c)')
         /\ Total(AllRefused') = Total(AllRefused) - Refused(X(c)) + Refused(X(c)')
         /\ Total(AllUndecided') = Total(AllUndecided) - Undecided(X(c)) + Undecided(X(c)')
         /\ \A k \in Nat :
              /\ Total(AllEarlier(k)) \in Nat
              /\ Total(AllEarlier(k)') = Total(AllEarlier(k)) - EarlierUndecided(X(c), k)
                                            + EarlierUndecided(X(c)', k)
<1>0. IsFiniteSet(CqConsumers)
  BY CqAssumption
<1>1. WeightsTyped
  BY WeightKinds
<1>2. WeightsTyped'
  BY WeightKinds, PTL
<1>3. /\ AllGranted[c] = Granted(X(c)) /\ AllGranted'[c] = Granted(X(c)')
      /\ AllRefused[c] = Refused(X(c)) /\ AllRefused'[c] = Refused(X(c)')
      /\ AllUndecided[c] = Undecided(X(c)) /\ AllUndecided'[c] = Undecided(X(c)')
  BY DEF AllGranted, AllRefused, AllUndecided
<1>4. OneChanged(CqConsumers, AllGranted, AllGranted', c)
  BY <1>1, <1>2 DEF OneChanged, WeightsTyped, AllGranted
<1>5. OneChanged(CqConsumers, AllRefused, AllRefused', c)
  BY <1>1, <1>2 DEF OneChanged, WeightsTyped, AllRefused
<1>6. OneChanged(CqConsumers, AllUndecided, AllUndecided', c)
  BY <1>1, <1>2 DEF OneChanged, WeightsTyped, AllUndecided
<1>7. /\ Total(AllGranted) \in Nat
      /\ Total(AllGranted') = Total(AllGranted) - Granted(X(c)) + Granted(X(c)')
  BY <1>0, <1>3, <1>4, TotalUpdate
<1>8. /\ Total(AllRefused) \in Nat
      /\ Total(AllRefused') = Total(AllRefused) - Refused(X(c)) + Refused(X(c)')
  BY <1>0, <1>3, <1>5, TotalUpdate
<1>9. /\ Total(AllUndecided) \in Nat
      /\ Total(AllUndecided') = Total(AllUndecided) - Undecided(X(c)) + Undecided(X(c)')
  BY <1>0, <1>3, <1>6, TotalUpdate
<1>10. ASSUME NEW k \in Nat
       PROVE  /\ Total(AllEarlier(k)) \in Nat
              /\ Total(AllEarlier(k)') = Total(AllEarlier(k)) - EarlierUndecided(X(c), k)
                                            + EarlierUndecided(X(c)', k)
  <2>1. AllEarlier(k)[c] = EarlierUndecided(X(c), k) /\ AllEarlier(k)'[c] = EarlierUndecided(X(c)', k)
    BY DEF AllEarlier
  <2>2. OneChanged(CqConsumers, AllEarlier(k), AllEarlier(k)', c)
    BY <1>1, <1>2 DEF OneChanged, WeightsTyped, AllEarlier
  <2> QED
    BY <1>0, <2>1, <2>2, TotalUpdate
<1> QED
  BY <1>7, <1>8, <1>9, <1>10

\* where a call holds a claim
Counting == {"recheck", "giveback", "head"}

\* A step outside of the claims leaves the sums alone.
LEMMA QuietStep ==
  ASSUME CountInv, CqKinds', NEW c \in CqConsumers,
         \A d \in CqConsumers : d # c => X(d)' = X(d),
         UNCHANGED <<headIndex, tailIndex, dequeueOptimisticCount, dequeueOvercommit>>,
         X(c).pc \notin Counting, X(c)'.pc \notin Counting,
         LoadedOvercommit(X(c))'
  PROVE  CountInv'
<1>1. CqKinds
  BY DEF CountInv
<1>2. /\ Granted(X(c)) = 0 /\ Refused(X(c)) = 0 /\ Undecided(X(c)) = 0
      /\ Granted(X(c)') = 0 /\ Refused(X(c)') = 0 /\ Undecided(X(c)') = 0
      /\ \A k \in Nat : EarlierUndecided(X(c), k) = 0 /\ EarlierUndecided(X(c)', k) = 0
  BY DEF Counting, Granted, Refused, Undecided, EarlierUndecided
<1>3. /\ Total(AllGranted') = Total(AllGranted)
      /\ Total(AllRefused') = Total(AllRefused)
      /\ Total(AllUndecided') = Total(AllUndecided)
      /\ \A k \in Nat : Total(AllEarlier(k)') = Total(AllEarlier(k))
  BY <1>1, <1>2, SumsMove
<1>4. CountsAdd'
  BY <1>3 DEF CountInv, CountsAdd
<1>5. ASSUME NEW d \in CqConsumers PROVE (LoadedOvercommit(X(d)) /\ ClaimedBefore(X(d)))'
  BY DEF CountInv, LoadedOvercommit, ClaimedBefore, Counting
<1>6. ClaimsApart'
  BY DEF CountInv, ClaimsApart, AtPc, Counting
<1>7. \A d \in CqConsumers : (AtPc(d, "recheck"))' => d # c /\ AtPc(d, "recheck") /\ X(d)' = X(d) /\ X(d).my \in Nat
  BY <1>1 DEF AtPc, Counting, CqKinds, CallKinds
<1>8. PICK b \in Nat : b <= dequeueOptimisticCount /\ Within(b)
  BY DEF CountInv
<1>9. Within(b)'
  <2>1. (headIndex + Total(AllGranted) + Total(AllEarlier(b)) <= tailIndex)'
    BY <1>3, <1>8 DEF Within
  <2>2. ASSUME NEW d \in CqConsumers, AtPc(d, "recheck")', X(d)'.my >= b
        PROVE (headIndex + Total(AllGranted) + Total(AllEarlier(X(d).my)) <= X(d).my - X(d).over)'
    <3>0. d # c /\ AtPc(d, "recheck") /\ X(d)' = X(d) /\ X(d).my \in Nat
      BY <1>7, <2>2
    <3>1. headIndex + Total(AllGranted) + Total(AllEarlier(X(d).my)) <= X(d).my - X(d).over
      BY <3>0, <2>2, <1>8 DEF Within
    <3> DEFINE k == X(d).my
    <3>2. k \in Nat /\ X(d)'.my = k
      BY <3>0
    <3>3. PICK m \in Nat : m = X(d).my
      BY <3>0
    <3>4. Total(AllEarlier(m)') = Total(AllEarlier(m))
      BY <1>3
    <3>5. AllEarlier(X(d).my)' = AllEarlier(m)'
      BY <3>0, <3>3 DEF AllEarlier
    <3> QED
      BY <3>0, <3>1, <3>3, <3>4, <3>5, <1>3
  <2> QED
    BY <2>1, <2>2 DEF Within
<1> QED
  BY <1>4, <1>5, <1>6, <1>8, <1>9 DEF CountInv

\* std::min and std::max of two values
LEMMA MinOfTwo ==
  ASSUME NEW a \in Int, NEW b \in Int
  PROVE  Min({a, b}) = IF a <= b THEN a ELSE b
<1>1. \E x \in {a, b} : \A y \in {a, b} : x <= y
  BY DEF Min
<1>2. Min({a, b}) \in {a, b} /\ \A y \in {a, b} : Min({a, b}) <= y
  BY <1>1 DEF Min
<1> QED
  BY <1>2

\* the same for the larger
LEMMA MaxOfTwo ==
  ASSUME NEW a \in Int, NEW b \in Int
  PROVE  Max({a, b}) = IF a >= b THEN a ELSE b
<1>1. \E x \in {a, b} : \A y \in {a, b} : x >= y
  OBVIOUS
<1>2. Max({a, b}) \in {a, b} /\ \A y \in {a, b} : Max({a, b}) >= y
  BY <1>1 DEF Max
<1> QED
  BY <1>2

\* The tail only grows, and a larger tail has room for every claim that fits.
LEMMA TailStep ==
  ASSUME CountInv, UNCHANGED <<headIndex, dequeueOptimisticCount, dequeueOvercommit, deq>>,
         tailIndex' \in Nat, tailIndex' >= tailIndex
  PROVE  CountInv'
<1>1. CqKinds'
  BY DEF CountInv, CqKinds, CqNumbers, CqShape, X
<1>2. /\ AllGranted' = AllGranted /\ AllRefused' = AllRefused /\ AllUndecided' = AllUndecided
      /\ \A k : AllEarlier(k)' = AllEarlier(k)
      /\ \A c \in CqConsumers : X(c)' = X(c)
  BY DEF AllGranted, AllRefused, AllUndecided, AllEarlier, X
<1>3. CountsAdd' /\ ClaimsApart'
  BY <1>2 DEF CountInv, CountsAdd, ClaimsApart, AtPc
<1>4. \A c \in CqConsumers : (LoadedOvercommit(X(c)) /\ ClaimedBefore(X(c)))'
  BY <1>2 DEF CountInv, LoadedOvercommit, ClaimedBefore
<1>5. PICK b \in Nat : b <= dequeueOptimisticCount /\ Within(b)
  BY DEF CountInv
<1>6. Total(AllGranted) \in Nat /\ Total(AllEarlier(b)) \in Nat
  BY WeightKinds, CellsFinite, CqAssumption DEF CountInv, WeightsTyped
<1>7. Within(b)'
  <2>1. (headIndex + Total(AllGranted) + Total(AllEarlier(b)) <= tailIndex)'
    BY <1>2, <1>5, <1>6 DEF Within, CountInv, CqKinds, CqNumbers
  <2>2. ASSUME NEW d \in CqConsumers, AtPc(d, "recheck")', X(d)'.my >= b
        PROVE (headIndex + Total(AllGranted) + Total(AllEarlier(X(d).my)) <= X(d).my - X(d).over)'
    BY <1>2, <1>5, <2>2 DEF Within, AtPc, AllEarlier
  <2> QED
    BY <2>1, <2>2 DEF Within
<1> QED
  BY <1>1, <1>3, <1>4, <1>5, <1>7 DEF CountInv

\* fetch_add on dequeueOptimisticCount adds an undecided claim after all others.
\* The overcommit that the call read is not above the present one, so what is
\* granted and undecided before it fits below its count less that overcommit.
LEMMA ClaimCountKeeps ==
  ASSUME CountInv, CqKinds', NEW c \in CqConsumers,
         \A d \in CqConsumers : d # c => X(d)' = X(d),
         UNCHANGED <<headIndex, tailIndex, dequeueOvercommit>>,
         X(c).pc = "claim", X(c)'.pc = "recheck", X(c)'.want = X(c).want, X(c)'.over = X(c).over,
         X(c)'.my = dequeueOptimisticCount,
         dequeueOptimisticCount' = dequeueOptimisticCount + X(c).want
  PROVE  CountInv'
<1>1. CqKinds /\ X(c).want \in Nat \ {0} /\ X(c).over \in Nat /\ X(c).over <= dequeueOvercommit
      /\ dequeueOptimisticCount \in Nat /\ headIndex \in Nat /\ dequeueOvercommit \in Nat
  BY DEF CountInv, CqKinds, CallKinds, LoadedOvercommit, CqNumbers
<1>2. /\ Granted(X(c)) = 0 /\ Refused(X(c)) = 0 /\ Undecided(X(c)) = 0
      /\ Granted(X(c)') = 0 /\ Refused(X(c)') = 0 /\ Undecided(X(c)') = X(c).want
  BY <1>1 DEF Granted, Refused, Undecided
<1>3. /\ Total(AllGranted) \in Nat /\ Total(AllRefused) \in Nat /\ Total(AllUndecided) \in Nat
      /\ Total(AllGranted') = Total(AllGranted)
      /\ Total(AllRefused') = Total(AllRefused)
      /\ Total(AllUndecided') = Total(AllUndecided) + X(c).want
      /\ \A k \in Nat : k <= dequeueOptimisticCount => Total(AllEarlier(k)') = Total(AllEarlier(k))
  <2>1. ASSUME NEW k \in Nat, k <= dequeueOptimisticCount
        PROVE  Total(AllEarlier(k)') = Total(AllEarlier(k))
    <3>1. EarlierUndecided(X(c), k) = 0 /\ EarlierUndecided(X(c)', k) = 0
      BY <1>1, <2>1 DEF EarlierUndecided
    <3> QED
      BY <1>1, <3>1, SumsMove
  <2>3. /\ Total(AllGranted) \in Nat /\ Total(AllRefused) \in Nat /\ Total(AllUndecided) \in Nat
        /\ Total(AllGranted') = Total(AllGranted)
        /\ Total(AllRefused') = Total(AllRefused)
        /\ Total(AllUndecided') = Total(AllUndecided) + X(c).want
    BY <1>1, <1>2, SumsMove
  <2> QED
    BY <2>1, <2>3
<1>4. CountsAdd'
  <2>1. dequeueOptimisticCount = headIndex + Total(AllGranted) + dequeueOvercommit
                             + Total(AllRefused) + Total(AllUndecided)
    BY DEF CountInv, CountsAdd
  <2>2. dequeueOptimisticCount + X(c).want = headIndex + Total(AllGranted) + dequeueOvercommit
                             + Total(AllRefused) + (Total(AllUndecided) + X(c).want)
    BY <1>1, <1>3, <2>1
  <2> QED
    BY <2>2, <1>3 DEF CountsAdd
<1>5. \A d \in CqConsumers : AtPc(d, "recheck") =>
         /\ X(d).my \in Nat /\ X(d).want \in Nat \ {0} /\ X(d).my + X(d).want <= dequeueOptimisticCount
         /\ d # c
  BY DEF CountInv, ClaimedBefore, AtPc, CqKinds, CallKinds
<1>6. ASSUME NEW d \in CqConsumers PROVE (LoadedOvercommit(X(d)) /\ ClaimedBefore(X(d)))'
  <2>1. CASE d = c
    BY <1>1, <2>1 DEF LoadedOvercommit, ClaimedBefore
  <2>2. CASE d # c
    BY <1>1, <1>5, <2>2 DEF CountInv, LoadedOvercommit, ClaimedBefore, AtPc
  <2> QED
    BY <2>1, <2>2
<1>7. ClaimsApart'
  <2> SUFFICES ASSUME NEW d \in CqConsumers, NEW e \in CqConsumers, d # e,
                      AtPc(d, "recheck")', AtPc(e, "recheck")'
               PROVE  X(d)'.my # X(e)'.my
    BY DEF ClaimsApart
  <2>1. CASE d # c /\ e # c
    BY <2>1 DEF CountInv, ClaimsApart, AtPc
  <2>2. CASE d = c
    <3>1. e # c /\ AtPc(e, "recheck")
      BY <2>2 DEF AtPc
    <3> QED
      BY <1>1, <1>5, <2>2, <3>1
  <2>3. CASE e = c
    <3>1. d # c /\ AtPc(d, "recheck")
      BY <2>3 DEF AtPc
    <3> QED
      BY <1>1, <1>5, <2>3, <3>1
  <2> QED
    BY <2>1, <2>2, <2>3
<1>8. PICK b \in Nat : b <= dequeueOptimisticCount /\ Within(b)
  BY DEF CountInv
<1>9. PICK o \in Nat : o = dequeueOptimisticCount
  BY <1>1
<1>10. AllEarlier(o) = AllUndecided
  <2>1. \A d \in CqConsumers : EarlierUndecided(X(d), o) = Undecided(X(d))
    BY <1>5, <1>9 DEF EarlierUndecided, Undecided, AtPc
  <2> QED
    BY <2>1 DEF AllEarlier, AllUndecided
<1>11. Total(AllEarlier(o)') = Total(AllUndecided)
  BY <1>3, <1>9, <1>10
<1>12. headIndex + Total(AllGranted) + Total(AllUndecided) <= o - X(c).over
  BY <1>1, <1>3, <1>9 DEF CountInv, CountsAdd
<1>13. Within(b)'
  <2>1. (headIndex + Total(AllGranted) + Total(AllEarlier(b)) <= tailIndex)'
    BY <1>3, <1>8 DEF Within
  <2>2. ASSUME NEW d \in CqConsumers, AtPc(d, "recheck")', X(d)'.my >= b
        PROVE (headIndex + Total(AllGranted) + Total(AllEarlier(X(d).my)) <= X(d).my - X(d).over)'
    <3>1. CASE d = c
      <4>1. AllEarlier(X(d).my)' = AllEarlier(o)'
        BY <3>1, <1>9 DEF AllEarlier
      <4> QED
        BY <3>1, <4>1, <1>3, <1>9, <1>11, <1>12
    <3>2. CASE d # c
      <4>0. AtPc(d, "recheck") /\ X(d)' = X(d) /\ X(d).my \in Nat /\ X(d).my <= dequeueOptimisticCount
        BY <3>2, <2>2, <1>5, <1>1 DEF AtPc
      <4>1. headIndex + Total(AllGranted) + Total(AllEarlier(X(d).my)) <= X(d).my - X(d).over
        BY <4>0, <2>2, <1>8 DEF Within
      <4>2. PICK m \in Nat : m = X(d).my
        BY <4>0
      <4>3. Total(AllEarlier(m)') = Total(AllEarlier(m))
        BY <1>3, <4>0, <4>2
      <4>4. AllEarlier(X(d).my)' = AllEarlier(m)'
        BY <4>0, <4>2 DEF AllEarlier
      <4> QED
        BY <4>0, <4>1, <4>2, <4>3, <4>4, <1>3
    <3> QED
      BY <3>1, <3>2
  <2> QED
    BY <2>1, <2>2 DEF Within
<1>14. b <= dequeueOptimisticCount'
  BY <1>1, <1>8
<1> QED
  BY <1>4, <1>6, <1>7, <1>8, <1>13, <1>14 DEF CountInv

\* Once a call has compared its count with the tail, all that is granted or came
\* before it fits below the tail: the boundary moves up to its count if it is
\* granted anything, and stays otherwise.
LEMMA RecheckKeeps ==
  ASSUME CountInv, CqKinds', NEW c \in CqConsumers,
         \A d \in CqConsumers : d # c => X(d)' = X(d),
         UNCHANGED <<headIndex, tailIndex, dequeueOptimisticCount, dequeueOvercommit>>,
         X(c).pc = "recheck", X(c)'.pc \in {"giveback", "head"}, X(c)'.want = X(c).want,
         X(c)'.n \in 0..X(c).want, X(c)'.pc = "head" => X(c)'.n = X(c).want,
         X(c)'.n > 0 => X(c)'.n <= tailIndex - (X(c).my - X(c).over)
  PROVE  CountInv'
<1>1. CqKinds /\ X(c).want \in Nat \ {0} /\ X(c).over \in Nat /\ X(c).my \in Nat
      /\ dequeueOptimisticCount \in Nat /\ headIndex \in Nat /\ dequeueOvercommit \in Nat
      /\ tailIndex \in Nat /\ X(c).my < dequeueOptimisticCount
  BY DEF CountInv, CqKinds, CallKinds, ClaimedBefore, CqNumbers
<1>2. PICK my \in Nat, want \in Nat, n \in Nat :
         my = X(c).my /\ want = X(c).want /\ n = X(c)'.n /\ want > 0 /\ n <= want
  BY <1>1
<1>3. /\ Granted(X(c)) = 0 /\ Refused(X(c)) = 0 /\ Undecided(X(c)) = want
      /\ Granted(X(c)') = n /\ Refused(X(c)') = want - n /\ Undecided(X(c)') = 0
  BY <1>2 DEF Granted, Refused, Undecided
<1>4. /\ Total(AllGranted) \in Nat /\ Total(AllRefused) \in Nat /\ Total(AllUndecided) \in Nat
      /\ Total(AllGranted') = Total(AllGranted) + n
      /\ Total(AllRefused') = Total(AllRefused) + (want - n)
      /\ Total(AllUndecided') = Total(AllUndecided) - want
  BY <1>1, <1>3, SumsMove
<1>5. ASSUME NEW k \in Nat
      PROVE  /\ Total(AllEarlier(k)) \in Nat
             /\ Total(AllEarlier(k)') = Total(AllEarlier(k)) - (IF my < k THEN want ELSE 0)
  <2>1. EarlierUndecided(X(c), k) = (IF my < k THEN want ELSE 0) /\ EarlierUndecided(X(c)', k) = 0
    BY <1>2 DEF EarlierUndecided
  <2> QED
    BY <1>1, <2>1, SumsMove
<1>6. CountsAdd'
  <2>1. dequeueOptimisticCount = headIndex + Total(AllGranted) + dequeueOvercommit
                             + Total(AllRefused) + Total(AllUndecided)
    BY DEF CountInv, CountsAdd
  <2>2. dequeueOptimisticCount = headIndex + (Total(AllGranted) + n) + dequeueOvercommit
                             + (Total(AllRefused) + (want - n)) + (Total(AllUndecided) - want)
    BY <1>1, <1>4, <2>1
  <2> QED
    BY <2>2, <1>4 DEF CountsAdd
<1>7. \A d \in CqConsumers : AtPc(d, "recheck")' =>
         /\ AtPc(d, "recheck") /\ X(d)' = X(d) /\ d # c /\ X(d).my \in Nat /\ X(d).over \in Nat
         /\ X(d).my # my
  BY <1>2 DEF CountInv, ClaimsApart, AtPc, CqKinds, CallKinds
<1>8. ASSUME NEW d \in CqConsumers PROVE (LoadedOvercommit(X(d)) /\ ClaimedBefore(X(d)))'
  <2>1. CASE d = c
    BY <2>1 DEF LoadedOvercommit, ClaimedBefore
  <2>2. CASE d # c
    BY <2>2 DEF CountInv, LoadedOvercommit, ClaimedBefore
  <2> QED
    BY <2>1, <2>2
<1>9. ClaimsApart'
  BY <1>7 DEF CountInv, ClaimsApart, AtPc
<1>10. PICK b \in Nat : b <= dequeueOptimisticCount /\ Within(b)
  BY DEF CountInv
<1>11. headIndex + Total(AllGranted) + Total(AllEarlier(b)) <= tailIndex
  BY <1>10 DEF Within
<1>12. ASSUME NEW d \in CqConsumers, AtPc(d, "recheck"), X(d).my >= b, NEW m \in Nat, m = X(d).my
       PROVE  headIndex + Total(AllGranted) + Total(AllEarlier(m)) <= m - X(d).over
  BY <1>10, <1>12 DEF Within
<1>13. ASSUME NEW a \in Nat, a <= dequeueOptimisticCount,
              headIndex + (Total(AllGranted) + n) + Total(AllEarlier(a)') <= tailIndex,
              \A d \in CqConsumers : AtPc(d, "recheck")' /\ X(d).my >= a =>
                X(d).my >= b /\ (n = 0 \/ my < X(d).my)
       PROVE  CountInv'
  <2>1. (headIndex + Total(AllGranted) + Total(AllEarlier(a)) <= tailIndex)'
    BY <1>4, <1>13
  <2>2. ASSUME NEW d \in CqConsumers, AtPc(d, "recheck")', X(d)'.my >= a
        PROVE (headIndex + Total(AllGranted) + Total(AllEarlier(X(d).my)) <= X(d).my - X(d).over)'
    <3>1. AtPc(d, "recheck") /\ X(d)' = X(d) /\ d # c /\ X(d).my \in Nat /\ X(d).over \in Nat
      BY <1>7, <2>2
    <3>2. PICK m \in Nat, over \in Nat : m = X(d).my /\ over = X(d).over
      BY <3>1
    <3>3. m >= b /\ (n = 0 \/ my < m)
      BY <1>13, <2>2, <3>1, <3>2
    <3>4. headIndex + Total(AllGranted) + Total(AllEarlier(m)) <= m - over
      BY <1>12, <3>1, <3>2, <3>3
    <3>5. /\ Total(AllEarlier(m)) \in Nat
          /\ Total(AllEarlier(m)') = Total(AllEarlier(m)) - (IF my < m THEN want ELSE 0)
      BY <1>5
    <3>6. headIndex + (Total(AllGranted) + n) + Total(AllEarlier(m)') <= m - over
      BY <1>1, <1>2, <1>4, <3>3, <3>4, <3>5
    <3>7. AllEarlier(X(d).my)' = AllEarlier(m)'
      BY <3>1, <3>2 DEF AllEarlier
    <3> QED
      BY <1>4, <3>1, <3>2, <3>6, <3>7
  <2>3. Within(a)'
    BY <2>1, <2>2 DEF Within
  <2>4. a <= dequeueOptimisticCount'
    BY <1>13
  <2> QED
    BY <1>6, <1>8, <1>9, <2>3, <2>4 DEF CountInv
<1>14. /\ Total(AllEarlier(b)) \in Nat
       /\ Total(AllEarlier(b)') = Total(AllEarlier(b)) - (IF my < b THEN want ELSE 0)
  BY <1>5
<1>15. CASE my < b
  <2>1. headIndex + (Total(AllGranted) + n) + Total(AllEarlier(b)') <= tailIndex
    BY <1>1, <1>2, <1>4, <1>11, <1>14, <1>15
  <2>2. \A d \in CqConsumers : AtPc(d, "recheck")' /\ X(d).my >= b => my < X(d).my
    BY <1>7, <1>15
  <2> QED
    BY <1>10, <1>13, <2>1, <2>2
<1>16. CASE my >= b /\ n = 0
  <2>1. headIndex + (Total(AllGranted) + n) + Total(AllEarlier(b)') <= tailIndex
    BY <1>1, <1>4, <1>11, <1>14, <1>16
  <2> QED
    BY <1>10, <1>13, <1>16, <2>1
<1>17. CASE my >= b /\ n > 0
  <2>1. my + 1 \in Nat /\ my + 1 <= dequeueOptimisticCount
    BY <1>1, <1>2
  <2>2. /\ Total(AllEarlier(my + 1)) \in Nat
        /\ Total(AllEarlier(my + 1)') = Total(AllEarlier(my + 1)) - want
    BY <1>5, <2>1
  <2>3. OneChanged(CqConsumers, AllEarlier(my), AllEarlier(my + 1), c)
    <3>1. WeightsTyped
      BY <1>1, WeightKinds
    <3>2. AllEarlier(my) \in [CqConsumers -> Nat] /\ AllEarlier(my + 1) \in [CqConsumers -> Nat]
      BY <2>1, <3>1 DEF WeightsTyped
    <3>3. ASSUME NEW d \in CqConsumers, d # c
          PROVE  EarlierUndecided(X(d), my + 1) = EarlierUndecided(X(d), my)
      <4>1. X(d).pc = "recheck" => X(d).my \in Nat /\ X(d).my # my
        BY <1>2, <3>3 DEF CountInv, ClaimsApart, AtPc, CqKinds, CallKinds
      <4> QED
        BY <4>1 DEF EarlierUndecided
    <3> QED
      BY <3>2, <3>3 DEF OneChanged, AllEarlier
  <2>4. AllEarlier(my)[c] = 0 /\ AllEarlier(my + 1)[c] = want
    BY <1>2 DEF AllEarlier, EarlierUndecided
  <2>5. Total(AllEarlier(my)) \in Nat /\ Total(AllEarlier(my + 1)) = Total(AllEarlier(my)) + want
    BY <2>3, <2>4, TotalUpdate, CqAssumption
  <2>6. headIndex + Total(AllGranted) + Total(AllEarlier(my)) <= my - X(c).over
    BY <1>2, <1>12, <1>17 DEF AtPc
  <2>7. n <= tailIndex - (my - X(c).over)
    BY <1>2, <1>17
  <2>8. headIndex + (Total(AllGranted) + n) + Total(AllEarlier(my + 1)') <= tailIndex
    BY <1>1, <1>4, <2>2, <2>5, <2>6, <2>7
  <2>9. \A d \in CqConsumers : AtPc(d, "recheck")' /\ X(d).my >= my + 1 => X(d).my >= b /\ my < X(d).my
    BY <1>7, <1>17
  <2> QED
    BY <1>13, <2>1, <2>8, <2>9
<1> QED
  BY <1>15, <1>16, <1>17

\* Giving back a refused part, or taking a granted one, moves it between terms.
LEMMA ReturnKeeps ==
  ASSUME CountInv, CqKinds', NEW c \in CqConsumers,
         \A d \in CqConsumers : d # c => X(d)' = X(d),
         UNCHANGED <<tailIndex, dequeueOptimisticCount>>,
         X(c).pc \in {"giveback", "head"}, X(c)'.pc \notin {"desire", "claim", "recheck"},
         headIndex' \in Nat, dequeueOvercommit' \in Nat,
         dequeueOvercommit' >= dequeueOvercommit,
         headIndex' + Granted(X(c)') = headIndex + Granted(X(c)),
         dequeueOvercommit' + Refused(X(c)') = dequeueOvercommit + Refused(X(c))
  PROVE  CountInv'
<1>1. CqKinds /\ dequeueOptimisticCount \in Nat /\ headIndex \in Nat /\ dequeueOvercommit \in Nat
      /\ tailIndex \in Nat
  BY DEF CountInv, CqKinds, CqNumbers
<1>2. Undecided(X(c)) = 0 /\ Undecided(X(c)') = 0
  BY DEF Undecided
<1>3. Granted(X(c)) \in Nat /\ Granted(X(c)') \in Nat /\ Refused(X(c)) \in Nat /\ Refused(X(c)') \in Nat
  <2>1. CallKinds(X(c)) /\ CallKinds(X(c)')
    BY <1>1 DEF CqKinds, CallKinds
  <2> QED
    BY <2>1 DEF CallKinds, Granted, Refused
<1>4. /\ Total(AllGranted) \in Nat /\ Total(AllRefused) \in Nat /\ Total(AllUndecided) \in Nat
      /\ Total(AllGranted') = Total(AllGranted) - Granted(X(c)) + Granted(X(c)')
      /\ Total(AllRefused') = Total(AllRefused) - Refused(X(c)) + Refused(X(c)')
      /\ Total(AllUndecided') = Total(AllUndecided)
  BY <1>1, <1>2, SumsMove
<1>5. ASSUME NEW k \in Nat
      PROVE  Total(AllEarlier(k)) \in Nat /\ Total(AllEarlier(k)') = Total(AllEarlier(k))
  <2>1. EarlierUndecided(X(c), k) = 0 /\ EarlierUndecided(X(c)', k) = 0
    BY DEF EarlierUndecided
  <2> QED
    BY <1>1, <2>1, SumsMove
<1>6. headIndex' + Total(AllGranted') = headIndex + Total(AllGranted)
  <2>1. PICK g \in Nat, h \in Nat, t \in Nat :
           g = Granted(X(c)) /\ h = Granted(X(c)') /\ t = Total(AllGranted)
    BY <1>3, <1>4
  <2>2. Total(AllGranted') = t - g + h /\ headIndex' + h = headIndex + g
    BY <1>4, <2>1
  <2> QED
    BY <1>1, <2>1, <2>2
<1>7. CountsAdd'
  <2>1. dequeueOptimisticCount = headIndex + Total(AllGranted) + dequeueOvercommit
                             + Total(AllRefused) + Total(AllUndecided)
    BY DEF CountInv, CountsAdd
  <2>2. dequeueOptimisticCount = headIndex' + Total(AllGranted') + dequeueOvercommit'
                             + Total(AllRefused') + Total(AllUndecided')
    BY <1>1, <1>3, <1>4, <1>6, <2>1
  <2> QED
    BY <2>2 DEF CountsAdd
<1>8. \A d \in CqConsumers : AtPc(d, "recheck")' =>
         AtPc(d, "recheck") /\ X(d)' = X(d) /\ X(d).my \in Nat
  BY DEF CountInv, AtPc, CqKinds, CallKinds
<1>9. ASSUME NEW d \in CqConsumers PROVE (LoadedOvercommit(X(d)) /\ ClaimedBefore(X(d)))'
  <2>1. CASE d = c
    BY <2>1 DEF LoadedOvercommit, ClaimedBefore
  <2>2. CASE d # c
    <3>1. X(d).pc \in {"desire", "claim"} => X(d).over \in Nat
      BY <1>1 DEF CqKinds, CallKinds
    <3> QED
      BY <1>1, <2>2, <3>1 DEF CountInv, LoadedOvercommit, ClaimedBefore
  <2> QED
    BY <2>1, <2>2
<1>10. ClaimsApart'
  BY <1>8 DEF CountInv, ClaimsApart, AtPc
<1>11. PICK b \in Nat : b <= dequeueOptimisticCount /\ Within(b)
  BY DEF CountInv
<1>12. Within(b)'
  <2>1. (headIndex + Total(AllGranted) + Total(AllEarlier(b)) <= tailIndex)'
    BY <1>5, <1>6, <1>11 DEF Within
  <2>2. ASSUME NEW d \in CqConsumers, AtPc(d, "recheck")', X(d)'.my >= b
        PROVE (headIndex + Total(AllGranted) + Total(AllEarlier(X(d).my)) <= X(d).my - X(d).over)'
    <3>0. AtPc(d, "recheck") /\ X(d)' = X(d) /\ X(d).my \in Nat
      BY <1>8, <2>2
    <3>1. headIndex + Total(AllGranted) + Total(AllEarlier(X(d).my)) <= X(d).my - X(d).over
      BY <3>0, <2>2, <1>11 DEF Within
    <3>2. PICK m \in Nat : m = X(d).my
      BY <3>0
    <3>3. Total(AllEarlier(m)') = Total(AllEarlier(m))
      BY <1>5
    <3>4. AllEarlier(X(d).my)' = AllEarlier(m)'
      BY <3>0, <3>2 DEF AllEarlier
    <3> QED
      BY <3>0, <3>1, <3>2, <3>3, <3>4, <1>6
  <2> QED
    BY <2>1, <2>2 DEF Within
<1> QED
  BY <1>7, <1>9, <1>10, <1>11, <1>12 DEF CountInv

\* A consumer that goes on changes its own locals only.
LEMMA ProceedsMoves ==
  ASSUME CqShape, NEW c \in CqConsumers, NEW STATE r, Proceeds(c, r)
  PROVE  /\ CqShape' /\ X(c)' = With(r, X(c)) /\ DOMAIN X(c) = CqFields
         /\ \A d \in CqConsumers : d # c => X(d)' = X(d)
<1>1. DOMAIN With(r, X(c)) = CqFields
  BY DEF CqShape, With, X
<1> QED
  BY <1>1 DEF CqShape, Proceeds, X

\* It is enough to type what one consumer changed.
LEMMA KindsStep ==
  ASSUME CqKinds, CqShape', CqNumbers', NEW c \in CqConsumers, CallKinds(X(c)'),
         \A d \in CqConsumers : d # c => X(d)' = X(d)
  PROVE  CqKinds'
<1>1. ASSUME NEW d \in CqConsumers PROVE CallKinds(X(d))'
  <2>1. CASE d = c
    BY <2>1 DEF CallKinds
  <2>2. CASE d # c
    BY <2>2 DEF CqKinds, CallKinds
  <2> QED
    BY <2>1, <2>2
<1> QED
  BY <1>1 DEF CqKinds

\* A call reads the tail.
LEMMA CallDequeueKeeps ==
  ASSUME CountInv, NEW c \in CqConsumers, NEW max \in Nat \ {0}, CallDequeue(c, max)
  PROVE  CountInv'
<1>1. CqKinds /\ CqShape /\ CqNumbers
  BY DEF CountInv, CqKinds
<1>2. /\ X(c)' = With([pc |-> "overcommit", max |-> max, tail |-> tailIndex], Idle)
      /\ DOMAIN X(c)' = CqFields /\ DOMAIN deq' = CqConsumers /\ DOMAIN deq[c]' = {"calls", "x"}
      /\ \A d \in CqConsumers : d # c => deq[d]' = deq[d]
  BY <1>1 DEF CallDequeue, CqShape, X, With, Idle, CqFields
<1>3. CqShape' /\ \A d \in CqConsumers : d # c => X(d)' = X(d)
  BY <1>1, <1>2 DEF CqShape, X
<1>4. X(c)'.pc = "overcommit" /\ X(c)'.max = max /\ X(c)'.tail = tailIndex
  BY <1>2 DEF With, Idle
<1>5. UNCHANGED <<headIndex, tailIndex, dequeueOptimisticCount, dequeueOvercommit>> /\ X(c).pc = "idle"
  BY DEF CallDequeue, SharedByProducer, counts, AtPc
<1>6. CqNumbers' /\ CallKinds(X(c)') /\ LoadedOvercommit(X(c))'
  BY <1>1, <1>4, <1>5 DEF CqNumbers, CallKinds, LoadedOvercommit
<1>7. CqKinds'
  BY <1>1, <1>3, <1>6, KindsStep
<1> QED
  BY <1>3, <1>4, <1>5, <1>6, <1>7, QuietStep DEF Counting

\* It loads dequeueOvercommit.
LEMMA LoadOvercommitKeeps ==
  ASSUME CountInv, NEW c \in CqConsumers, LoadOvercommit(c)
  PROVE  CountInv'
<1>1. CqKinds /\ CqShape /\ CqNumbers /\ CallKinds(X(c))
  BY DEF CountInv, CqKinds
<1>2. Proceeds(c, [pc |-> "desire", over |-> dequeueOvercommit])
  BY DEF LoadOvercommit
<1>3. /\ CqShape' /\ X(c)' = With([pc |-> "desire", over |-> dequeueOvercommit], X(c))
      /\ DOMAIN X(c) = CqFields /\ \A d \in CqConsumers : d # c => X(d)' = X(d)
  BY <1>1, <1>2, ProceedsMoves
<1>4. X(c)'.pc = "desire" /\ X(c)'.over = dequeueOvercommit /\ X(c)'.max = X(c).max /\ X(c)'.tail = X(c).tail
  BY <1>3 DEF With, CqFields
<1>5. UNCHANGED <<headIndex, tailIndex, dequeueOptimisticCount, dequeueOvercommit>> /\ X(c).pc = "overcommit"
  BY DEF LoadOvercommit, SharedByProducer, counts, AtPc
<1>6. CqNumbers' /\ CallKinds(X(c)') /\ LoadedOvercommit(X(c))'
  BY <1>1, <1>4, <1>5 DEF CqNumbers, CallKinds, LoadedOvercommit
<1>7. CqKinds'
  BY <1>1, <1>3, <1>6, KindsStep
<1> QED
  BY <1>3, <1>4, <1>5, <1>6, <1>7, QuietStep DEF Counting

\* It loads dequeueOptimisticCount, and returns if nothing seems to be left.
LEMMA LoadOptimisticKeeps ==
  ASSUME CountInv, NEW c \in CqConsumers, LoadOptimistic(c)
  PROVE  CountInv'
<1> DEFINE desired == X(c).tail - (dequeueOptimisticCount - X(c).over)
           want == Min({desired, X(c).max})
<1>1. CqKinds /\ CqShape /\ CqNumbers /\ CallKinds(X(c)) /\ LoadedOvercommit(X(c))
  BY DEF CountInv, CqKinds
<1>2. UNCHANGED <<headIndex, tailIndex, dequeueOptimisticCount, dequeueOvercommit>> /\ X(c).pc = "desire"
  BY DEF LoadOptimistic, SharedByProducer, counts, AtPc
<1>3. X(c).max \in Nat \ {0} /\ X(c).over \in Nat /\ desired \in Int /\ X(c).over <= dequeueOvercommit
  BY <1>1, <1>2 DEF CallKinds, CqNumbers, LoadedOvercommit
<1>4. CASE desired > 0
  <2>1. Proceeds(c, [pc |-> "claim", want |-> want, max |-> 0, tail |-> 0])
    BY <1>4 DEF LoadOptimistic
  <2>2. /\ CqShape' /\ X(c)' = With([pc |-> "claim", want |-> want, max |-> 0, tail |-> 0], X(c))
        /\ DOMAIN X(c) = CqFields /\ \A d \in CqConsumers : d # c => X(d)' = X(d)
    BY <1>1, <2>1, ProceedsMoves
  <2>3. X(c)'.pc = "claim" /\ X(c)'.over = X(c).over /\ X(c)'.want = want
    BY <2>2 DEF With, CqFields
  <2>4. want \in Nat \ {0}
    BY <1>3, <1>4, MinOfTwo
  <2> HIDE DEF desired, want
  <2>5. CqNumbers' /\ CallKinds(X(c)') /\ LoadedOvercommit(X(c))'
    BY <1>1, <1>2, <1>3, <2>3, <2>4 DEF CqNumbers, CallKinds, LoadedOvercommit
  <2>6. CqKinds'
    BY <1>1, <2>2, <2>5, KindsStep
  <2> QED
    BY <1>2, <2>2, <2>3, <2>5, <2>6, QuietStep DEF Counting
<1>5. CASE ~(desired > 0)
  <2>1. Proceeds(c, Idle)
    BY <1>5 DEF LoadOptimistic
  <2>2. /\ CqShape' /\ X(c)' = With(Idle, X(c))
        /\ DOMAIN X(c) = CqFields /\ \A d \in CqConsumers : d # c => X(d)' = X(d)
    BY <1>1, <2>1, ProceedsMoves
  <2>3. X(c)'.pc = "idle"
    BY <2>2 DEF With, CqFields, Idle
  <2>5. CqNumbers' /\ CallKinds(X(c)') /\ LoadedOvercommit(X(c))'
    BY <1>1, <1>2, <2>3 DEF CqNumbers, CallKinds, LoadedOvercommit
  <2>6. CqKinds'
    BY <1>1, <2>2, <2>5, KindsStep
  <2> QED
    BY <1>2, <2>2, <2>3, <2>5, <2>6, QuietStep DEF Counting
<1> QED
  BY <1>4, <1>5

\* It adds to dequeueOptimisticCount.
LEMMA ClaimCountStep ==
  ASSUME CountInv, NEW c \in CqConsumers, ClaimCount(c)
  PROVE  CountInv'
<1>1. CqKinds /\ CqShape /\ CqNumbers /\ CallKinds(X(c))
  BY DEF CountInv, CqKinds
<1>2. Proceeds(c, [pc |-> "recheck", my |-> dequeueOptimisticCount])
  BY DEF ClaimCount
<1>3. /\ CqShape' /\ X(c)' = With([pc |-> "recheck", my |-> dequeueOptimisticCount], X(c))
      /\ DOMAIN X(c) = CqFields /\ \A d \in CqConsumers : d # c => X(d)' = X(d)
  BY <1>1, <1>2, ProceedsMoves
<1>4. /\ X(c)'.pc = "recheck" /\ X(c)'.my = dequeueOptimisticCount
      /\ X(c)'.want = X(c).want /\ X(c)'.over = X(c).over
  BY <1>3 DEF With, CqFields
<1>5. /\ UNCHANGED <<headIndex, tailIndex, dequeueOvercommit>> /\ X(c).pc = "claim"
      /\ dequeueOptimisticCount' = dequeueOptimisticCount + X(c).want
  BY DEF ClaimCount, SharedByProducer, AtPc
<1>6. CqNumbers' /\ CallKinds(X(c)')
  BY <1>1, <1>4, <1>5 DEF CqNumbers, CallKinds
<1>7. CqKinds'
  BY <1>1, <1>3, <1>6, KindsStep
<1> QED
  BY <1>3, <1>4, <1>5, <1>7, ClaimCountKeeps

\* It reads the tail again.
LEMMA RecheckStep ==
  ASSUME CountInv, NEW c \in CqConsumers, Recheck(c)
  PROVE  CountInv'
<1>1. CqKinds /\ CqShape /\ CqNumbers /\ CallKinds(X(c))
  BY DEF CountInv, CqKinds
<1>2. UNCHANGED <<headIndex, tailIndex, dequeueOptimisticCount, dequeueOvercommit>> /\ X(c).pc = "recheck"
  BY DEF Recheck, SharedByProducer, counts, AtPc
<1>3. X(c).want \in Nat \ {0} /\ X(c).my \in Nat /\ X(c).over \in Nat /\ tailIndex \in Nat
  BY <1>1, <1>2 DEF CallKinds, CqNumbers
<1>4. /\ Actual(c) \in 0..X(c).want
      /\ Actual(c) > 0 => Actual(c) <= tailIndex - (X(c).my - X(c).over)
  <2>1. PICK want \in Nat, left \in Int : want = X(c).want /\ left = tailIndex - (X(c).my - X(c).over)
    BY <1>3
  <2>2. Min({want, left}) = IF want <= left THEN want ELSE left
    BY MinOfTwo
  <2>3. Min({want, left}) \in Int
    BY <2>2
  <2>4. Actual(c) = Max({0, Min({want, left})})
    BY <2>1 DEF Actual
  <2>5. PICK m \in Int, z \in Int : m = Min({want, left}) /\ z = 0
    BY <2>3
  <2>6. Max({z, m}) = IF z >= m THEN z ELSE m
    BY MaxOfTwo
  <2> QED
    BY <2>1, <2>2, <2>4, <2>5, <2>6
<1>5. Proceeds(c, [n |-> Actual(c), pc |-> IF Actual(c) < X(c).want THEN "giveback" ELSE "head"])
  BY DEF Recheck
<1>6. /\ CqShape' /\ DOMAIN X(c) = CqFields /\ \A d \in CqConsumers : d # c => X(d)' = X(d)
      /\ X(c)' = With([n |-> Actual(c), pc |-> IF Actual(c) < X(c).want THEN "giveback" ELSE "head"], X(c))
  BY <1>1, <1>5, ProceedsMoves
<1>7. /\ X(c)'.n = Actual(c) /\ X(c)'.want = X(c).want
      /\ X(c)'.pc = IF Actual(c) < X(c).want THEN "giveback" ELSE "head"
  BY <1>6 DEF With, CqFields
<1>8. X(c)'.pc \in {"giveback", "head"} /\ (X(c)'.pc = "head" => X(c)'.n = X(c).want)
  BY <1>3, <1>4, <1>7
<1>9. CqNumbers' /\ CallKinds(X(c)')
  BY <1>1, <1>2, <1>3, <1>4, <1>7, <1>8 DEF CqNumbers, CallKinds
<1>10. CqKinds'
  BY <1>1, <1>6, <1>9, KindsStep
<1> QED
  BY <1>2, <1>4, <1>6, <1>7, <1>8, <1>10, RecheckKeeps

\* It gives back what it cannot have.
LEMMA AddOvercommitStep ==
  ASSUME CountInv, NEW c \in CqConsumers, AddOvercommit(c)
  PROVE  CountInv'
<1>1. CqKinds /\ CqShape /\ CqNumbers /\ CallKinds(X(c))
  BY DEF CountInv, CqKinds
<1>2. /\ UNCHANGED <<headIndex, tailIndex, dequeueOptimisticCount>> /\ X(c).pc = "giveback"
      /\ dequeueOvercommit' = dequeueOvercommit + X(c).want - X(c).n
  BY DEF AddOvercommit, SharedByProducer, AtPc
<1>3. X(c).want \in Nat \ {0} /\ X(c).n \in 0..X(c).want
  BY <1>1, <1>2 DEF CallKinds
<1>4. dequeueOvercommit' \in Nat /\ dequeueOvercommit' >= dequeueOvercommit /\ CqNumbers'
  BY <1>1, <1>2, <1>3 DEF CqNumbers
<1>5. Granted(X(c)) = X(c).n /\ Refused(X(c)) = X(c).want - X(c).n
  BY <1>2 DEF Granted, Refused
<1>6. CASE X(c).n > 0
  <2>1. Proceeds(c, [pc |-> "head"])
    BY <1>6 DEF AddOvercommit
  <2>2. /\ CqShape' /\ X(c)' = With([pc |-> "head"], X(c))
        /\ DOMAIN X(c) = CqFields /\ \A d \in CqConsumers : d # c => X(d)' = X(d)
    BY <1>1, <2>1, ProceedsMoves
  <2>3. X(c)'.pc = "head" /\ X(c)'.n = X(c).n
    BY <2>2 DEF With, CqFields
  <2>4. CallKinds(X(c)') /\ Granted(X(c)') = X(c).n /\ Refused(X(c)') = 0
    BY <1>3, <1>6, <2>3 DEF CallKinds, Granted, Refused
  <2>5. CqKinds'
    BY <1>1, <1>4, <2>2, <2>4, KindsStep
  <2>6. /\ headIndex' + Granted(X(c)') = headIndex + Granted(X(c))
        /\ dequeueOvercommit' + Refused(X(c)') = dequeueOvercommit + Refused(X(c))
    BY <1>1, <1>2, <1>3, <1>5, <2>4 DEF CqNumbers
  <2> QED
    BY <1>1, <1>2, <1>4, <2>2, <2>3, <2>5, <2>6, ReturnKeeps DEF CqNumbers
<1>7. CASE ~(X(c).n > 0)
  <2>1. Proceeds(c, Idle)
    BY <1>7 DEF AddOvercommit
  <2>2. /\ CqShape' /\ X(c)' = With(Idle, X(c))
        /\ DOMAIN X(c) = CqFields /\ \A d \in CqConsumers : d # c => X(d)' = X(d)
    BY <1>1, <2>1, ProceedsMoves
  <2>3. X(c)'.pc = "idle"
    BY <2>2 DEF With, CqFields, Idle
  <2>4. CallKinds(X(c)') /\ Granted(X(c)') = 0 /\ Refused(X(c)') = 0
    BY <2>3 DEF CallKinds, Granted, Refused
  <2>5. CqKinds'
    BY <1>1, <1>4, <2>2, <2>4, KindsStep
  <2>6. /\ headIndex' + Granted(X(c)') = headIndex + Granted(X(c))
        /\ dequeueOvercommit' + Refused(X(c)') = dequeueOvercommit + Refused(X(c))
    BY <1>1, <1>2, <1>3, <1>5, <1>7, <2>4 DEF CqNumbers
  <2> QED
    BY <1>1, <1>2, <1>4, <2>2, <2>3, <2>5, <2>6, ReturnKeeps DEF CqNumbers
<1> QED
  BY <1>6, <1>7

\* It takes what it can have from headIndex.
LEMMA ClaimIndexStep ==
  ASSUME CountInv, NEW c \in CqConsumers, ClaimIndex(c)
  PROVE  CountInv'
<1>1. CqKinds /\ CqShape /\ CqNumbers /\ CallKinds(X(c))
  BY DEF CountInv, CqKinds
<1>2. /\ UNCHANGED <<tailIndex, dequeueOptimisticCount, dequeueOvercommit>> /\ X(c).pc = "head"
      /\ headIndex' = headIndex + X(c).n
  BY DEF ClaimIndex, SharedByProducer, counts, AtPc
<1>3. X(c).n \in Nat
  BY <1>1, <1>2 DEF CallKinds
<1>4. headIndex' \in Nat /\ CqNumbers'
  BY <1>1, <1>2, <1>3 DEF CqNumbers
<1>5. Granted(X(c)) = X(c).n /\ Refused(X(c)) = 0
  BY <1>2 DEF Granted, Refused
<1>6. Proceeds(c, With([pc |-> "index", first |-> headIndex, n |-> X(c).n], Idle))
  BY DEF ClaimIndex
<1>7. /\ CqShape' /\ X(c)' = With(With([pc |-> "index", first |-> headIndex, n |-> X(c).n], Idle), X(c))
      /\ DOMAIN X(c) = CqFields /\ \A d \in CqConsumers : d # c => X(d)' = X(d)
  BY <1>1, <1>6, ProceedsMoves
<1>8. X(c)'.pc = "index"
  BY <1>7 DEF With, CqFields, Idle
<1>9. CallKinds(X(c)') /\ Granted(X(c)') = 0 /\ Refused(X(c)') = 0
  BY <1>8 DEF CallKinds, Granted, Refused
<1>10. CqKinds'
  BY <1>1, <1>4, <1>7, <1>9, KindsStep
<1>11. /\ headIndex' + Granted(X(c)') = headIndex + Granted(X(c))
       /\ dequeueOvercommit' + Refused(X(c)') = dequeueOvercommit + Refused(X(c))
  BY <1>1, <1>2, <1>3, <1>5, <1>9 DEF CqNumbers
<1> QED
  BY <1>1, <1>2, <1>4, <1>7, <1>8, <1>10, <1>11, ReturnKeeps DEF CqNumbers

\* where a call deals with the counters
ClaimPcs == {"overcommit", "desire", "claim", "recheck", "giveback", "head"}

\* Whatever it does after that leaves the counters alone.
LEMMA LaterStep ==
  ASSUME CountInv, NEW c \in CqConsumers, NEW STATE r, Proceeds(c, r),
         X(c).pc \notin ClaimPcs, "pc" \in DOMAIN r, r["pc"] \notin ClaimPcs,
         UNCHANGED <<headIndex, tailIndex, dequeueOptimisticCount, dequeueOvercommit>>
  PROVE  CountInv'
<1>1. CqKinds /\ CqShape /\ CqNumbers
  BY DEF CountInv, CqKinds
<1>2. /\ CqShape' /\ X(c)' = With(r, X(c))
      /\ DOMAIN X(c) = CqFields /\ \A d \in CqConsumers : d # c => X(d)' = X(d)
  BY <1>1, ProceedsMoves
<1>3. X(c)'.pc \notin ClaimPcs
  BY <1>2 DEF With, CqFields
<1>4. CqNumbers' /\ CallKinds(X(c)') /\ LoadedOvercommit(X(c))'
  BY <1>1, <1>3 DEF CqNumbers, CallKinds, LoadedOvercommit, ClaimPcs
<1>5. CqKinds'
  BY <1>1, <1>2, <1>4, KindsStep
<1> QED
  BY <1>2, <1>3, <1>4, <1>5, QuietStep DEF Counting, ClaimPcs

\* Every step at the counters keeps the invariant.
LEMMA ClaimStepKeeps ==
  ASSUME CountInv, NEW c \in CqConsumers, ClaimStep(c)
  PROVE  CountInv'
<1>1. CASE DequeueOne(c)
  BY <1>1, CallDequeueKeeps DEF DequeueOne
<1>2. CASE DequeueMany(c)
  <2>1. PICK max \in 2..CqBulk : CallDequeue(c, max)
    BY <1>2 DEF DequeueMany
  <2>2. max \in Nat \ {0}
    BY CqAssumption
  <2> QED
    BY <2>1, <2>2, CallDequeueKeeps
<1>3. CASE LoadOvercommit(c)
  BY <1>3, LoadOvercommitKeeps
<1>4. CASE LoadOptimistic(c)
  BY <1>4, LoadOptimisticKeeps
<1>5. CASE ClaimCount(c)
  BY <1>5, ClaimCountStep
<1>6. CASE Recheck(c)
  BY <1>6, RecheckStep
<1>7. CASE AddOvercommit(c)
  BY <1>7, AddOvercommitStep
<1>8. CASE ClaimIndex(c)
  BY <1>8, ClaimIndexStep
<1> QED
  BY <1>1, <1>2, <1>3, <1>4, <1>5, <1>6, <1>7, <1>8 DEF ClaimStep

\* So does every step of a consumer of an explicit producer.
LEMMA ConsumerStepKeeps ==
  ASSUME CountInv, NEW c \in CqConsumers, ConsumerStep(c)
  PROVE  CountInv'
<1>1. CASE ClaimStep(c)
  BY <1>1, ClaimStepKeeps
<1>2. CASE LoadIndex(c)
  <2>1. Proceeds(c, [pc |-> "front", hdr |-> Len(headers)])
    BY <1>2 DEF LoadIndex
  <2>2. UNCHANGED <<headIndex, tailIndex, dequeueOptimisticCount, dequeueOvercommit>> /\ X(c).pc = "index"
    BY <1>2 DEF LoadIndex, SharedByProducer, counts, AtPc
  <2> QED
    BY <2>1, <2>2, LaterStep DEF ClaimPcs
<1>3. CASE LoadFront(c)
  <2>1. Proceeds(c, [pc |-> "find", front |-> headers[X(c).hdr].front])
    BY <1>3 DEF LoadFront
  <2>2. UNCHANGED <<headIndex, tailIndex, dequeueOptimisticCount, dequeueOvercommit>> /\ X(c).pc = "front"
    BY <1>3 DEF LoadFront, SharedByProducer, counts, AtPc
  <2> QED
    BY <2>1, <2>2, LaterStep DEF ClaimPcs
<1>4. CASE FindSlot(c)
  <2> DEFINE h == headers[X(c).hdr]
             offset == (Base(X(c).first) - h.entries[X(c).front].base) \div BLOCK_SIZE
             s == (X(c).front + offset) % h.size
  <2>1. Proceeds(c, [pc |-> "move", slot |-> s, front |-> 0])
    BY <1>4 DEF FindSlot
  <2>2. UNCHANGED <<headIndex, tailIndex, dequeueOptimisticCount, dequeueOvercommit>> /\ X(c).pc = "find"
    BY <1>4 DEF FindSlot, SharedByProducer, counts, AtPc
  <2> HIDE DEF h, offset, s
  <2> QED
    BY <2>1, <2>2, LaterStep DEF ClaimPcs
<1>5. CASE MoveOut(c)
  <2>1. Proceeds(c, [pc |-> "flag", slot |-> X(c).slot])
    BY <1>5 DEF MoveOut
  <2>2. UNCHANGED <<headIndex, tailIndex, dequeueOptimisticCount, dequeueOvercommit>> /\ X(c).pc = "move"
    BY <1>5 DEF MoveOut, SharedByProducer, counts, AtPc
  <2> QED
    BY <2>1, <2>2, LaterStep DEF ClaimPcs
<1>6. CASE SetEmpty(c)
  <2> DEFINE left == X(c).n - Cardinality(Part(c))
             first == X(c).first + Cardinality(Part(c))
             slot == (X(c).slot + 1) % headers[X(c).hdr].size
  <2>1. Proceeds(c, IF left = 0 THEN Idle ELSE [pc |-> "move", first |-> first, n |-> left, slot |-> slot])
    BY <1>6 DEF SetEmpty
  <2>2. UNCHANGED <<headIndex, tailIndex, dequeueOptimisticCount, dequeueOvercommit>> /\ X(c).pc = "flag"
    BY <1>6 DEF SetEmpty, SharedByProducer, counts, AtPc
  <2> HIDE DEF left, first, slot
  <2>3. CASE left = 0
    <3>1. Proceeds(c, Idle)
      BY <2>1, <2>3
    <3>2. "pc" \in DOMAIN Idle /\ Idle["pc"] = "idle"
      BY DEF Idle
    <3> QED
      BY <2>2, <3>1, <3>2, LaterStep DEF ClaimPcs
  <2>4. CASE left # 0
    <3>1. Proceeds(c, [pc |-> "move", first |-> first, n |-> left, slot |-> slot])
      BY <2>1, <2>4
    <3> QED
      BY <2>2, <3>1, LaterStep DEF ClaimPcs
  <2> QED
    BY <2>3, <2>4
<1> QED
  BY <1>1, <1>2, <1>3, <1>4, <1>5, <1>6 DEF ConsumerStep

\* an enqueue_bulk stores a natural number of items
PrCalls == "call" \in DOMAIN pr /\ "n" \in DOMAIN pr.call /\ pr.call.n \in Nat

\* A producer with a token leaves the counters alone but for the tail, which grows.
LEMMA ProducerCalls ==
  ASSUME PrCalls, CqNumbers, ProducerStep
  PROVE  /\ PrCalls' /\ tailIndex' \in Nat /\ tailIndex' >= tailIndex
         /\ UNCHANGED <<headIndex, dequeueOptimisticCount, dequeueOvercommit, deq>>
<1>0. tailIndex \in Nat
  BY DEF CqNumbers
<1>1. ASSUME NEW n \in Nat, StartCall(n)
      PROVE  PrCalls' /\ UNCHANGED <<tailIndex, headIndex, dequeueOptimisticCount, dequeueOvercommit, deq>>
  BY <1>1 DEF PrCalls, StartCall, Goes, With, SharedByConsumers, counts
<1>2. CASE EnqueueOne
  BY <1>0, <1>1, <1>2 DEF EnqueueOne
<1>3. CASE EnqueueMany
  <2>1. PICK n \in 2..CqBulk : StartCall(n)
    BY <1>3 DEF EnqueueMany
  <2>2. n \in Nat
    BY CqAssumption
  <2> QED
    BY <1>0, <1>1, <2>1, <2>2
<1>4. CASE ReuseBlock
  <2>1. UNCHANGED <<tailIndex, headIndex, dequeueOptimisticCount, dequeueOvercommit, deq>>
    BY <1>4 DEF ReuseBlock, SharedByConsumers, counts
  <2>2. PutEntry(pr, headers, blocks[pr.tailBlock].next)
    BY <1>4 DEF ReuseBlock
  <2>3. PrCalls'
    BY <2>2 DEF PutEntry, PrCalls
  <2> QED
    BY <1>0, <2>1, <2>3
<1>5. CASE AddBlock
  <2>1. UNCHANGED <<tailIndex, headIndex, dequeueOptimisticCount, dequeueOvercommit, deq>>
    BY <1>5 DEF AddBlock, SharedByConsumers, counts
  <2> DEFINE grown == [pr EXCEPT !.front = pr.slotsUsed, !.call.origFront = pr.call.origUsed]
  <2>4. ASSUME NEW p, p \in {pr, grown}
        PROVE  /\ "call" \in DOMAIN p /\ "n" \in DOMAIN p.call /\ p.call.n \in Nat
    BY <2>4 DEF PrCalls
  <2>5. PICK p : /\ p \in {pr, grown}
                 /\ \/ Undo(pr) \/ Undo(p)
                    \/ \E hs, b : PutEntry([p EXCEPT !.slotsUsed = @ + 1, !.call.pc = "add"], hs, b)
    <3>1. CASE pr.slotsUsed = Header.size
      BY <1>5, <3>1 DEF AddBlock
    <3>2. CASE pr.slotsUsed # Header.size
      BY <1>5, <3>2 DEF AddBlock
    <3> QED
      BY <3>1, <3>2
  <2> HIDE DEF grown
  <2>55. "call" \in DOMAIN pr /\ "call" \in DOMAIN p /\ "n" \in DOMAIN p.call /\ p.call.n \in Nat
    BY <2>4, <2>5 DEF PrCalls
  <2>6. CASE Undo(pr) \/ Undo(p)
    <3>1. CASE Undo(pr)
      <4>1. pr'.call = PrIdle /\ "call" \in DOMAIN pr'
        BY <3>1, <2>55 DEF Undo
      <4> QED
        BY <1>0, <2>1, <4>1 DEF PrIdle, PrCalls
    <3>2. CASE Undo(p)
      <4>1. pr'.call = PrIdle /\ "call" \in DOMAIN pr'
        BY <3>2, <2>55 DEF Undo
      <4> QED
        BY <1>0, <2>1, <4>1 DEF PrIdle, PrCalls
    <3> QED
      BY <2>6, <3>1, <3>2
  <2>7. CASE \E hs, b : PutEntry([p EXCEPT !.slotsUsed = @ + 1, !.call.pc = "add"], hs, b)
    <3>1. PICK hs, b : PutEntry([p EXCEPT !.slotsUsed = @ + 1, !.call.pc = "add"], hs, b)
      BY <2>7
    <3> DEFINE q == [p EXCEPT !.slotsUsed = @ + 1, !.call.pc = "add"]
    <3>2. "call" \in DOMAIN q /\ "n" \in DOMAIN q.call /\ q.call.n \in Nat
      BY <2>55
    <3>3. PutEntry(q, hs, b)
      BY <3>1
    <3> HIDE DEF q
    <3>4. "call" \in DOMAIN pr' /\ DOMAIN pr'.call = DOMAIN q.call /\ pr'.call.n = q.call.n
      BY <3>2, <3>3 DEF PutEntry
    <3> QED
      BY <1>0, <2>1, <3>2, <3>4 DEF PrCalls
  <2> QED
    BY <2>5, <2>6, <2>7
<1>6. CASE PublishFront
  BY <1>0, <1>6 DEF PrCalls, PublishFront, Goes, With, SharedByConsumers, counts
<1>7. CASE Construct
  BY <1>0, <1>7 DEF PrCalls, Construct, Goes, With, SharedByConsumers, counts
<1>8. CASE StoreTail
  BY <1>0, <1>8 DEF PrCalls, StoreTail, Goes, With, PrIdle, SharedByConsumers, counts
<1> QED
  BY <1>2, <1>3, <1>4, <1>5, <1>6, <1>7, <1>8 DEF ProducerStep

\* the same for a producer without a token
IpCalls == "call" \in DOMAIN ip /\ "n" \in DOMAIN ip.call /\ ip.call.n \in Nat

\* A producer without a token does too.
LEMMA ImpProducerCalls ==
  ASSUME IpCalls, CqNumbers, ImpProducerStep
  PROVE  /\ IpCalls' /\ tailIndex' \in Nat /\ tailIndex' >= tailIndex
         /\ UNCHANGED <<headIndex, dequeueOptimisticCount, dequeueOvercommit, deq>>
<1>0. tailIndex \in Nat
  BY DEF CqNumbers
<1>1. ASSUME NEW STATE r, ImpGoes(r), "n" \in DOMAIN r => r["n"] \in Nat PROVE IpCalls'
  BY <1>1 DEF IpCalls, ImpGoes, With
<1>2. ASSUME NEW n \in Nat, ImpStart(n)
      PROVE  IpCalls' /\ UNCHANGED <<tailIndex, headIndex, dequeueOptimisticCount, dequeueOvercommit, deq>>
  BY <1>2 DEF IpCalls, ImpStart, ImpGoes, With, SharedByConsumers, counts
<1>3. CASE ImpEnqueueOne
  BY <1>0, <1>2, <1>3 DEF ImpEnqueueOne
<1>4. CASE ImpEnqueueMany
  <2>1. PICK n \in 2..CqBulk : ImpStart(n)
    BY <1>4 DEF ImpEnqueueMany
  <2>2. n \in Nat
    BY CqAssumption
  <2> QED
    BY <1>0, <1>2, <2>1, <2>2
<1>5. CASE ImpCheckLimit
  BY <1>0, <1>5 DEF ImpCheckLimit, ImpFails, IpCalls, ImpGoes, With, SharedByConsumers, counts
<1>6. CASE StoreKey
  BY <1>0, <1>6 DEF StoreKey, IpCalls, ImpGoes, With, SharedByConsumers, counts
<1>7. CASE StoreIndexTail
  BY <1>0, <1>7 DEF StoreIndexTail, IpCalls, ImpGoes, With, SharedByConsumers, counts
<1>8. CASE GrowImpIndex
  BY <1>0, <1>8 DEF GrowImpIndex, IpCalls, SharedByConsumers, counts
<1>9. CASE ImpNoIndex
  BY <1>0, <1>9 DEF ImpNoIndex, ImpFails, IpCalls, ImpGoes, With, SharedByConsumers, counts
<1>10. CASE ImpRequisition
  <2>1. PICK b \in BlockChoices : TakeBlock(b)
    BY <1>10 DEF ImpRequisition
  <2>2. "call" \in DOMAIN ip' /\ DOMAIN ip'.call = DOMAIN ip.call /\ ip'.call.n = ip.call.n
    BY <2>1 DEF TakeBlock, IpCalls
  <2> QED
    BY <1>0, <1>10, <2>2 DEF ImpRequisition, IpCalls, SharedByConsumers, counts
<1>11. CASE ImpNoBlock
  BY <1>0, <1>11 DEF ImpNoBlock, ImpFails, IpCalls, ImpGoes, With, SharedByConsumers, counts
<1>12. CASE ImpUndoEntry
  BY <1>0, <1>12 DEF ImpUndoEntry, IpCalls, ImpGoes, With, SharedByConsumers, counts
<1>13. CASE ImpUndone
  BY <1>0, <1>13 DEF ImpUndone, IpCalls, IpIdle, SharedByConsumers, counts
<1>14. CASE ImpConstruct
  BY <1>0, <1>14 DEF ImpConstruct, IpCalls, ImpGoes, With, SharedByConsumers, counts
<1>15. CASE ImpStoreTail
  BY <1>0, <1>15 DEF ImpStoreTail, IpCalls, ImpGoes, With, IpIdle, SharedByConsumers, counts
<1> QED
  BY <1>3, <1>4, <1>5, <1>6, <1>7, <1>8, <1>9, <1>10, <1>11, <1>12, <1>13, <1>14, <1>15
     DEF ImpProducerStep

\* A consumer of an implicit producer looks for its next block.
LEMMA ImpGoesOnKeeps ==
  ASSUME CountInv, NEW c \in CqConsumers, ImpGoesOn(c), X(c).pc \notin ClaimPcs,
         UNCHANGED <<headIndex, tailIndex, dequeueOptimisticCount, dequeueOvercommit>>
  PROVE  CountInv'
<1> DEFINE taken == Cardinality(Part(c))
           first == X(c).first + taken
           n == X(c).n - taken
           slot == (X(c).slot + 1) % ixs[X(c).hdr].capacity
<1>1. Proceeds(c, IF taken = X(c).n THEN Idle
                  ELSE [pc |-> "take", first |-> first, n |-> n, slot |-> slot, block |-> NoBlock])
  BY DEF ImpGoesOn
<1> HIDE DEF taken, first, n, slot
<1>2. CASE taken = X(c).n
  <2>1. Proceeds(c, Idle)
    BY <1>1, <1>2
  <2>2. "pc" \in DOMAIN Idle /\ Idle["pc"] = "idle"
    BY DEF Idle
  <2> QED
    BY <2>1, <2>2, LaterStep DEF ClaimPcs
<1>3. CASE taken # X(c).n
  <2>1. Proceeds(c, [pc |-> "take", first |-> first, n |-> n, slot |-> slot, block |-> NoBlock])
    BY <1>1, <1>3
  <2> QED
    BY <2>1, LaterStep DEF ClaimPcs
<1> QED
  BY <1>2, <1>3

\* Every step of a consumer of an implicit producer keeps the invariant.
LEMMA ImpConsumerStepKeeps ==
  ASSUME CountInv, NEW c \in CqConsumers, ImpConsumerStep(c)
  PROVE  CountInv'
<1>1. CASE ClaimStep(c)
  BY <1>1, ClaimStepKeeps
<1>2. CASE ImpLoadIndex(c)
  <2>1. Proceeds(c, [pc |-> "tail", hdr |-> Len(ixs)])
    BY <1>2 DEF ImpLoadIndex
  <2>2. UNCHANGED <<headIndex, tailIndex, dequeueOptimisticCount, dequeueOvercommit>> /\ X(c).pc = "index"
    BY <1>2 DEF ImpLoadIndex, SharedByProducer, counts, AtPc
  <2> QED
    BY <2>1, <2>2, LaterStep DEF ClaimPcs
<1>3. CASE ImpLoadTail(c)
  <2>1. Proceeds(c, [pc |-> "key", front |-> ixs[X(c).hdr].tail])
    BY <1>3 DEF ImpLoadTail
  <2>2. UNCHANGED <<headIndex, tailIndex, dequeueOptimisticCount, dequeueOvercommit>> /\ X(c).pc = "tail"
    BY <1>3 DEF ImpLoadTail, SharedByProducer, counts, AtPc
  <2> QED
    BY <2>1, <2>2, LaterStep DEF ClaimPcs
<1>4. CASE ImpLoadKey(c)
  <2> DEFINE h == ixs[X(c).hdr]
             s == PositionOf(h, X(c).first, X(c).front, ents[h.index[X(c).front]].key)
  <2>1. Proceeds(c, [pc |-> "take", front |-> 0, slot |-> s])
    BY <1>4 DEF ImpLoadKey
  <2>2. UNCHANGED <<headIndex, tailIndex, dequeueOptimisticCount, dequeueOvercommit>> /\ X(c).pc = "key"
    BY <1>4 DEF ImpLoadKey, SharedByProducer, counts, AtPc
  <2> HIDE DEF h, s
  <2> QED
    BY <2>1, <2>2, LaterStep DEF ClaimPcs
<1>5. CASE ImpTake(c)
  <2>1. Proceeds(c, [pc |-> "count", block |-> ents[ImpEntry(c)].value])
    BY <1>5 DEF ImpTake
  <2>2. UNCHANGED <<headIndex, tailIndex, dequeueOptimisticCount, dequeueOvercommit>> /\ X(c).pc = "take"
    BY <1>5 DEF ImpTake, SharedByProducer, counts, AtPc
  <2> QED
    BY <2>1, <2>2, LaterStep DEF ClaimPcs
<1>6. CASE ImpSetEmpty(c)
  <2>1. Proceeds(c, [pc |-> "forget"]) \/ ImpGoesOn(c)
    BY <1>6 DEF ImpSetEmpty
  <2>2. UNCHANGED <<headIndex, tailIndex, dequeueOptimisticCount, dequeueOvercommit>> /\ X(c).pc = "count"
    BY <1>6 DEF ImpSetEmpty, SharedByProducer, counts, AtPc
  <2>3. CASE Proceeds(c, [pc |-> "forget"])
    BY <2>2, <2>3, LaterStep DEF ClaimPcs
  <2>4. CASE ImpGoesOn(c)
    BY <2>2, <2>4, ImpGoesOnKeeps DEF ClaimPcs
  <2> QED
    BY <2>1, <2>3, <2>4
<1>7. CASE ImpForget(c)
  <2>1. Proceeds(c, [pc |-> "return"])
    BY <1>7 DEF ImpForget
  <2>2. UNCHANGED <<headIndex, tailIndex, dequeueOptimisticCount, dequeueOvercommit>> /\ X(c).pc = "forget"
    BY <1>7 DEF ImpForget, SharedByProducer, counts, AtPc
  <2> QED
    BY <2>1, <2>2, LaterStep DEF ClaimPcs
<1>8. CASE ImpReturn(c)
  <2>1. UNCHANGED <<headIndex, tailIndex, dequeueOptimisticCount, dequeueOvercommit>> /\ X(c).pc = "return"
    BY <1>8 DEF ImpReturn, SharedByProducer, counts, AtPc
  <2>2. ImpGoesOn(c)
    BY <1>8 DEF ImpReturn
  <2> QED
    BY <2>1, <2>2, ImpGoesOnKeeps DEF ClaimPcs
<1> QED
  BY <1>1, <1>2, <1>3, <1>4, <1>5, <1>6, <1>7, <1>8 DEF ImpConsumerStep

\* Nothing is claimed at first.
LEMMA CountInit == CqInit => CountInv /\ PrCalls
<1> SUFFICES ASSUME CqInit PROVE CountInv /\ PrCalls
  OBVIOUS
<1>1. \A c \in CqConsumers : X(c).pc = "idle"
  BY DEF CqInit, X, Idle
<1>2. CqShape
  BY DEF CqInit, CqShape, CqFields, Idle
<1>3. CqKinds
  BY <1>1, <1>2 DEF CqInit, CqKinds, CqNumbers, CallKinds
<1>4. WeightsTyped
  BY <1>3, WeightKinds
<1>5. Total(AllGranted) = 0 /\ Total(AllRefused) = 0 /\ Total(AllUndecided) = 0 /\ Total(AllEarlier(0)) = 0
  <2>1. \A c \in CqConsumers : /\ AllGranted[c] = 0 /\ AllRefused[c] = 0 /\ AllUndecided[c] = 0
                               /\ AllEarlier(0)[c] = 0
    BY <1>1 DEF AllGranted, AllRefused, AllUndecided, AllEarlier, Granted, Refused, Undecided, EarlierUndecided
  <2>2. /\ AllGranted \in [CqConsumers -> Nat] /\ AllRefused \in [CqConsumers -> Nat]
        /\ AllUndecided \in [CqConsumers -> Nat] /\ AllEarlier(0) \in [CqConsumers -> Nat]
    BY <1>4 DEF WeightsTyped
  <2> QED
    BY <2>1, <2>2, TotalZero
<1>6. CountsAdd /\ Within(0) /\ ClaimsApart
  BY <1>1, <1>5 DEF CqInit, CountsAdd, Within, ClaimsApart, AtPc
<1>7. \A c \in CqConsumers : LoadedOvercommit(X(c)) /\ ClaimedBefore(X(c))
  BY <1>1 DEF LoadedOvercommit, ClaimedBefore
<1>8. PrCalls
  BY DEF CqInit, PrCalls, PrIdle
<1>9. 0 \in Nat /\ 0 <= dequeueOptimisticCount
  BY DEF CqInit
<1> QED
  BY <1>3, <1>6, <1>7, <1>8, <1>9 DEF CountInv

\* The invariant is about the variables of the queue.
LEMMA CountsUnchanged == CountInv /\ UNCHANGED cqVars => CountInv'
<1> SUFFICES ASSUME CountInv, UNCHANGED cqVars PROVE CountInv'
  OBVIOUS
<1>1. UNCHANGED <<tailIndex, headIndex, dequeueOptimisticCount, dequeueOvercommit, deq>>
  BY DEF cqVars
<1>2. tailIndex \in Nat
  BY DEF CountInv, CqKinds, CqNumbers
<1> QED
  BY <1>1, <1>2, TailStep

\* ExplicitProducer: the counters of dequeue and dequeue_bulk keep their inductive
\* invariant, whatever the producer does with its blocks and its index.
THEOREM CountInvariance == CqSpec => [](CountInv /\ PrCalls)
<1>1. CqInit => CountInv /\ PrCalls
  BY CountInit
<1>2. CountInv /\ PrCalls /\ [CqNext]_cqVars => (CountInv /\ PrCalls)'
  <2> SUFFICES ASSUME CountInv, PrCalls, [CqNext]_cqVars PROVE CountInv' /\ PrCalls'
    OBVIOUS
  <2>1. CqNumbers
    BY DEF CountInv, CqKinds
  <2>2. CASE ProducerStep
    BY <2>1, <2>2, ProducerCalls, TailStep
  <2>3. ASSUME NEW c \in CqConsumers, ConsumerStep(c) PROVE CountInv' /\ PrCalls'
    <3>1. UNCHANGED pr
      BY <2>3 DEF ConsumerStep, ClaimStep, DequeueOne, DequeueMany, CallDequeue, LoadOvercommit,
        LoadOptimistic, ClaimCount, Recheck, AddOvercommit, ClaimIndex, LoadIndex, LoadFront, FindSlot,
        MoveOut, SetEmpty, SharedByProducer
    <3>2. PrCalls'
      BY <3>1 DEF PrCalls
    <3> QED
      BY <2>3, <3>2, ConsumerStepKeeps
  <2>4. CASE UNCHANGED cqVars
    BY <2>4, CountsUnchanged DEF cqVars, PrCalls
  <2> QED
    BY <2>2, <2>3, <2>4 DEF CqNext
<1> QED
  BY <1>1, <1>2, PTL DEF CqSpec

\* The invariant says that the counters agree.
LEMMA CountInvAgrees == CountInv => CountsAgree
<1> SUFFICES ASSUME CountInv PROVE CountsAgree
  OBVIOUS
<1>1. CqKinds /\ CqNumbers /\ WeightsTyped
  BY WeightKinds DEF CountInv, CqKinds
<1>2. PICK b \in Nat : Within(b)
  BY DEF CountInv
<1>3. /\ Total(AllGranted) \in Nat /\ Total(AllRefused) \in Nat /\ Total(AllUndecided) \in Nat
      /\ Total(AllEarlier(b)) \in Nat
  BY <1>1, CellsFinite, CqAssumption DEF WeightsTyped
<1>4. HeadWithinTail
  BY <1>1, <1>2, <1>3 DEF HeadWithinTail, Within, CqNumbers
<1>5. CountsSettle
  <2> SUFFICES ASSUME Quiescent PROVE dequeueOptimisticCount - dequeueOvercommit = headIndex
    BY DEF CountsSettle
  <2>1. \A c \in CqConsumers : AllGranted[c] = 0 /\ AllRefused[c] = 0 /\ AllUndecided[c] = 0
    BY DEF Quiescent, AtPc, AllGranted, AllRefused, AllUndecided, Granted, Refused, Undecided
  <2>2. Total(AllGranted) = 0 /\ Total(AllRefused) = 0 /\ Total(AllUndecided) = 0
    BY <1>1, <2>1, TotalZero DEF WeightsTyped
  <2> QED
    BY <1>1, <2>2 DEF CountInv, CountsAdd, CqNumbers
<1> QED
  BY <1>4, <1>5 DEF CountsAgree

\* ExplicitProducer: dequeueOptimisticCount and dequeueOvercommit never let the
\* head pass the tail, and agree with the head again when no dequeue is under
\* way; for any number of consumers, items in a bulk and overlapping calls.
THEOREM CountsAgreeHolds == CqSpec => []CountsAgree
  BY CountInvariance, CountInvAgrees, PTL

\* ImplicitProducer: the same counters, the same promise, without a token.
THEOREM ImpCountsAgreeHolds == ImpSpec => []CountsAgree
<1>1. ImpInit => CountInv /\ IpCalls
  BY CountInit DEF ImpInit, IpCalls, IpIdle
<1>2. CountInv /\ IpCalls /\ [ImpNext]_<<cqVars, impVars>> => (CountInv /\ IpCalls)'
  <2> SUFFICES ASSUME CountInv, IpCalls, [ImpNext]_<<cqVars, impVars>> PROVE CountInv' /\ IpCalls'
    OBVIOUS
  <2>1. CqNumbers
    BY DEF CountInv, CqKinds
  <2>2. CASE ImpProducerStep
    BY <2>1, <2>2, ImpProducerCalls, TailStep
  <2>3. ASSUME NEW c \in CqConsumers, ImpConsumerStep(c) PROVE CountInv' /\ IpCalls'
    <3>1. UNCHANGED ip
      BY <2>3 DEF ImpConsumerStep, ImpLoadIndex, ImpLoadTail, ImpLoadKey, ImpTake, ImpSetEmpty, ImpForget,
        ImpReturn, impVars
    <3>2. IpCalls'
      BY <3>1 DEF IpCalls
    <3> QED
      BY <2>3, <3>2, ImpConsumerStepKeeps
  <2>4. CASE UNCHANGED <<cqVars, impVars>>
    BY <2>4, CountsUnchanged DEF impVars, IpCalls
  <2> QED
    BY <2>2, <2>3, <2>4 DEF ImpNext
<1> QED
  BY <1>1, <1>2, CountInvAgrees, PTL DEF ImpSpec


-----------------------------------------------------------------------------
(* Dequeues over the list of producers                                     *)

\* The locals of a call, and the members of a token.
CallFields == {"kind", "pc", "max", "count", "ptr", "best", "size", "nonEmpty", "tail", "due", "tried"}
TokenFields == {"initialOffset", "lastKnown", "consumed", "current", "desired"}

\* p is a producer of the list s.
Linked(p, s) == \E i \in 1..Len(s) : s[i] = p

\* What the call has to try and has not is at ptr or after it.
Ahead(x, s, a) ==
  /\ a \in 1..Len(s) /\ s[a] = x.ptr
  /\ \A d \in x.due : d \in x.tried \/ \E i \in a..Len(s) : s[i] = d

\* from the current producer of the token (at a) round to ptr (at b), by way of
\* the tail (at t), everything was tried, and nothing due is before the tail
RoundTo(x, k, s, a, b, t) ==
  /\ a \in 1..Len(s) /\ b \in 1..Len(s) /\ t \in 1..Len(s) /\ t <= a /\ t <= b
  /\ s[a] = k.current /\ s[b] = x.ptr /\ s[t] = x.tail
  /\ \A d \in x.due : d \in x.tried \/ \E i \in t..Len(s) : s[i] = d
  /\ \A i \in t..Len(s) :
       (IF a < b THEN a <= i /\ i < b ELSE a <= i \/ i < b) => s[i] \in x.tried

\* The locals have their types; a call that is not over has not all it asked for,
\* and what it has to try is in the list.
TrCallKinds(x, s) ==
  /\ DOMAIN x = CallFields /\ x.count \in Nat /\ x.max \in Nat
  /\ x.pc \in {"idle", "score", "best", "walk", "rotate", "current", "next", "ret"}
  /\ x.pc \notin {"idle", "ret"} => x.count < x.max
  /\ \A d \in x.due : Linked(d, s)

\* The scan of try_dequeue: until it has met a producer with items, everything
\* before ptr was tried; then there is a best one.
Scores(x, s) ==
  x.pc = "score" =>
    /\ x.count = 0 /\ x.max = 1 /\ x.size \in Nat /\ x.nonEmpty \in Nat /\ Linked(x.ptr, s)
    /\ x.nonEmpty = 0 => x.size = 0 /\ \E a : Ahead(x, s, a)
    /\ x.nonEmpty # 0 => Linked(x.best, s)

\* The best producer is tried first, then all of them in turn but it.
Walks(x, s) ==
  /\ x.pc = "best" => x.count = 0 /\ x.max = 1 /\ Linked(x.best, s)
  /\ x.pc = "walk" => (x.best # Nobody => x.best \in x.tried) /\ \E a : Ahead(x, s, a)

\* The token's producer, and then the round from it.
Rounds(x, k, s) ==
  /\ x.pc = "current" => k.desired # Nobody
  /\ x.pc = "next" => \E a, b, t : RoundTo(x, k, s, a, b, t)

\* A call that came back short has tried all it had to.
Short(x) == x.pc = "ret" /\ x.count < x.max => x.due \subseteq x.tried

\* A call, with the token it uses.
CallOK(x, k, s) == TrCallKinds(x, s) /\ Scores(x, s) /\ Walks(x, s) /\ Rounds(x, k, s) /\ Short(x)

\* A token that was given a producer has one of the list.
TokenOK(k, s) ==
  /\ DOMAIN k = TokenFields /\ k.initialOffset \in Int /\ k.lastKnown \in Int
  /\ k.desired # Nobody => Linked(k.desired, s) /\ Linked(k.current, s)

\* The list holds a producer once; a producer is counted before it is there.
ListOK ==
  /\ list \in Seq(TrProducers) /\ \A i, j \in 1..Len(list) : list[i] = list[j] => i = j
  /\ adding \subseteq TrProducers /\ \A i \in 1..Len(list) : list[i] \notin adding
  /\ producerCount \in Nat /\ (list # <<>> \/ adding # {} => producerCount > 0)

\* The other variables have their types.
TrKinds ==
  /\ items \in [TrProducers -> Nat] /\ globalOffset \in Int
  /\ DOMAIN token = TrConsumers /\ DOMAIN call = TrConsumers
  /\ \A c \in TrConsumers : DOMAIN call[c] = {"calls", "x"}

\* Every call and every token is in order.
CallsOK == \A c \in TrConsumers : TokenOK(T(c), list) /\ CallOK(L(c), T(c), list)

\* The inductive invariant.
TrIInv == ListOK /\ TrKinds /\ CallsOK

-----------------------------------------------------------------------------
\* The smaller and the larger of two numbers.
LEMMA SmallerOf ==
  ASSUME NEW a \in Int, NEW b \in Int
  PROVE  Min({a, b}) = IF a <= b THEN a ELSE b
<1> DEFINE S == {a, b}
           m == IF a <= b THEN a ELSE b
<1>1. m \in S /\ \A y \in S : m <= y
  OBVIOUS
<1>2. \A z : z \in S /\ (\A y \in S : z <= y) => z = m
  OBVIOUS
<1>3. Min(S) \in S /\ \A y \in S : Min(S) <= y
  <2> HIDE DEF S, m
  <2> QED
    BY <1>1 DEF Min
<1> QED
  BY <1>2, <1>3

\* The same for the larger one.
LEMMA LargerOf ==
  ASSUME NEW a \in Int, NEW b \in Int
  PROVE  Max({a, b}) = IF a >= b THEN a ELSE b
<1> DEFINE S == {a, b}
           m == IF a >= b THEN a ELSE b
<1>1. m \in S /\ \A y \in S : m >= y
  OBVIOUS
<1>2. \A z : z \in S /\ (\A y \in S : z >= y) => z = m
  OBVIOUS
<1>3. Max(S) \in S /\ \A y \in S : Max(S) >= y
  <2> HIDE DEF S, m
  <2> QED
    BY <1>1 DEF Max
<1> QED
  BY <1>2, <1>3

\* What the list gives: producers, never Nobody, and its tail.
LEMMA ProducersOfList ==
  ASSUME ListOK
  PROVE  /\ Len(list) \in Nat /\ DOMAIN list = 1..Len(list)
         /\ \A i \in 1..Len(list) : list[i] \in TrProducers /\ list[i] # Nobody
         /\ \A p : p \in InList <=> Linked(p, list)
         /\ list = <<>> <=> Len(list) = 0
         /\ ListTail = IF Len(list) = 0 THEN Nobody ELSE list[1]
         /\ Nobody \notin TrProducers
         /\ ListTail = Nobody <=> Len(list) = 0
         /\ Len(list) # 0 => 1 \in 1..Len(list) /\ Len(list) \in 1..Len(list)
<1>1. list \in Seq(TrProducers)
  BY DEF ListOK
<1>2. Len(list) \in Nat /\ DOMAIN list = 1..Len(list) /\ \A i \in 1..Len(list) : list[i] \in TrProducers
  BY <1>1
<1>3. Nobody \notin TrProducers
  BY TrAssumption DEF Nobody
<1>4. list = <<>> <=> Len(list) = 0
  BY <1>1
<1>5. \A p : p \in InList <=> Linked(p, list)
  BY <1>2 DEF InList, Linked
<1>6. ListTail = IF Len(list) = 0 THEN Nobody ELSE list[1]
  BY <1>4 DEF ListTail
<1>7. \A i \in 1..Len(list) : list[i] \in TrProducers /\ list[i] # Nobody
  BY <1>2, <1>3
<1>8. Len(list) # 0 => 1 \in 1..Len(list) /\ Len(list) \in 1..Len(list)
  BY <1>2
<1>9. ListTail = Nobody <=> Len(list) = 0
  BY <1>6, <1>7, <1>8
<1> QED
  BY <1>2, <1>3, <1>4, <1>5, <1>6, <1>7, <1>8, <1>9

\* A producer has one position, and the next one is next to it.
LEMMA NextProdIs ==
  ASSUME ListOK, NEW i \in 1..Len(list)
  PROVE  /\ Position(list[i]) = i
         /\ NextProd(list[i]) = IF i = Len(list) THEN Nobody ELSE list[i + 1]
         /\ i # Len(list) => i + 1 \in 1..Len(list)
<1>1. Len(list) \in Nat /\ DOMAIN list = 1..Len(list)
  BY ProducersOfList
<1>2. \A j \in DOMAIN list : list[j] = list[i] => j = i
  BY <1>1 DEF ListOK
<1>a. i \in DOMAIN list
  BY <1>1
<1>3. Position(list[i]) \in DOMAIN list /\ list[Position(list[i])] = list[i]
  BY <1>a DEF Position
<1>4. Position(list[i]) = i
  BY <1>2, <1>3
<1>5. NextProd(list[i]) = IF i = Len(list) THEN Nobody ELSE list[i + 1]
  BY <1>4 DEF NextProd
<1>6. i # Len(list) => i + 1 \in 1..Len(list)
  <2>1. PICK n \in Nat : n = Len(list)
    BY <1>1
  <2> QED
    BY <2>1
<1> QED
  BY <1>4, <1>5, <1>6

\* From the end of the list the round goes on at its tail.
LEMMA OnwardIs ==
  ASSUME ListOK, NEW i \in 1..Len(list), NEW tail
  PROVE  Onward(list[i], tail) = IF i = Len(list) THEN tail ELSE list[i + 1]
<1>1. NextProd(list[i]) = IF i = Len(list) THEN Nobody ELSE list[i + 1]
  BY NextProdIs
<1>a. i # Len(list) => i + 1 \in 1..Len(list)
  BY NextProdIs
<1>2. i # Len(list) => list[i + 1] # Nobody
  BY <1>a, ProducersOfList
<1> QED
  BY <1>1, <1>2 DEF Onward, Wrapped

\* Steps along the list stay in it.
LEMMA AlongIsLinked ==
  ASSUME ListOK, NEW p, Linked(p, list), NEW k \in Int
  PROVE  Linked(Along(p, k), list)
<1>1. PICK i \in 1..Len(list) : list[i] = p
  BY DEF Linked
<1>a. Position(list[i]) = i
  BY NextProdIs
<1>2. Len(list) \in Nat /\ Len(list) # 0 /\ Position(p) = i
  BY <1>1, <1>a, ProducersOfList
<1>4. PICK n \in Nat \ {0} : n = Len(list)
  BY <1>2
<1>5. PICK m \in Int : m = Position(p) - 1 + k
  BY <1>2
<1>6. m % n \in 0..(n - 1)
  OBVIOUS
<1>7. PICK r \in 0..(n - 1) : r = m % n
  BY <1>6
<1>8. 1 + r \in 1..Len(list)
  BY <1>4
<1> QED
  BY <1>4, <1>5, <1>7, <1>8 DEF Along, Linked

\* dequeue of a producer: a call that stays short has tried it
LEMMA TakenIs ==
  ASSUME items \in [TrProducers -> Nat], NEW c, NEW p \in TrProducers, NEW x, x = L(c),
         DOMAIN x = CallFields, x.count \in Nat, x.max \in Nat, x.count <= x.max,
         NEW n \in Taken(c, p)
  PROVE  /\ n \in Nat
         /\ DOMAIN After(x, p, n) = CallFields
         /\ After(x, p, n).count \in Nat /\ After(x, p, n).count <= x.max
         /\ x.tried \subseteq After(x, p, n).tried
         /\ After(x, p, n).count < x.max => p \in After(x, p, n).tried
         /\ \A f \in CallFields \ {"count", "tried"} : After(x, p, n)[f] = x[f]
         /\ [items EXCEPT ![p] = @ - n] \in [TrProducers -> Nat]
<1> DEFINE y == After(x, p, n)
           m == items[p]
           k == Min({m, x.max - x.count})
<1>1. m \in Nat /\ x.max - x.count \in Nat
  OBVIOUS
<1>2. k = IF m <= x.max - x.count THEN m ELSE x.max - x.count
  BY <1>1, SmallerOf
<1>3. n \in 0..k
  BY DEF Taken, Visible
<1>4. /\ DOMAIN y = CallFields /\ y.count = x.count + n
      /\ y.tried = IF x.count + n < x.max THEN x.tried \cup {p} ELSE x.tried
  BY DEF After, CallFields
<1>5. \A f \in CallFields \ {"count", "tried"} : y[f] = x[f]
  BY DEF After, CallFields
<1> HIDE DEF m, k, y
<1>6. n \in Nat /\ y.count \in Nat /\ y.count <= x.max /\ m - n \in Nat
  BY <1>1, <1>2, <1>3, <1>4
<1>7. [items EXCEPT ![p] = @ - n] \in [TrProducers -> Nat]
  BY <1>6 DEF m
<1> QED
  BY <1>4, <1>5, <1>6, <1>7 DEF y

\* The constructors of the tokens: their offsets are numbers.
LEMMA InitialOffsets ==
  ASSUME TrInit, NEW c \in TrConsumers
  PROVE  /\ DOMAIN token = TrConsumers /\ DOMAIN token[c] = TokenFields
         /\ token[c].initialOffset \in Int /\ token[c].lastKnown \in Int /\ token[c].desired = Nobody
<1> DEFINE n == Cardinality(TrConsumers)
           Ids == [TrConsumers -> 0..(n - 1)]
           Apart(f) == \A d, e \in TrConsumers : f[d] = f[e] => d = e
           id == CHOOSE f \in Ids : Apart(f)
<1>1. IsFiniteSet(TrConsumers) /\ Offsets \in Nat
  BY TrAssumption
<1>2. n \in Nat /\ ExistsBijection(1..n, TrConsumers)
  BY <1>1, FS_CardinalityType
<1>3. PICK g \in Bijection(1..n, TrConsumers) : TRUE
  BY <1>2 DEF ExistsBijection
<1>4. g \in [1..n -> TrConsumers] /\ \A d \in TrConsumers : \E i \in 1..n : g[i] = d
  BY <1>3 DEF Bijection, Surjection
<1>5. \E f \in Ids : Apart(f)
  <2> DEFINE at(d) == CHOOSE i \in 1..n : g[i] = d
             f == [d \in TrConsumers |-> at(d) - 1]
  <2>1. \A d \in TrConsumers : at(d) \in 1..n /\ g[at(d)] = d
    BY <1>4
  <2> HIDE DEF at
  <2>2. \A d \in TrConsumers : at(d) - 1 \in 0..(n - 1)
    BY <1>2, <2>1
  <2>3. f \in Ids
    BY <2>2
  <2>4. \A d, e \in TrConsumers : at(d) - 1 = at(e) - 1 => d = e
    <3> SUFFICES ASSUME NEW d \in TrConsumers, NEW e \in TrConsumers, at(d) - 1 = at(e) - 1
                 PROVE  d = e
      OBVIOUS
    <3>1. at(d) = at(e)
      BY <1>2, <2>1
    <3> QED
      BY <2>1, <3>1
  <2>5. Apart(f)
    BY <2>4
  <2> QED
    BY <2>3, <2>5
<1>6. id \in Ids
  <2> HIDE DEF Ids, Apart
  <2> QED
    BY <1>5
<1>7. token = [d \in TrConsumers |-> [initialOffset |-> id[d], lastKnown |-> Offsets - 1,
                                       consumed |-> 0, current |-> Nobody, desired |-> Nobody]]
  BY DEF TrInit
<1> HIDE DEF id
<1>8. id[c] \in Int /\ Offsets - 1 \in Int
  BY <1>1, <1>2, <1>6
<1>9. token[c] = [initialOffset |-> id[c], lastKnown |-> Offsets - 1, consumed |-> 0,
                  current |-> Nobody, desired |-> Nobody]
  BY <1>7
<1>10. DOMAIN token[c] = TokenFields
  BY <1>9 DEF TokenFields
<1>11. DOMAIN token = TrConsumers
  BY <1>7
<1> QED
  BY <1>8, <1>9, <1>10, <1>11

-----------------------------------------------------------------------------
\* Consumer c goes on with the call x and the token k, and the list is the same.
Moves(c, x, k) ==
  /\ DOMAIN call' = TrConsumers /\ DOMAIN token' = TrConsumers
  /\ DOMAIN call'[c] = {"calls", "x"} /\ call'[c].x = x /\ token'[c] = k
  /\ \A d \in TrConsumers : d # c => call'[d] = call[d] /\ token'[d] = token[d]
  /\ UNCHANGED Fixed
  /\ items' \in [TrProducers -> Nat] /\ globalOffset' \in Int

\* A step of one consumer keeps the invariant if its call and token are in order.
LEMMA MovesKeep ==
  ASSUME TrIInv, NEW c \in TrConsumers, NEW STATE x, NEW STATE k, Moves(c, x, k),
         TokenOK(k, list), CallOK(x, k, list)
  PROVE  TrIInv'
<1>1. list' = list /\ adding' = adding /\ producerCount' = producerCount
  BY DEF Moves, Fixed
<1>2. ListOK'
  BY <1>1 DEF TrIInv, ListOK
<1>3. TrKinds'
  BY DEF TrIInv, TrKinds, Moves
<1>4. \A d \in TrConsumers : TokenOK(token'[d], list) /\ CallOK(call'[d].x, token'[d], list)
  BY DEF TrIInv, CallsOK, T, L, Moves
<1>5. CallsOK'
  BY <1>1, <1>4 DEF CallsOK, T, L
<1> QED
  BY <1>2, <1>3, <1>5 DEF TrIInv

\* The same, for the values that the step gave them.
LEMMA StepKeeps ==
  ASSUME TrIInv, NEW c \in TrConsumers,
         DOMAIN call' = TrConsumers, DOMAIN token' = TrConsumers, DOMAIN call'[c] = {"calls", "x"},
         \A d \in TrConsumers : d # c => call'[d] = call[d],
         \A d \in TrConsumers : d # c => token'[d] = token[d],
         UNCHANGED Fixed, items' \in [TrProducers -> Nat], globalOffset' \in Int,
         TokenOK(token'[c], list), CallOK(call'[c].x, token'[c], list)
  PROVE  TrIInv'
<1>1. list' = list /\ adding' = adding /\ producerCount' = producerCount
  BY DEF Fixed
<1>2. ListOK'
  BY <1>1 DEF TrIInv, ListOK
<1>3. TrKinds'
  BY DEF TrIInv, TrKinds
<1>4. \A d \in TrConsumers : TokenOK(token'[d], list) /\ CallOK(call'[d].x, token'[d], list)
  BY DEF TrIInv, CallsOK, T, L
<1>5. CallsOK'
  BY <1>1, <1>4 DEF CallsOK, T, L
<1> QED
  BY <1>2, <1>3, <1>5 DEF TrIInv

\* To changes the locals of one call.
LEMMA ToMoves ==
  ASSUME TrIInv, NEW c \in TrConsumers, NEW STATE x, To(c, x)
  PROVE  /\ DOMAIN call' = TrConsumers /\ DOMAIN call'[c] = {"calls", "x"} /\ call'[c].x = x
         /\ \A d \in TrConsumers : d # c => call'[d] = call[d]
  BY DEF TrIInv, TrKinds, To

\* A step that leaves the token alone.
LEMMA CallMoves ==
  ASSUME TrIInv, NEW c \in TrConsumers, NEW STATE x, To(c, x), UNCHANGED <<Fixed, globalOffset, token>>,
         items' \in [TrProducers -> Nat], CallOK(x, T(c), list)
  PROVE  TrIInv'
<1>1. TokenOK(T(c), list)
  BY DEF TrIInv, CallsOK
<1>2. Moves(c, x, T(c))
  BY ToMoves DEF TrIInv, TrKinds, Moves, T
<1> QED
  BY <1>1, <1>2, MovesKeep

\* A call may end with all it asked for, or with everything due tried.
LEMMA EndsOK ==
  ASSUME NEW x, NEW k, NEW s, DOMAIN x = CallFields, x.count \in Nat, x.max \in Nat,
         \A d \in x.due : Linked(d, s),
         x.count < x.max => x.due \subseteq x.tried
  PROVE  CallOK(Ends(x), k, s)
<1> DEFINE y == Ends(x)
<1>1. DOMAIN y = CallFields /\ y.pc = "ret"
  BY DEF Ends, CallFields
<1>2. y.count = x.count /\ y.max = x.max /\ y.due = x.due /\ y.tried = x.tried
  BY DEF Ends, CallFields
<1> HIDE DEF y
<1>3. TrCallKinds(y, s)
  BY <1>1, <1>2 DEF TrCallKinds
<1>4. Scores(y, s) /\ Walks(y, s) /\ Rounds(y, k, s)
  BY <1>1 DEF Scores, Walks, Rounds
<1>5. Short(y)
  BY <1>1, <1>2 DEF Short
<1> QED
  BY <1>3, <1>4, <1>5 DEF CallOK, y

\* A call that walks is in order with what is ahead of it.
LEMMA WalkOK ==
  ASSUME NEW y, NEW k, NEW s, TrCallKinds(y, s), y.pc = "walk",
         y.best # Nobody => y.best \in y.tried, NEW a, Ahead(y, s, a)
  PROVE  CallOK(y, k, s)
<1>1. Scores(y, s) /\ Rounds(y, k, s) /\ Short(y)
  BY DEF Scores, Rounds, Short
<1>2. Walks(y, s)
  BY DEF Walks
<1> QED
  BY <1>1, <1>2 DEF CallOK

\* A call that scores is in order with its scores.
LEMMA ScoreOK ==
  ASSUME NEW y, NEW k, NEW s, TrCallKinds(y, s), y.pc = "score", Scores(y, s)
  PROVE  CallOK(y, k, s)
<1>1. Walks(y, s) /\ Rounds(y, k, s) /\ Short(y)
  BY DEF Walks, Rounds, Short
<1> QED
  BY <1>1 DEF CallOK

\* The call begins: all of the list is due.
LEMMA BeginsKeeps ==
  ASSUME TrIInv, NEW c \in TrConsumers, NEW kind, NEW max \in Nat \ {0},
         kind = "scored" => max = 1, Begins(c, kind, max)
  PROVE  TrIInv'
<1> DEFINE x == [NoCall EXCEPT !.kind = kind, !.max = max, !.due = InList, !.ptr = ListTail]
           byToken == kind \in {"token", "token bulk"}
           first == CASE byToken /\ (T(c).desired = Nobody \/ T(c).lastKnown # globalOffset)
                         -> [x EXCEPT !.pc = "rotate"]
                    [] byToken /\ T(c).desired # Nobody /\ T(c).lastKnown = globalOffset
                         -> [x EXCEPT !.pc = "current"]
                    [] ~byToken /\ ListTail = Nobody -> Ends(x)
                    [] OTHER -> [x EXCEPT !.pc = IF kind = "scored" THEN "score" ELSE "walk"]
<1>0. ListOK
  BY DEF TrIInv
<1>1. /\ call' = [call EXCEPT ![c] = [calls |-> @.calls + 1, x |-> first]]
      /\ UNCHANGED <<Fixed, items, globalOffset, token>>
  BY DEF Begins
<1>2. DOMAIN x = CallFields /\ x.count = 0 /\ x.max = max /\ x.ptr = ListTail /\ x.best = Nobody
  BY DEF NoCall, CallFields
<1>3. x.size = 0 /\ x.nonEmpty = 0 /\ x.due = InList /\ x.tried = {}
  BY DEF NoCall, CallFields
<1> HIDE DEF x
<1>4. \A d \in x.due : Linked(d, list)
  BY <1>0, <1>3, ProducersOfList
<1>5. ASSUME NEW to, to \in {"score", "walk", "rotate", "current"}
      PROVE  LET y == [x EXCEPT !.pc = to]
             IN  /\ TrCallKinds(y, list) /\ y.pc = to /\ y.count = 0 /\ y.max = max /\ y.ptr = ListTail
                 /\ y.best = Nobody /\ y.size = 0 /\ y.nonEmpty = 0 /\ y.due = InList /\ y.tried = {}
  <2> DEFINE y == [x EXCEPT !.pc = to]
  <2>1. DOMAIN y = CallFields /\ y.pc = to /\ y.count = 0 /\ y.max = max /\ y.ptr = ListTail
    BY <1>2 DEF CallFields
  <2>2. y.best = Nobody /\ y.size = 0 /\ y.nonEmpty = 0 /\ y.due = InList /\ y.tried = {}
    BY <1>2, <1>3 DEF CallFields
  <2> HIDE DEF y
  <2>3. TrCallKinds(y, list)
    BY <1>3, <1>4, <1>5, <2>1, <2>2 DEF TrCallKinds
  <2> QED
    BY <2>1, <2>2, <2>3 DEF y
<1>6. CallOK(first, T(c), list)
  <2>1. CASE byToken /\ (T(c).desired = Nobody \/ T(c).lastKnown # globalOffset)
    <3> DEFINE y == [x EXCEPT !.pc = "rotate"]
    <3>1. first = y
      BY <2>1
    <3>2. TrCallKinds(y, list) /\ y.pc = "rotate"
      BY <1>5
    <3> HIDE DEF y, first
    <3> QED
      BY <3>1, <3>2 DEF CallOK, Scores, Walks, Rounds, Short
  <2>2. CASE byToken /\ T(c).desired # Nobody /\ T(c).lastKnown = globalOffset
    <3> DEFINE y == [x EXCEPT !.pc = "current"]
    <3>1. first = y
      BY <2>2
    <3>2. TrCallKinds(y, list) /\ y.pc = "current"
      BY <1>5
    <3> HIDE DEF y, first
    <3> QED
      BY <2>2, <3>1, <3>2 DEF CallOK, Scores, Walks, Rounds, Short
  <2>3. CASE ~byToken /\ ListTail = Nobody
    <3>1. first = Ends(x)
      BY <2>3
    <3>a. Len(list) = 0
      BY <1>0, <2>3, ProducersOfList
    <3>2. \A d \in x.due : FALSE
      BY <1>4, <3>a DEF Linked
    <3> HIDE DEF first
    <3> QED
      BY <1>2, <1>4, <3>1, <3>2, EndsOK
  <2>4. CASE ~byToken /\ ListTail # Nobody
    <3>0. /\ Len(list) \in Nat /\ 1 \in 1..Len(list) /\ list[1] = ListTail
          /\ \A p : p \in InList => \E i \in 1..Len(list) : list[i] = p
      <4>1. Len(list) \in Nat /\ Len(list) # 0 /\ list[1] = ListTail
        BY <1>0, <2>4, ProducersOfList
      <4>2. 1 \in 1..Len(list)
        BY <4>1
      <4>3. \A p : p \in InList => Linked(p, list)
        BY <1>0, ProducersOfList
      <4> QED
        BY <4>1, <4>2, <4>3 DEF Linked
    <3>1. CASE kind = "scored"
      <4> DEFINE y == [x EXCEPT !.pc = "score"]
      <4>1. first = y
        BY <2>4, <3>1
      <4>2. /\ TrCallKinds(y, list) /\ y.pc = "score" /\ y.count = 0 /\ y.max = max /\ y.ptr = ListTail
            /\ y.size = 0 /\ y.nonEmpty = 0 /\ y.due = InList
        BY <1>5
      <4> HIDE DEF y, first
      <4>3. Ahead(y, list, 1) /\ Linked(y.ptr, list)
        BY <3>0, <4>2 DEF Ahead, Linked
      <4>4. Scores(y, list)
        BY <3>1, <4>2, <4>3 DEF Scores
      <4> QED
        BY <4>1, <4>2, <4>4, ScoreOK
    <3>2. CASE kind # "scored"
      <4> DEFINE y == [x EXCEPT !.pc = "walk"]
      <4>1. first = y
        BY <2>4, <3>2
      <4>2. TrCallKinds(y, list) /\ y.pc = "walk" /\ y.ptr = ListTail /\ y.best = Nobody /\ y.due = InList
        BY <1>5
      <4> HIDE DEF y, first
      <4>3. Ahead(y, list, 1)
        BY <3>0, <4>2 DEF Ahead
      <4> QED
        BY <4>1, <4>2, <4>3, WalkOK
    <3> QED
      BY <3>1, <3>2
  <2> HIDE DEF first
  <2> QED
    BY <2>1, <2>2, <2>3, <2>4
<1> HIDE DEF first
<1>7. Moves(c, first, T(c))
  BY <1>1 DEF TrIInv, TrKinds, Moves, T
<1>8. TokenOK(T(c), list)
  BY DEF TrIInv, CallsOK
<1> QED
  BY <1>6, <1>7, <1>8, MovesKeep

\* A call that returns keeps the invariant.
LEMMA TrReturnKeeps == ASSUME TrIInv, NEW c \in TrConsumers, Return(c) PROVE TrIInv'
<1>1. CallOK(NoCall, T(c), list)
  <2>1. DOMAIN NoCall = CallFields /\ NoCall.pc = "idle" /\ NoCall.count = 0 /\ NoCall.max = 0 /\ NoCall.due = {}
    BY DEF NoCall, CallFields
  <2>2. TrCallKinds(NoCall, list)
    BY <2>1 DEF TrCallKinds
  <2> QED
    BY <2>1, <2>2 DEF CallOK, Scores, Walks, Rounds, Short
<1>2. To(c, NoCall) /\ UNCHANGED <<Fixed, globalOffset, token>> /\ items' = items
  BY DEF Return
<1>3. items' \in [TrProducers -> Nat]
  BY <1>2 DEF TrIInv, TrKinds
<1> QED
  BY <1>1, <1>2, <1>3, CallMoves

\* A producer that was tried and is empty need not be tried again.
LEMMA AheadNext ==
  ASSUME NEW x, NEW s, Len(s) \in Nat, NEW a, Ahead(x, s, a), NEW y, y.due = x.due,
         x.tried \subseteq y.tried, x.ptr \in y.tried
  PROVE  /\ a = Len(s) => y.due \subseteq y.tried
         /\ a # Len(s) /\ y.ptr = s[a + 1] => Ahead(y, s, a + 1)
<1>1. PICK n \in Nat : n = Len(s)
  OBVIOUS
<1>2. a \in 1..n /\ s[a] = x.ptr /\ \A d \in x.due : d \in x.tried \/ \E i \in a..n : s[i] = d
  BY <1>1 DEF Ahead
<1>3. \A d \in y.due : d \in y.tried \/ \E i \in (a + 1)..n : s[i] = d
  <2> SUFFICES ASSUME NEW d \in x.due, d \notin y.tried PROVE \E i \in (a + 1)..n : s[i] = d
    OBVIOUS
  <2>1. PICK i \in a..n : s[i] = d
    BY <1>2
  <2>2. i # a
    BY <1>2, <2>1
  <2>3. i \in (a + 1)..n
    BY <1>2, <2>2
  <2> QED
    BY <2>1, <2>3
<1>4. a = n => \A i \in (a + 1)..n : FALSE
  BY <1>2
<1>5. a # n => a + 1 \in 1..n
  BY <1>2
<1> QED
  BY <1>1, <1>3, <1>4, <1>5 DEF Ahead

\* What a step of c starts from.
LEMMA CallIs ==
  ASSUME TrIInv, NEW c \in TrConsumers
  PROVE  /\ ListOK /\ items \in [TrProducers -> Nat] /\ TokenOK(T(c), list) /\ CallOK(L(c), T(c), list)
         /\ TrCallKinds(L(c), list) /\ Len(list) \in Nat
         /\ \A p : Linked(p, list) => p \in TrProducers /\ p # Nobody
<1>1. /\ ListOK /\ items \in [TrProducers -> Nat] /\ TokenOK(T(c), list) /\ CallOK(L(c), T(c), list)
      /\ TrCallKinds(L(c), list)
  BY DEF TrIInv, TrKinds, CallsOK, CallOK
<1>2. Len(list) \in Nat /\ \A i \in 1..Len(list) : list[i] \in TrProducers /\ list[i] # Nobody
  BY <1>1, ProducersOfList
<1> QED
  BY <1>1, <1>2 DEF Linked

\* A step of the walk keeps the invariant.
LEMMA WalkKeeps == ASSUME TrIInv, NEW c \in TrConsumers, Walk(c) PROVE TrIInv'
<1>0. PICK n \in IF L(c).ptr = L(c).best THEN {0} ELSE Taken(c, L(c).ptr) :
        LET x == L(c)
            y == IF x.ptr = x.best THEN x ELSE After(x, x.ptr, n)
        IN  /\ Takes(x.ptr, n)
            /\ To(c, IF y.count = y.max \/ NextProd(x.ptr) = Nobody THEN Ends(y)
                     ELSE [y EXCEPT !.ptr = NextProd(x.ptr)])
  BY DEF Walk
<1> DEFINE x == L(c)
           y == IF x.ptr = x.best THEN x ELSE After(x, x.ptr, n)
           z == IF y.count = y.max \/ NextProd(x.ptr) = Nobody THEN Ends(y)
                ELSE [y EXCEPT !.ptr = NextProd(x.ptr)]
<1>1. /\ ListOK /\ items \in [TrProducers -> Nat] /\ CallOK(x, T(c), list) /\ TrCallKinds(x, list)
      /\ Len(list) \in Nat /\ \A p : Linked(p, list) => p \in TrProducers /\ p # Nobody
  BY CallIs
<1>2. /\ x.pc = "walk" /\ To(c, z) /\ UNCHANGED <<Fixed, globalOffset, token>>
      /\ n \in (IF x.ptr = x.best THEN {0} ELSE Taken(c, x.ptr))
      /\ items' = [items EXCEPT ![x.ptr] = @ - n]
  BY <1>0 DEF Walk, Takes
<1>b. x = L(c)
  OBVIOUS
<1> HIDE DEF x
<1>3. DOMAIN x = CallFields /\ x.count \in Nat /\ x.max \in Nat /\ x.count < x.max /\ \A d \in x.due : Linked(d, list)
  BY <1>1, <1>2 DEF TrCallKinds
<1>4. PICK a : Ahead(x, list, a)
  BY <1>1, <1>2 DEF CallOK, Walks
<1>5. x.best # Nobody => x.best \in x.tried
  BY <1>1, <1>2 DEF CallOK, Walks
<1>6. a \in 1..Len(list) /\ x.ptr = list[a] /\ Linked(x.ptr, list)
  BY <1>4 DEF Ahead, Linked
<1>7. x.ptr \in TrProducers /\ x.ptr # Nobody
  BY <1>1, <1>6
<1>8. /\ NextProd(x.ptr) = IF a = Len(list) THEN Nobody ELSE list[a + 1]
      /\ a # Len(list) => a + 1 \in 1..Len(list)
  BY <1>1, <1>6, NextProdIs
<1>9. /\ DOMAIN y = CallFields /\ y.count \in Nat /\ y.max = x.max /\ y.count <= y.max /\ x.tried \subseteq y.tried
      /\ (y.count < y.max => x.ptr \in y.tried) /\ y.due = x.due /\ y.best = x.best /\ y.pc = "walk"
      /\ items' \in [TrProducers -> Nat]
  <2>1. CASE x.ptr = x.best
    <3>1. n = 0 /\ items' = items
      BY <1>1, <1>2, <1>7, <2>1
    <3> QED
      BY <1>1, <1>2, <1>3, <1>5, <1>7, <2>1, <3>1
  <2>2. CASE x.ptr # x.best
    <3>1. y = After(x, x.ptr, n) /\ n \in Taken(c, x.ptr) /\ items' = [items EXCEPT ![x.ptr] = @ - n]
      BY <1>2, <2>2
    <3> HIDE DEF y
    <3>2. /\ DOMAIN y = CallFields /\ y.count \in Nat /\ y.count <= x.max /\ x.tried \subseteq y.tried
          /\ (y.count < x.max => x.ptr \in y.tried) /\ items' \in [TrProducers -> Nat]
          /\ \A f \in CallFields \ {"count", "tried"} : y[f] = x[f]
      BY <1>1, <1>3, <1>7, <1>b, <3>1, TakenIs
    <3>3. y.max = x.max /\ y.due = x.due /\ y.best = x.best /\ y.pc = x.pc
      BY <3>2 DEF CallFields
    <3> QED
      BY <1>2, <3>2, <3>3
  <2> QED
    BY <2>1, <2>2
<1> HIDE DEF y
<1>10. CallOK(z, T(c), list)
  <2>1. CASE y.count = y.max
    <3>1. z = Ends(y)
      BY <2>1
    <3> HIDE DEF z
    <3> QED
      BY <1>3, <1>9, <2>1, <3>1, EndsOK
  <2>2. CASE y.count # y.max /\ a = Len(list)
    <3>1. z = Ends(y)
      BY <1>8, <2>2
    <3>2. y.count < y.max
      BY <1>3, <1>9, <2>2
    <3>3. y.due \subseteq y.tried
      BY <1>1, <1>4, <1>9, <2>2, <3>2, AheadNext
    <3> HIDE DEF z
    <3> QED
      BY <1>3, <1>9, <3>1, <3>3, EndsOK
  <2>3. CASE y.count # y.max /\ a # Len(list)
    <3>0. list[a + 1] # Nobody
      BY <1>1, <1>8, <2>3 DEF Linked
    <3>1. z = [y EXCEPT !.ptr = list[a + 1]]
      BY <1>8, <2>3, <3>0
    <3> HIDE DEF z
    <3>2. /\ DOMAIN z = CallFields /\ z.ptr = list[a + 1] /\ z.count = y.count /\ z.max = y.max
          /\ z.due = y.due /\ z.tried = y.tried /\ z.best = y.best /\ z.pc = y.pc
      BY <1>9, <3>1 DEF CallFields
    <3>3. y.count < y.max
      BY <1>3, <1>9, <2>3
    <3>4. Ahead(z, list, a + 1)
      BY <1>1, <1>4, <1>9, <2>3, <3>2, <3>3, AheadNext
    <3>5. TrCallKinds(z, list)
      BY <1>3, <1>9, <3>2, <3>3 DEF TrCallKinds
    <3>6. z.best # Nobody => z.best \in z.tried
      BY <1>5, <1>9, <3>2
    <3> QED
      BY <1>9, <3>2, <3>4, <3>5, <3>6, WalkOK
  <2> QED
    BY <2>1, <2>2, <2>3
<1> HIDE DEF z
<1> QED
  BY <1>2, <1>9, <1>10, CallMoves DEF x

\* The dequeue from the best producer keeps the invariant: when it gets nothing
\* the producer was tried, so that the walk may leave it out.
LEMMA TryBestKeeps == ASSUME TrIInv, NEW c \in TrConsumers, TryBest(c) PROVE TrIInv'
<1>0. PICK n \in Taken(c, L(c).best) :
        /\ Takes(L(c).best, n)
        /\ LET y == After(L(c), L(c).best, n)
           IN  To(c, IF y.count = 1 THEN Ends(y) ELSE [y EXCEPT !.pc = "walk", !.ptr = ListTail])
  BY DEF TryBest
<1> DEFINE x == L(c)
           y == After(x, x.best, n)
           z == IF y.count = 1 THEN Ends(y) ELSE [y EXCEPT !.pc = "walk", !.ptr = ListTail]
<1>1. /\ ListOK /\ items \in [TrProducers -> Nat] /\ CallOK(x, T(c), list) /\ TrCallKinds(x, list)
      /\ Len(list) \in Nat /\ \A p : Linked(p, list) => p \in TrProducers /\ p # Nobody
  BY CallIs
<1>2. /\ x.pc = "best" /\ To(c, z) /\ UNCHANGED <<Fixed, globalOffset, token>>
      /\ n \in Taken(c, x.best) /\ items' = [items EXCEPT ![x.best] = @ - n]
  BY <1>0 DEF TryBest, Takes
<1>b. x = L(c)
  OBVIOUS
<1> HIDE DEF x
<1>3. DOMAIN x = CallFields /\ \A d \in x.due : Linked(d, list)
  BY <1>1, <1>2 DEF TrCallKinds
<1>4. x.count = 0 /\ x.max = 1 /\ Linked(x.best, list)
  BY <1>1, <1>2 DEF CallOK, Walks
<1>5. x.best \in TrProducers
  BY <1>1, <1>4
<1>6. /\ DOMAIN y = CallFields /\ y.count \in Nat /\ y.count <= x.max
      /\ (y.count < x.max => x.best \in y.tried) /\ items' \in [TrProducers -> Nat]
      /\ \A f \in CallFields \ {"count", "tried"} : y[f] = x[f]
  <2>1. x.count \in Nat /\ x.max \in Nat /\ x.count <= x.max
    BY <1>4
  <2> QED
    BY <1>1, <1>2, <1>3, <1>5, <1>b, <2>1, TakenIs
<1> HIDE DEF y
<1>7. y.max = 1 /\ y.due = x.due /\ y.best = x.best
  BY <1>4, <1>6 DEF CallFields
<1>8. CallOK(z, T(c), list)
  <2>1. CASE y.count = 1
    <3>1. z = Ends(y) /\ ~(y.count < y.max) /\ y.max \in Nat
      BY <1>7, <2>1
    <3> HIDE DEF z
    <3> QED
      BY <1>3, <1>6, <1>7, <3>1, EndsOK
  <2>2. CASE y.count # 1
    <3>1. z = [y EXCEPT !.pc = "walk", !.ptr = ListTail]
      BY <2>2
    <3> HIDE DEF z
    <3>2. /\ DOMAIN z = CallFields /\ z.ptr = ListTail /\ z.pc = "walk"
      BY <1>6, <3>1 DEF CallFields
    <3>3. z.count = y.count /\ z.max = y.max /\ z.due = y.due /\ z.tried = y.tried /\ z.best = y.best
      BY <1>6, <3>1 DEF CallFields
    <3>4. y.count < y.max /\ y.max \in Nat /\ x.best \in y.tried
      BY <1>4, <1>6, <1>7, <2>2
    <3>5. TrCallKinds(z, list)
      BY <1>3, <1>6, <1>7, <3>2, <3>3, <3>4 DEF TrCallKinds
    <3>6. 1 \in 1..Len(list) /\ ListTail = list[1]
      <4>1. Len(list) # 0
        BY <1>4 DEF Linked
      <4> QED
        BY <1>1, <4>1, ProducersOfList
    <3>7. Ahead(z, list, 1)
      BY <1>3, <1>7, <3>2, <3>3, <3>6 DEF Ahead, Linked
    <3>8. z.best # Nobody => z.best \in z.tried
      BY <1>7, <3>3, <3>4
    <3> QED
      BY <3>2, <3>5, <3>7, <3>8, WalkOK
  <2> QED
    BY <2>1, <2>2
<1> HIDE DEF z
<1> QED
  BY <1>2, <1>6, <1>8, CallMoves DEF x

\* A step of the scan keeps the invariant.
LEMMA ScoreKeeps == ASSUME TrIInv, NEW c \in TrConsumers, Score(c) PROVE TrIInv'
<1>0. PICK size \in Visible(c, items[L(c).ptr]) :
        LET x == L(c)
            y == [x EXCEPT !.nonEmpty = IF size > 0 THEN @ + 1 ELSE @,
                           !.best = IF size > x.size THEN x.ptr ELSE @,
                           !.size = Max({@, size}), !.ptr = NextProd(x.ptr),
                           !.tried = IF size = 0 THEN @ \cup {x.ptr} ELSE @]
        IN  To(c, CASE y.nonEmpty < 3 /\ y.ptr # Nobody -> y
                    [] ~(y.nonEmpty < 3 /\ y.ptr # Nobody) /\ y.nonEmpty > 0 -> [y EXCEPT !.pc = "best"]
                    [] OTHER -> Ends(y))
  BY DEF Score
<1> DEFINE x == L(c)
           y == [x EXCEPT !.nonEmpty = IF size > 0 THEN @ + 1 ELSE @,
                          !.best = IF size > x.size THEN x.ptr ELSE @,
                          !.size = Max({@, size}), !.ptr = NextProd(x.ptr),
                          !.tried = IF size = 0 THEN @ \cup {x.ptr} ELSE @]
           z == CASE y.nonEmpty < 3 /\ y.ptr # Nobody -> y
                  [] ~(y.nonEmpty < 3 /\ y.ptr # Nobody) /\ y.nonEmpty > 0 -> [y EXCEPT !.pc = "best"]
                  [] OTHER -> Ends(y)
<1>1. /\ ListOK /\ items \in [TrProducers -> Nat] /\ CallOK(x, T(c), list) /\ TrCallKinds(x, list)
      /\ Len(list) \in Nat /\ \A p : Linked(p, list) => p \in TrProducers /\ p # Nobody
  BY CallIs
<1>2. x.pc = "score" /\ To(c, z) /\ UNCHANGED <<Fixed, globalOffset, token>> /\ items' = items
      /\ size \in Visible(c, items[x.ptr])
  BY <1>0 DEF Score
<1> HIDE DEF x
<1>3. DOMAIN x = CallFields /\ \A d \in x.due : Linked(d, list)
  BY <1>1, <1>2 DEF TrCallKinds
<1>4. /\ x.count = 0 /\ x.max = 1 /\ x.size \in Nat /\ x.nonEmpty \in Nat /\ Linked(x.ptr, list)
      /\ x.nonEmpty = 0 => x.size = 0 /\ \E a : Ahead(x, list, a)
      /\ x.nonEmpty # 0 => Linked(x.best, list)
  BY <1>1, <1>2 DEF CallOK, Scores
<1>5. size \in Nat
  BY <1>1, <1>2, <1>4 DEF Visible
<1>6. DOMAIN y = CallFields /\ y.pc = "score" /\ y.count = 0 /\ y.max = 1 /\ y.due = x.due
  BY <1>2, <1>3, <1>4 DEF CallFields
<1>7. /\ y.nonEmpty = IF size > 0 THEN x.nonEmpty + 1 ELSE x.nonEmpty
      /\ y.best = IF size > x.size THEN x.ptr ELSE x.best
      /\ y.ptr = NextProd(x.ptr)
  BY <1>3 DEF CallFields
<1>8. y.tried = IF size = 0 THEN x.tried \cup {x.ptr} ELSE x.tried
  BY <1>3 DEF CallFields
<1>9. y.size = Max({x.size, size})
  BY <1>3 DEF CallFields
<1> HIDE DEF y
<1>10. y.size = IF x.size >= size THEN x.size ELSE size
  BY <1>4, <1>5, <1>9, LargerOf
<1>11. /\ y.nonEmpty \in Nat /\ y.size \in Nat
       /\ y.nonEmpty # 0 => Linked(y.best, list)
       /\ y.nonEmpty = 0 => x.nonEmpty = 0 /\ size = 0 /\ y.size = 0 /\ x.ptr \in y.tried
  BY <1>4, <1>5, <1>7, <1>8, <1>10
<1>12. TrCallKinds(y, list)
  BY <1>3, <1>6 DEF TrCallKinds
<1>13. PICK b \in 1..Len(list) : list[b] = x.ptr
  BY <1>4 DEF Linked
<1>14. /\ y.ptr = IF b = Len(list) THEN Nobody ELSE list[b + 1]
       /\ b # Len(list) => b + 1 \in 1..Len(list)
  BY <1>1, <1>7, <1>13, NextProdIs
<1>15. ASSUME y.nonEmpty = 0
       PROVE  /\ b = Len(list) => y.due \subseteq y.tried
              /\ b # Len(list) => Ahead(y, list, b + 1)
  <2>1. PICK a : Ahead(x, list, a)
    BY <1>4, <1>11, <1>15
  <2>2. a = b
    BY <1>1, <1>13, <2>1 DEF Ahead, ListOK
  <2>3. y.due = x.due /\ x.tried \subseteq y.tried /\ x.ptr \in y.tried
    BY <1>6, <1>8, <1>11, <1>15
  <2>4. /\ b = Len(list) => y.due \subseteq y.tried
        /\ b # Len(list) /\ y.ptr = list[b + 1] => Ahead(y, list, b + 1)
    BY <1>1, <2>1, <2>2, <2>3, AheadNext
  <2> QED
    BY <1>14, <2>4
<1>16. CallOK(z, T(c), list)
  <2>1. CASE y.nonEmpty < 3 /\ y.ptr # Nobody
    <3>1. z = y
      BY <2>1
    <3>2. b # Len(list) /\ Linked(y.ptr, list)
      BY <1>14, <2>1 DEF Linked
    <3>3. Scores(y, list)
      BY <1>6, <1>11, <1>15, <3>2 DEF Scores
    <3> HIDE DEF z
    <3> QED
      BY <1>6, <1>12, <3>1, <3>3, ScoreOK
  <2>2. CASE ~(y.nonEmpty < 3 /\ y.ptr # Nobody) /\ y.nonEmpty > 0
    <3>1. z = [y EXCEPT !.pc = "best"]
      BY <2>2
    <3> HIDE DEF z
    <3>2. /\ DOMAIN z = CallFields /\ z.pc = "best" /\ z.count = 0 /\ z.max = 1 /\ z.due = x.due
          /\ z.best = y.best
      BY <1>6, <3>1 DEF CallFields
    <3>3. TrCallKinds(z, list)
      BY <1>3, <3>2 DEF TrCallKinds
    <3>4. Linked(z.best, list)
      BY <1>11, <2>2, <3>2
    <3> QED
      BY <3>2, <3>3, <3>4 DEF CallOK, Scores, Walks, Rounds, Short
  <2>3. CASE ~(y.nonEmpty < 3 /\ y.ptr # Nobody) /\ ~(y.nonEmpty > 0)
    <3>1. z = Ends(y)
      BY <2>3
    <3>2. y.nonEmpty = 0 /\ y.ptr = Nobody
      BY <1>11, <2>3
    <3>3. b = Len(list)
      BY <1>1, <1>14, <3>2 DEF Linked
    <3>4. y.due \subseteq y.tried
      BY <1>15, <3>2, <3>3
    <3> HIDE DEF z
    <3> QED
      BY <1>3, <1>6, <3>1, <3>4, EndsOK
  <2> QED
    BY <2>1, <2>2, <2>3
<1> HIDE DEF z
<1>17. items' \in [TrProducers -> Nat]
  BY <1>1, <1>2
<1> QED
  BY <1>2, <1>16, <1>17, CallMoves DEF x

\* update_current_producer_after_rotation keeps the invariant.
LEMMA RotateKeeps == ASSUME TrIInv, NEW c \in TrConsumers, Rotate(c) PROVE TrIInv'
<1> DEFINE x == L(c)
           k == T(c)
           start == Along(ListTail, producerCount - 1 - (k.initialOffset % producerCount))
           from == IF k.desired # Nobody THEN k.desired ELSE start
           delta == ((globalOffset - k.lastKnown) % Offsets) % producerCount
           p == Along(from, delta)
           new == [k EXCEPT !.desired = p, !.current = p, !.lastKnown = globalOffset, !.consumed = 0]
           y == [x EXCEPT !.pc = "current"]
<1>1. /\ ListOK /\ items \in [TrProducers -> Nat] /\ TokenOK(k, list) /\ TrCallKinds(x, list)
      /\ Len(list) \in Nat /\ \A q : Linked(q, list) => q \in TrProducers /\ q # Nobody
  BY CallIs
<1>2. x.pc = "rotate" /\ UNCHANGED <<Fixed, items, globalOffset>>
  BY DEF Rotate
<1>a. globalOffset \in Int /\ DOMAIN token = TrConsumers
  BY DEF TrIInv, TrKinds
<1>3. /\ DOMAIN x = CallFields /\ x.count \in Nat /\ x.max \in Nat /\ x.count < x.max
      /\ \A d \in x.due : Linked(d, list)
  BY <1>1, <1>2 DEF TrCallKinds
<1>4. CASE k.desired = Nobody /\ ListTail = Nobody
  <2>1. To(c, Ends(x)) /\ UNCHANGED token
    BY <1>4 DEF Rotate
  <2>2. Len(list) = 0
    BY <1>1, <1>4, ProducersOfList
  <2>3. \A d \in x.due : FALSE
    BY <1>3, <2>2 DEF Linked
  <2>4. CallOK(Ends(x), k, list)
    BY <1>3, <2>3, EndsOK
  <2> QED
    BY <1>1, <1>2, <2>1, <2>4, CallMoves
<1>5. CASE ~(k.desired = Nobody /\ ListTail = Nobody)
  <2>1. To(c, y) /\ token' = [token EXCEPT ![c] = new]
    BY <1>5 DEF Rotate, T
  <2>2. Linked(from, list) /\ producerCount \in Nat \ {0}
    <3>1. CASE k.desired # Nobody
      <4>1. Linked(k.desired, list)
        BY <1>1, <3>1 DEF TokenOK
      <4>2. Len(list) # 0
        BY <4>1 DEF Linked
      <4>3. producerCount \in Nat \ {0}
        BY <1>1, <4>2, ProducersOfList DEF ListOK
      <4> QED
        BY <3>1, <4>1, <4>3
    <3>2. CASE k.desired = Nobody
      <4>1. Len(list) # 0 /\ 1 \in 1..Len(list) /\ ListTail = list[1]
        BY <1>1, <1>5, <3>2, ProducersOfList
      <4>2. Linked(ListTail, list)
        BY <4>1 DEF Linked
      <4>3. producerCount \in Nat \ {0}
        BY <1>1, <4>1, ProducersOfList DEF ListOK
      <4>4. producerCount - 1 - (k.initialOffset % producerCount) \in Int
        <5>1. k.initialOffset \in Int
          BY <1>1 DEF TokenOK
        <5> QED
          BY <4>3, <5>1
      <4>5. Linked(start, list)
        BY <1>1, <4>2, <4>4, AlongIsLinked
      <4> QED
        BY <3>2, <4>3, <4>5
    <3> QED
      BY <3>1, <3>2
  <2>3. delta \in Int
    <3>1. k.lastKnown \in Int /\ Offsets \in Nat \ {0}
      BY <1>1, TrAssumption DEF TokenOK
    <3>2. PICK m \in Int : m = globalOffset - k.lastKnown
      BY <1>a, <3>1
    <3>3. PICK r \in Int : r = m % Offsets
      BY <3>1
    <3>4. r % producerCount \in Int
      BY <2>2
    <3> QED
      BY <3>2, <3>3, <3>4
  <2> HIDE DEF from, delta
  <2>4. Linked(p, list)
    BY <1>1, <2>2, <2>3, AlongIsLinked
  <2> HIDE DEF p
  <2>5. TokenOK(new, list) /\ new.desired = p
    <3>1. DOMAIN k = TokenFields /\ k.initialOffset \in Int
      BY <1>1 DEF TokenOK
    <3>2. /\ DOMAIN new = TokenFields /\ new.desired = p /\ new.current = p /\ new.lastKnown = globalOffset
          /\ new.initialOffset = k.initialOffset
      BY <3>1 DEF TokenFields
    <3> HIDE DEF new
    <3> QED
      BY <1>a, <2>4, <3>1, <3>2 DEF TokenOK
  <2>6. CallOK(y, new, list)
    <3>1. DOMAIN y = CallFields /\ y.pc = "current" /\ y.count = x.count /\ y.max = x.max /\ y.due = x.due
      BY <1>3 DEF CallFields
    <3>2. new.desired # Nobody
      BY <1>1, <2>4, <2>5
    <3> HIDE DEF y, new
    <3>3. TrCallKinds(y, list)
      BY <1>3, <3>1 DEF TrCallKinds
    <3> QED
      BY <3>1, <3>2, <3>3 DEF CallOK, Scores, Walks, Rounds, Short
  <2> HIDE DEF y, new
  <2>7. Moves(c, y, new)
    <3>1. /\ DOMAIN call' = TrConsumers /\ DOMAIN call'[c] = {"calls", "x"} /\ call'[c].x = y
          /\ \A d \in TrConsumers : d # c => call'[d] = call[d]
      BY <2>1, ToMoves
    <3>2. /\ DOMAIN token' = TrConsumers /\ token'[c] = new
          /\ \A d \in TrConsumers : d # c => token'[d] = token[d]
      BY <1>a, <2>1
    <3> QED
      BY <1>1, <1>2, <1>a, <3>1, <3>2 DEF Moves
  <2> QED
    BY <2>5, <2>6, <2>7, MovesKeep
<1> QED
  BY <1>4, <1>5

\* One step further round, from the producer at b, which is empty now.
LEMMA RoundOn ==
  ASSUME NEW x, NEW k, NEW s, Len(s) \in Nat, NEW a, NEW b, NEW t, RoundTo(x, k, s, a, b, t),
         NEW y, y.due = x.due, x.tried \subseteq y.tried, x.ptr \in y.tried, y.tail = x.tail,
         y.ptr = IF b = Len(s) THEN x.tail ELSE s[b + 1],
         NEW m, NEW at, m.current = s[at], at = b \/ (at = a /\ a # b)
  PROVE  RoundTo(y, m, s, at, IF b = Len(s) THEN t ELSE b + 1, t)
<1> DEFINE e == IF b = Len(s) THEN t ELSE b + 1
<1>1. PICK n \in Nat : n = Len(s)
  OBVIOUS
<1>2. /\ a \in 1..n /\ b \in 1..n /\ t \in 1..n /\ t <= a /\ t <= b
      /\ s[a] = k.current /\ s[b] = x.ptr /\ s[t] = x.tail
      /\ \A d \in x.due : d \in x.tried \/ \E i \in t..n : s[i] = d
      /\ \A i \in t..n :
           (IF a < b THEN a <= i /\ i < b ELSE a <= i \/ i < b) => s[i] \in x.tried
  BY <1>1 DEF RoundTo
<1>3. at \in 1..n /\ t <= at /\ e \in 1..n /\ t <= e
  BY <1>1, <1>2
<1>4. s[e] = y.ptr
  BY <1>1, <1>2
<1>5. \A d \in y.due : d \in y.tried \/ \E i \in t..n : s[i] = d
  BY <1>2
<1>6. \A i \in t..n : (IF at < e THEN at <= i /\ i < e ELSE at <= i \/ i < e) => s[i] \in y.tried
  <2> SUFFICES ASSUME NEW i \in t..n, IF at < e THEN at <= i /\ i < e ELSE at <= i \/ i < e
               PROVE  s[i] \in y.tried
    OBVIOUS
  <2>1. i = b \/ (IF a < b THEN a <= i /\ i < b ELSE a <= i \/ i < b)
    <3>1. CASE at = b
      BY <1>1, <1>2, <3>1
    <3>2. CASE at = a /\ a # b
      BY <1>1, <1>2, <3>2
    <3> QED
      BY <3>1, <3>2
  <2> QED
    BY <1>2, <2>1
<1> HIDE DEF e
<1>7. RoundTo(y, m, s, at, e, t)
  BY <1>1, <1>2, <1>3, <1>4, <1>5, <1>6 DEF RoundTo
<1> QED
  BY <1>7 DEF e

\* The token counts what was taken.
LEMMA TokenSame ==
  ASSUME NEW k, NEW m, NEW s, TokenOK(k, s), DOMAIN m = TokenFields, m.initialOffset = k.initialOffset,
         m.lastKnown = k.lastKnown, m.desired = k.desired, m.current = k.current \/ Linked(m.current, s)
  PROVE  TokenOK(m, s)
  BY DEF TokenOK

\* The dequeue from the token's producer keeps the invariant.
LEMMA TryCurrentKeeps == ASSUME TrIInv, NEW c \in TrConsumers, TryCurrent(c) PROVE TrIInv'
<1>0. PICK n \in Taken(c, T(c).current) :
        LET x == L(c)
            y == After(x, T(c).current, n)
            consumed == T(c).consumed + n
        IN  /\ Takes(T(c).current, n)
            /\ token' = [token EXCEPT ![c].consumed = consumed]
            /\ globalOffset' = IF y.count = y.max /\ QuotaMet(x, consumed)
                               THEN (globalOffset + 1) % Offsets ELSE globalOffset
            /\ To(c, IF y.count = y.max THEN Ends(y)
                     ELSE [y EXCEPT !.pc = "next", !.tail = ListTail,
                                    !.ptr = Onward(T(c).current, ListTail)])
  BY DEF TryCurrent
<1> DEFINE x == L(c)
           k == T(c)
           y == After(x, k.current, n)
           z == IF y.count = y.max THEN Ends(y)
                ELSE [y EXCEPT !.pc = "next", !.tail = ListTail, !.ptr = Onward(k.current, ListTail)]
<1>1. /\ ListOK /\ items \in [TrProducers -> Nat] /\ TokenOK(k, list) /\ CallOK(x, k, list)
      /\ TrCallKinds(x, list)
      /\ Len(list) \in Nat /\ \A q : Linked(q, list) => q \in TrProducers /\ q # Nobody
  BY CallIs
<1>2. /\ x.pc = "current" /\ UNCHANGED Fixed /\ To(c, z)
      /\ n \in Taken(c, k.current) /\ items' = [items EXCEPT ![k.current] = @ - n]
  BY <1>0 DEF TryCurrent, Takes
<1>b. x = L(c)
  OBVIOUS
<1>a. globalOffset \in Int /\ DOMAIN token = TrConsumers
  BY DEF TrIInv, TrKinds
<1>3. /\ DOMAIN token' = TrConsumers /\ \A d \in TrConsumers : d # c => token'[d] = token[d]
  BY <1>0, <1>a
<1>4. PICK m : m = token'[c]
  OBVIOUS
<1>5. /\ DOMAIN m = TokenFields /\ m.initialOffset = k.initialOffset /\ m.lastKnown = k.lastKnown
      /\ m.desired = k.desired /\ m.current = k.current
  <2>1. DOMAIN token[c] = TokenFields
    BY <1>1 DEF TokenOK, T
  <2>2. token' = [token EXCEPT ![c].consumed = T(c).consumed + n]
    BY <1>0
  <2> HIDE DEF x, y
  <2> QED
    BY <1>a, <1>4, <2>1, <2>2 DEF TokenFields, T
<1>6. globalOffset' \in Int
  <2>1. globalOffset' = (globalOffset + 1) % Offsets \/ globalOffset' = globalOffset
    BY <1>0
  <2>2. Offsets \in Nat \ {0}
    BY TrAssumption
  <2>3. PICK g \in Int : g = globalOffset + 1
    BY <1>a
  <2>4. g % Offsets \in Int
    BY <2>2
  <2> QED
    BY <1>a, <2>1, <2>3, <2>4
<1> HIDE DEF x, k
<1>7. /\ DOMAIN x = CallFields /\ x.count \in Nat /\ x.max \in Nat /\ x.count < x.max
      /\ \A d \in x.due : Linked(d, list)
  BY <1>1, <1>2 DEF TrCallKinds
<1>8. Linked(k.current, list) /\ k.current \in TrProducers
  BY <1>1, <1>2 DEF CallOK, Rounds, TokenOK
<1>9. PICK a \in 1..Len(list) : list[a] = k.current
  BY <1>8 DEF Linked
<1>10. /\ DOMAIN y = CallFields /\ y.count \in Nat /\ y.count <= x.max /\ x.tried \subseteq y.tried
       /\ (y.count < x.max => k.current \in y.tried) /\ items' \in [TrProducers -> Nat]
       /\ \A f \in CallFields \ {"count", "tried"} : y[f] = x[f]
  <2>1. x.count <= x.max
    BY <1>7
  <2> QED
    BY <1>1, <1>2, <1>7, <1>8, <1>b, <2>1, TakenIs
<1> HIDE DEF y
<1>11. y.max = x.max /\ y.due = x.due
  BY <1>10 DEF CallFields
<1>12. CallOK(z, m, list)
  <2>1. CASE y.count = y.max
    <3>1. z = Ends(y) /\ ~(y.count < y.max)
      BY <1>7, <1>11, <2>1
    <3> HIDE DEF z
    <3> QED
      BY <1>7, <1>10, <1>11, <3>1, EndsOK
  <2>2. CASE y.count # y.max
    <3>1. z = [y EXCEPT !.pc = "next", !.tail = ListTail, !.ptr = Onward(k.current, ListTail)]
      BY <2>2
    <3> HIDE DEF z
    <3>2. DOMAIN z = CallFields /\ z.pc = "next" /\ z.tail = ListTail /\ z.ptr = Onward(k.current, ListTail)
      BY <1>10, <3>1 DEF CallFields
    <3>3. z.count = y.count /\ z.max = y.max /\ z.due = y.due /\ z.tried = y.tried
      BY <1>10, <3>1 DEF CallFields
    <3>4. y.count < y.max /\ k.current \in y.tried
      BY <1>7, <1>10, <1>11, <2>2
    <3>5. TrCallKinds(z, list)
      BY <1>7, <1>10, <1>11, <3>2, <3>3, <3>4 DEF TrCallKinds
    <3>6. 1 \in 1..Len(list) /\ ListTail = list[1]
      <4>1. Len(list) # 0
        BY <1>9
      <4> QED
        BY <1>1, <4>1, ProducersOfList
    <3>7. z.ptr = IF a = Len(list) THEN list[1] ELSE list[a + 1]
      BY <1>1, <1>9, <3>2, <3>6, OnwardIs
    <3>8. RoundTo(z, m, list, a, IF a = Len(list) THEN 1 ELSE a + 1, 1)
      <4> DEFINE e == IF a = Len(list) THEN 1 ELSE a + 1
      <4>1. PICK len \in Nat : len = Len(list)
        BY <1>1
      <4>2. a \in 1..len /\ e \in 1..len /\ 1 \in 1..len /\ 1 <= a /\ 1 <= e
        BY <4>1
      <4>3. list[e] = z.ptr /\ list[a] = m.current /\ list[1] = z.tail
        BY <1>5, <1>9, <3>2, <3>6, <3>7
      <4>4. \A d \in z.due : \E i \in 1..len : list[i] = d
        BY <1>7, <1>11, <3>3, <4>1 DEF Linked
      <4>5. \A i \in 1..len : (IF a < e THEN a <= i /\ i < e ELSE a <= i \/ i < e) => i = a
        BY <4>1, <4>2
      <4>6. list[a] \in z.tried
        BY <1>9, <3>3, <3>4
      <4> HIDE DEF e
      <4>7. RoundTo(z, m, list, a, e, 1)
        BY <4>1, <4>2, <4>3, <4>4, <4>5, <4>6 DEF RoundTo
      <4> QED
        BY <4>7 DEF e
    <3>9. Rounds(z, m, list)
      BY <3>2, <3>8 DEF Rounds
    <3> QED
      BY <3>2, <3>5, <3>9 DEF CallOK, Scores, Walks, Short
  <2> QED
    BY <2>1, <2>2
<1>13. TokenOK(m, list)
  BY <1>1, <1>5, TokenSame
<1> HIDE DEF z
<1>14. /\ DOMAIN call' = TrConsumers /\ DOMAIN call'[c] = {"calls", "x"} /\ call'[c].x = z
       /\ \A d \in TrConsumers : d # c => call'[d] = call[d]
  BY <1>2, ToMoves
<1>15. CallOK(call'[c].x, token'[c], list) /\ TokenOK(token'[c], list)
  BY <1>4, <1>12, <1>13, <1>14
<1> QED
  BY <1>2, <1>3, <1>6, <1>10, <1>14, <1>15, StepKeeps

\* A step of the round keeps the invariant, though the token may move with it.
LEMMA TryNextKeeps == ASSUME TrIInv, NEW c \in TrConsumers, TryNext(c) PROVE TrIInv'
<1> DEFINE x == L(c)
           k == T(c)
<1>1. /\ ListOK /\ items \in [TrProducers -> Nat] /\ TokenOK(k, list) /\ CallOK(x, k, list)
      /\ TrCallKinds(x, list)
      /\ Len(list) \in Nat /\ \A q : Linked(q, list) => q \in TrProducers /\ q # Nobody
  BY CallIs
<1>2. x.pc = "next" /\ UNCHANGED Fixed /\ globalOffset' = globalOffset
  BY DEF TryNext
<1>a. globalOffset \in Int /\ DOMAIN token = TrConsumers
  BY DEF TrIInv, TrKinds
<1>3. /\ DOMAIN x = CallFields /\ x.count \in Nat /\ x.max \in Nat /\ x.count < x.max
      /\ \A d \in x.due : Linked(d, list)
  BY <1>1, <1>2 DEF TrCallKinds
<1>4. PICK a, b, t : RoundTo(x, k, list, a, b, t)
  BY <1>1, <1>2 DEF CallOK, Rounds
<1>5. /\ a \in 1..Len(list) /\ b \in 1..Len(list) /\ t \in 1..Len(list)
      /\ list[a] = k.current /\ list[b] = x.ptr /\ list[t] = x.tail
  BY <1>4 DEF RoundTo
<1>6. x.ptr \in TrProducers /\ x.ptr # Nobody /\ Linked(x.ptr, list)
  BY <1>1, <1>5 DEF Linked
<1>7. CASE x.ptr = k.current
  <2>1. To(c, Ends(x)) /\ UNCHANGED <<items, token>>
    BY <1>7 DEF TryNext
  <2>2. a = b
    BY <1>1, <1>5, <1>7 DEF ListOK
  <2>3. \A i \in t..Len(list) : list[i] \in x.tried
    <3>1. PICK n \in Nat : n = Len(list)
      BY <1>1
    <3>2. a \in 1..n /\ b \in 1..n /\ t \in 1..n
      BY <1>5, <3>1
    <3>3. \A i \in t..n : a <= i \/ i < b
      BY <2>2, <3>2
    <3>4. \A i \in t..n : (IF a < b THEN a <= i /\ i < b ELSE a <= i \/ i < b) => list[i] \in x.tried
      BY <1>4, <3>1 DEF RoundTo
    <3>5. ~(a < b)
      BY <2>2, <3>2
    <3> QED
      BY <3>1, <3>3, <3>4, <3>5
  <2>4. \A d \in x.due : d \in x.tried
    BY <1>4, <2>3 DEF RoundTo
  <2>5. CallOK(Ends(x), k, list)
    BY <1>3, <2>4, EndsOK
  <2> QED
    BY <1>1, <1>2, <2>1, <2>5, CallMoves
<1>8. CASE x.ptr # k.current
  <2>0. PICK n \in Taken(c, x.ptr) :
          LET y == After(x, x.ptr, n)
          IN  /\ Takes(x.ptr, n)
              /\ token' = IF n = 0 THEN token
                          ELSE [token EXCEPT ![c].current = x.ptr, ![c].consumed = n]
              /\ To(c, IF y.count = y.max THEN Ends(y) ELSE [y EXCEPT !.ptr = Onward(x.ptr, x.tail)])
    BY <1>6, <1>8 DEF TryNext
  <2> DEFINE y == After(x, x.ptr, n)
             z == IF y.count = y.max THEN Ends(y) ELSE [y EXCEPT !.ptr = Onward(x.ptr, x.tail)]
  <2>1. /\ To(c, z) /\ n \in Taken(c, x.ptr) /\ items' = [items EXCEPT ![x.ptr] = @ - n]
        /\ token' = IF n = 0 THEN token
                    ELSE [token EXCEPT ![c].current = x.ptr, ![c].consumed = n]
    BY <2>0 DEF Takes
  <2>b. x = L(c)
    OBVIOUS
  <2>2. a # b
    BY <1>5, <1>8
  <2>3. PICK m : m = token'[c]
    OBVIOUS
  <2>4. /\ DOMAIN token' = TrConsumers /\ \A d \in TrConsumers : d # c => token'[d] = token[d]
        /\ DOMAIN m = TokenFields /\ m.initialOffset = k.initialOffset /\ m.lastKnown = k.lastKnown
        /\ m.desired = k.desired /\ (m.current = k.current \/ m.current = x.ptr)
    <3>1. DOMAIN token[c] = TokenFields
      BY <1>1 DEF TokenOK, T
    <3> HIDE DEF x, y
    <3>2. CASE n = 0
      BY <1>a, <2>1, <2>3, <3>1, <3>2 DEF T
    <3>3. CASE n # 0
      <4>1. token' = [token EXCEPT ![c].current = x.ptr, ![c].consumed = n]
        BY <2>1, <3>3
      <4> QED
        BY <1>a, <2>3, <3>1, <4>1 DEF TokenFields, T
    <3> QED
      BY <3>2, <3>3
  <2> HIDE DEF x, k
  <2>5. /\ DOMAIN y = CallFields /\ y.count \in Nat /\ y.count <= x.max /\ x.tried \subseteq y.tried
        /\ (y.count < x.max => x.ptr \in y.tried) /\ items' \in [TrProducers -> Nat]
        /\ \A f \in CallFields \ {"count", "tried"} : y[f] = x[f]
    <3>1. x.count <= x.max
      BY <1>3
    <3> QED
      BY <1>1, <1>3, <1>6, <2>1, <2>b, <3>1, TakenIs
  <2> HIDE DEF y
  <2>6. y.max = x.max /\ y.due = x.due /\ y.pc = "next" /\ y.tail = x.tail
    BY <1>2, <2>5 DEF CallFields
  <2>7. CallOK(z, m, list)
    <3>1. CASE y.count = y.max
      <4>1. z = Ends(y) /\ ~(y.count < y.max)
        BY <1>3, <2>6, <3>1
      <4> HIDE DEF z
      <4> QED
        BY <1>3, <2>5, <2>6, <4>1, EndsOK
    <3>2. CASE y.count # y.max
      <4>1. z = [y EXCEPT !.ptr = Onward(x.ptr, x.tail)]
        BY <3>2
      <4> HIDE DEF z
      <4>2. /\ DOMAIN z = CallFields /\ z.ptr = Onward(x.ptr, x.tail) /\ z.pc = "next" /\ z.tail = x.tail
            /\ z.count = y.count /\ z.max = y.max /\ z.due = x.due /\ z.tried = y.tried
        BY <2>5, <2>6, <4>1 DEF CallFields
      <4>3. y.count < y.max /\ x.ptr \in y.tried
        BY <1>3, <2>5, <2>6, <3>2
      <4>4. TrCallKinds(z, list)
        BY <1>3, <2>5, <2>6, <4>2, <4>3 DEF TrCallKinds
      <4>5. z.ptr = IF b = Len(list) THEN x.tail ELSE list[b + 1]
        BY <1>1, <1>5, <4>2, OnwardIs
      <4>6. PICK at : m.current = list[at] /\ (at = b \/ (at = a /\ a # b))
        BY <1>5, <2>2, <2>4
      <4>7. x.tried \subseteq z.tried /\ x.ptr \in z.tried
        BY <2>5, <4>2, <4>3
      <4>8. RoundTo(z, m, list, at, IF b = Len(list) THEN t ELSE b + 1, t)
        BY <1>1, <1>4, <4>2, <4>5, <4>6, <4>7, RoundOn
      <4>9. Rounds(z, m, list)
        BY <4>2, <4>8 DEF Rounds
      <4> QED
        BY <4>2, <4>4, <4>9 DEF CallOK, Scores, Walks, Short
    <3> QED
      BY <3>1, <3>2
  <2>8. TokenOK(m, list)
    BY <1>1, <1>6, <2>4, TokenSame
  <2> HIDE DEF z
  <2>9. /\ DOMAIN call' = TrConsumers /\ DOMAIN call'[c] = {"calls", "x"} /\ call'[c].x = z
        /\ \A d \in TrConsumers : d # c => call'[d] = call[d]
    BY <2>1, ToMoves
  <2>10. CallOK(call'[c].x, token'[c], list) /\ TokenOK(token'[c], list)
    BY <2>3, <2>7, <2>8, <2>9
  <2>11. globalOffset' \in Int
    BY <1>2, <1>a
  <2> QED
    BY <1>2, <2>4, <2>5, <2>9, <2>10, <2>11, StepKeeps
<1> QED
  BY <1>7, <1>8

-----------------------------------------------------------------------------
\* r is s with one more producer at its tail, which is where a list begins.
Pushed(s, r) ==
  /\ Len(s) \in Nat /\ Len(r) = Len(s) + 1
  /\ \A i \in 1..Len(s) : r[i + 1] = s[i]

\* A producer more in front: the others stay linked,
LEMMA LinkedOn ==
  ASSUME NEW s, NEW r, Pushed(s, r), NEW p, Linked(p, s)
  PROVE  Linked(p, r)
<1>1. PICK i \in 1..Len(s) : s[i] = p
  BY DEF Linked
<1>2. i + 1 \in 1..Len(r) /\ r[i + 1] = p
  BY <1>1 DEF Pushed
<1> QED
  BY <1>2 DEF Linked

\* what is due stays ahead,
LEMMA DueOn ==
  ASSUME NEW s, NEW r, Pushed(s, r), NEW x, NEW a \in 1..Len(s),
         \A d \in x.due : d \in x.tried \/ \E i \in a..Len(s) : s[i] = d
  PROVE  /\ a + 1 \in 1..Len(r) /\ r[a + 1] = s[a]
         /\ \A d \in x.due : d \in x.tried \/ \E i \in (a + 1)..Len(r) : r[i] = d
<1>1. PICK n \in Nat : n = Len(s)
  BY DEF Pushed
<1>2. Len(r) = n + 1 /\ \A i \in 1..n : r[i + 1] = s[i]
  BY <1>1 DEF Pushed
<1>3. a \in 1..n
  BY <1>1
<1>4. ASSUME NEW d \in x.due, d \notin x.tried PROVE \E i \in (a + 1)..Len(r) : r[i] = d
  <2>1. PICK i \in a..n : s[i] = d
    BY <1>1, <1>4
  <2>2. i \in 1..n /\ i + 1 \in (a + 1)..(n + 1)
    BY <1>3
  <2>3. r[i + 1] = d
    BY <1>2, <2>1, <2>2
  <2> QED
    BY <1>2, <2>2, <2>3
<1> QED
  BY <1>2, <1>3, <1>4

\* a walk stays where it is,
LEMMA AheadOn ==
  ASSUME NEW s, NEW r, Pushed(s, r), NEW x, NEW a, Ahead(x, s, a)
  PROVE  Ahead(x, r, a + 1)
<1>1. /\ a \in 1..Len(s) /\ s[a] = x.ptr
      /\ \A d \in x.due : d \in x.tried \/ \E i \in a..Len(s) : s[i] = d
  BY DEF Ahead
<1>2. /\ a + 1 \in 1..Len(r) /\ r[a + 1] = s[a]
      /\ \A d \in x.due : d \in x.tried \/ \E i \in (a + 1)..Len(r) : r[i] = d
  BY <1>1, DueOn
<1> QED
  BY <1>1, <1>2 DEF Ahead

\* and so does a round, which goes by the tail it has read.
LEMMA RoundToOn ==
  ASSUME NEW s, NEW r, Pushed(s, r), NEW x, NEW k, NEW a, NEW b, NEW t, RoundTo(x, k, s, a, b, t)
  PROVE  RoundTo(x, k, r, a + 1, b + 1, t + 1)
<1>1. PICK n \in Nat : n = Len(s)
  BY DEF Pushed
<1>2. Len(r) = n + 1 /\ \A i \in 1..n : r[i + 1] = s[i]
  BY <1>1 DEF Pushed
<1>3. /\ a \in 1..n /\ b \in 1..n /\ t \in 1..n /\ t <= a /\ t <= b
      /\ s[a] = k.current /\ s[b] = x.ptr /\ s[t] = x.tail
      /\ \A d \in x.due : d \in x.tried \/ \E i \in t..Len(s) : s[i] = d
  BY <1>1 DEF RoundTo
<1>4. \A d \in x.due : d \in x.tried \/ \E i \in (t + 1)..Len(r) : r[i] = d
  BY <1>1, <1>3, DueOn
<1>5. \A i \in t..n : (IF a < b THEN a <= i /\ i < b ELSE a <= i \/ i < b) => s[i] \in x.tried
  BY <1>1 DEF RoundTo
<1>6. ASSUME NEW i \in (t + 1)..(n + 1),
             IF a + 1 < b + 1 THEN a + 1 <= i /\ i < b + 1 ELSE a + 1 <= i \/ i < b + 1
      PROVE  r[i] \in x.tried
  <2>1. i - 1 \in t..n /\ i - 1 \in 1..n /\ (i - 1) + 1 = i
    BY <1>3
  <2>2. IF a < b THEN a <= i - 1 /\ i - 1 < b ELSE a <= i - 1 \/ i - 1 < b
    BY <1>3, <1>6, <2>1
  <2> QED
    BY <1>2, <1>5, <2>1, <2>2
<1>7. /\ a + 1 \in 1..(n + 1) /\ b + 1 \in 1..(n + 1) /\ t + 1 \in 1..(n + 1)
      /\ t + 1 <= a + 1 /\ t + 1 <= b + 1
  BY <1>3
<1>8. r[a + 1] = k.current /\ r[b + 1] = x.ptr /\ r[t + 1] = x.tail
  BY <1>2, <1>3
<1> QED
  BY <1>2, <1>4, <1>6, <1>7, <1>8 DEF RoundTo

\* Together: a call does not notice a producer that is added.
LEMMA CallOn ==
  ASSUME NEW s, NEW r, Pushed(s, r), NEW x, NEW k, TokenOK(k, s), CallOK(x, k, s)
  PROVE  TokenOK(k, r) /\ CallOK(x, k, r)
<1>1. \A p : Linked(p, s) => Linked(p, r)
  BY LinkedOn
<1>2. TokenOK(k, r)
  BY <1>1 DEF TokenOK
<1>3. TrCallKinds(x, r)
  BY <1>1 DEF CallOK, TrCallKinds
<1>4. Scores(x, r)
  <2>1. \A a : Ahead(x, s, a) => Ahead(x, r, a + 1)
    BY AheadOn
  <2> QED
    BY <1>1, <2>1 DEF CallOK, Scores
<1>5. Walks(x, r)
  <2>1. \A a : Ahead(x, s, a) => Ahead(x, r, a + 1)
    BY AheadOn
  <2> QED
    BY <1>1, <2>1 DEF CallOK, Walks
<1>6. Rounds(x, k, r)
  <2>1. \A a, b, t : RoundTo(x, k, s, a, b, t) => RoundTo(x, k, r, a + 1, b + 1, t + 1)
    BY RoundToOn
  <2> QED
    BY <2>1 DEF CallOK, Rounds
<1>7. Short(x)
  BY DEF CallOK
<1> QED
  BY <1>2, <1>3, <1>4, <1>5, <1>6, <1>7 DEF CallOK

\* add_producer's exchange of the tail keeps the invariant.
LEMMA LinkProducerKeeps == ASSUME TrIInv, NEW p \in TrProducers, LinkProducer(p) PROVE TrIInv'
<1>0. ListOK
  BY DEF TrIInv
<1>1. /\ p \in adding /\ list' = <<p>> \o list /\ adding' = adding \ {p}
      /\ UNCHANGED <<producerCount, items, globalOffset, token, call>>
  BY DEF LinkProducer
<1>2. list \in Seq(TrProducers) /\ <<p>> \in Seq(TrProducers)
  BY <1>0 DEF ListOK
<1>3. PICK n \in Nat : n = Len(list)
  BY <1>2
<1>4. /\ list' \in Seq(TrProducers) /\ Len(list') = n + 1 /\ list'[1] = p
      /\ \A i \in 1..n : list'[i + 1] = list[i]
  BY <1>1, <1>2, <1>3
<1>5. Pushed(list, list')
  BY <1>3, <1>4 DEF Pushed
<1>6. \A i \in 1..(n + 1) : i = 1 \/ (i - 1 \in 1..n /\ list'[i] = list[i - 1])
  <2> SUFFICES ASSUME NEW i \in 1..(n + 1), i # 1 PROVE i - 1 \in 1..n /\ list'[i] = list[i - 1]
    OBVIOUS
  <2>1. i - 1 \in 1..n /\ (i - 1) + 1 = i
    OBVIOUS
  <2> QED
    BY <1>4, <2>1
<1>7. \A i \in 1..n : list[i] # p /\ list[i] \notin adding
  BY <1>0, <1>1, <1>3 DEF ListOK
<1>8. \A i, j \in 1..(n + 1) : list'[i] = list'[j] => i = j
  <2> SUFFICES ASSUME NEW i \in 1..(n + 1), NEW j \in 1..(n + 1), list'[i] = list'[j] PROVE i = j
    OBVIOUS
  <2>1. CASE i = 1 \/ j = 1
    BY <1>4, <1>6, <1>7, <2>1
  <2>2. CASE i # 1 /\ j # 1
    <3>1. i - 1 \in 1..n /\ j - 1 \in 1..n /\ list[i - 1] = list[j - 1]
      BY <1>6, <2>2
    <3>2. i - 1 = j - 1
      BY <1>0, <1>3, <3>1 DEF ListOK
    <3> QED
      BY <3>2
  <2> QED
    BY <2>1, <2>2
<1>9. \A i \in 1..(n + 1) : list'[i] \notin adding'
  BY <1>1, <1>4, <1>6, <1>7
<1>10. producerCount' \in Nat /\ producerCount' > 0 /\ adding' \subseteq TrProducers
  BY <1>0, <1>1 DEF ListOK
<1>11. ListOK'
  BY <1>4, <1>8, <1>9, <1>10 DEF ListOK
<1>12. TrKinds'
  BY <1>1 DEF TrIInv, TrKinds
<1>13. \A c \in TrConsumers : TokenOK(T(c), list') /\ CallOK(L(c), T(c), list')
  BY <1>5, CallOn DEF TrIInv, CallsOK
<1>14. CallsOK'
  BY <1>1, <1>13 DEF CallsOK, T, L
<1> QED
  BY <1>11, <1>12, <1>14 DEF TrIInv

\* add_producer's count keeps the invariant.
LEMMA CountProducerKeeps == ASSUME TrIInv, NEW p \in TrProducers, CountProducer(p) PROVE TrIInv'
<1>0. ListOK
  BY DEF TrIInv
<1>1. /\ p \notin InList /\ producerCount' = producerCount + 1 /\ adding' = adding \cup {p}
      /\ UNCHANGED <<list, items, globalOffset, token, call>>
  BY DEF CountProducer
<1>2. \A i \in 1..Len(list) : list[i] # p
  BY <1>0, <1>1, ProducersOfList DEF Linked
<1>3. ListOK'
  BY <1>0, <1>1, <1>2 DEF ListOK
<1>4. TrKinds' /\ CallsOK'
  BY <1>1 DEF TrIInv, TrKinds, CallsOK, T, L
<1> QED
  BY <1>3, <1>4 DEF TrIInv

\* An enqueue keeps the invariant: what was tried need not stay empty.
LEMMA EnqueueToKeeps == ASSUME TrIInv, NEW p \in TrProducers, EnqueueTo(p) PROVE TrIInv'
<1>1. /\ items' = [items EXCEPT ![p] = @ + 1]
      /\ UNCHANGED <<list, producerCount, adding, globalOffset, token, call>>
  BY DEF EnqueueTo
<1>2. items' \in [TrProducers -> Nat]
  BY <1>1 DEF TrIInv, TrKinds
<1>3. ListOK' /\ CallsOK'
  BY <1>1 DEF TrIInv, ListOK, CallsOK, T, L
<1>4. TrKinds'
  BY <1>1, <1>2 DEF TrIInv, TrKinds
<1> QED
  BY <1>3, <1>4 DEF TrIInv

\* The five calls begin with the list they find.
LEMMA BeginKeeps ==
  ASSUME TrIInv, NEW c \in TrConsumers,
         \/ TrTryDequeue(c) \/ TryDequeueNonInterleaved(c) \/ TrTryDequeueBulk(c)
         \/ TryDequeueToken(c) \/ TryDequeueBulkToken(c)
  PROVE  TrIInv'
<1>0. TrBulk \in Nat /\ 1 \in Nat \ {0}
  BY TrAssumption
<1>1. CASE TrTryDequeue(c)
  <2>1. Begins(c, "scored", 1)
    BY <1>1 DEF TrTryDequeue
  <2> QED
    BY <1>0, <2>1, BeginsKeeps
<1>2. CASE TryDequeueNonInterleaved(c)
  <2>1. Begins(c, "walk", 1) /\ "walk" # "scored"
    BY <1>2 DEF TryDequeueNonInterleaved
  <2> QED
    BY <1>0, <2>1, BeginsKeeps
<1>3. CASE TrTryDequeueBulk(c)
  <2>1. PICK max \in 1..TrBulk : Begins(c, "walk", max)
    BY <1>3 DEF TrTryDequeueBulk
  <2>2. max \in Nat \ {0} /\ "walk" # "scored"
    BY <1>0
  <2> QED
    BY <2>1, <2>2, BeginsKeeps
<1>4. CASE TryDequeueToken(c)
  <2>1. Begins(c, "token", 1) /\ "token" # "scored"
    BY <1>4 DEF TryDequeueToken
  <2> QED
    BY <1>0, <2>1, BeginsKeeps
<1>5. CASE TryDequeueBulkToken(c)
  <2>1. PICK max \in 1..TrBulk : Begins(c, "token bulk", max)
    BY <1>5 DEF TryDequeueBulkToken
  <2>2. max \in Nat \ {0} /\ "token bulk" # "scored"
    BY <1>0
  <2> QED
    BY <2>1, <2>2, BeginsKeeps
<1> QED
  BY <1>1, <1>2, <1>3, <1>4, <1>5

\* The invariant holds initially.
LEMMA TrInitOK == TrInit => TrIInv
<1> SUFFICES ASSUME TrInit PROVE TrIInv
  OBVIOUS
<1>1. list = <<>> /\ producerCount = 0 /\ adding = {} /\ globalOffset = 0
  BY DEF TrInit
<1>2. items = [p \in TrProducers |-> 0] /\ call = [c \in TrConsumers |-> [calls |-> 0, x |-> NoCall]]
  BY DEF TrInit
<1>3. ListOK
  BY <1>1 DEF ListOK
<1>4. TrKinds
  <2>1. DOMAIN token = TrConsumers
    BY DEF TrInit
  <2> QED
    BY <1>1, <1>2, <2>1 DEF TrKinds
<1>5. ASSUME NEW c \in TrConsumers PROVE TokenOK(T(c), list) /\ CallOK(L(c), T(c), list)
  <2>1. L(c) = NoCall
    BY <1>2 DEF L
  <2>2. DOMAIN NoCall = CallFields /\ NoCall.pc = "idle" /\ NoCall.count = 0 /\ NoCall.max = 0 /\ NoCall.due = {}
    BY DEF NoCall, CallFields
  <2>3. TrCallKinds(NoCall, list)
    BY <2>2 DEF TrCallKinds
  <2>4. CallOK(NoCall, T(c), list)
    BY <2>2, <2>3 DEF CallOK, Scores, Walks, Rounds, Short
  <2>5. TokenOK(T(c), list)
    BY InitialOffsets DEF TokenOK, T
  <2> QED
    BY <2>1, <2>4, <2>5
<1> QED
  BY <1>3, <1>4, <1>5 DEF TrIInv, CallsOK

\* Every step keeps the invariant.
LEMMA TrNextOK == TrIInv /\ [TrNext]_trVars => TrIInv'
<1> SUFFICES ASSUME TrIInv, [TrNext]_trVars PROVE TrIInv'
  OBVIOUS
<1>1. ASSUME NEW p \in TrProducers, CountProducer(p) \/ LinkProducer(p) \/ EnqueueTo(p) PROVE TrIInv'
  BY <1>1, CountProducerKeeps, LinkProducerKeeps, EnqueueToKeeps
<1>2. ASSUME NEW c \in TrConsumers,
             \/ TrTryDequeue(c) \/ TryDequeueNonInterleaved(c) \/ TrTryDequeueBulk(c)
             \/ TryDequeueToken(c) \/ TryDequeueBulkToken(c)
      PROVE  TrIInv'
  BY <1>2, BeginKeeps
<1>3. ASSUME NEW c \in TrConsumers,
             \/ Score(c) \/ TryBest(c) \/ Walk(c) \/ Rotate(c) \/ TryCurrent(c) \/ TryNext(c) \/ Return(c)
      PROVE  TrIInv'
  BY <1>3, ScoreKeeps, TryBestKeeps, WalkKeeps, RotateKeeps, TryCurrentKeeps, TryNextKeeps, TrReturnKeeps
<1>4. CASE UNCHANGED trVars
  BY <1>4 DEF trVars, TrIInv, ListOK, TrKinds, CallsOK, T, L
<1> QED
  BY <1>1, <1>2, <1>3, <1>4 DEF TrNext

\* A dequeue call (try_dequeue, its bulk and its token forms) that comes back
\* short has tried every producer that was in the list when it began, also when
\* other consumers make dequeues come back with less than there is.  For any
\* producers, added at any time, any consumers, tokens and rotations, any quota
\* and any number of items.
THEOREM EveryProducerTriedHolds == TrSpec => []EveryProducerTried
<1>1. TrInit => TrIInv
  BY TrInitOK
<1>2. TrIInv /\ [TrNext]_trVars => TrIInv'
  BY TrNextOK
<1>3. TrIInv => EveryProducerTried
  BY DEF TrIInv, CallsOK, CallOK, Short, EveryProducerTried
<1> QED
  BY <1>1, <1>2, <1>3, PTL DEF TrSpec
=============================================================================
