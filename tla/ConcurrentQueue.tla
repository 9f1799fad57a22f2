--------------------------- MODULE ConcurrentQueue ---------------------------
(***************************************************************************)
(* One explicit producer of moodycamel::ConcurrentQueue                     *)
(* (sync/moody/concurrentqueue.h) with its consumers: a ring of blocks that *)
(* are used again once empty, a circular block index that doubles when it   *)
(* is full, and the optimistic counters with which consumers claim items.   *)
(* The item at index i is the number i.  Atomic accesses are one step each  *)
(* and sequentially consistent; indices do not wrap (index_t has 64 bits);  *)
(* element constructors and assignments do not throw.                       *)
(***************************************************************************)
EXTENDS Integers, Sequences, FiniteSets, FiniteSetsExt

CONSTANTS
  BLOCK_SIZE,                   \* items in a block
  EXPLICIT_INITIAL_INDEX_SIZE,  \* entries of the first block index
  MAX_SUBQUEUE_SIZE,            \* limit of items
  CqConsumers,                  \* threads that dequeue
  CqBulk,                       \* largest count of a bulk operation
  CqItems, CqCalls,             \* bounds: items, dequeue calls of a thread
  BulkMayFail                   \* an enqueue_bulk may run out of memory

ASSUME CqAssumption ==
  /\ BLOCK_SIZE \in Nat \ {0, 1} /\ EXPLICIT_INITIAL_INDEX_SIZE \in Nat \ {0, 1}
  /\ MAX_SUBQUEUE_SIZE \in Nat /\ CqBulk \in Nat \ {0} /\ CqItems \in Nat /\ CqCalls \in Nat
  /\ IsFiniteSet(CqConsumers) /\ BulkMayFail \in BOOLEAN

VARIABLES
  tailIndex, headIndex, dequeueOptimisticCount, dequeueOvercommit,
  blocks,   \* each block: next, the items constructed in it, the empty flags
  headers,  \* block indices; blockIndex points to the last one
  pr,       \* the members only the producer uses, and the locals of its call
  deq       \* consumer -> the locals of its call

cqVars == <<tailIndex, headIndex, dequeueOptimisticCount, dequeueOvercommit,
            blocks, headers, pr, deq>>
counts == <<dequeueOptimisticCount, dequeueOvercommit>>

NoBlock == 0
NoItem == -1
Slots == 0..(BLOCK_SIZE - 1)
Base(i) == (i \div BLOCK_SIZE) * BLOCK_SIZE
Header == headers[Len(headers)]
NoEntry == [base |-> 0, block |-> NoBlock]

PrIdle == [pc |-> "idle", n |-> 0, need |-> 0, cur |-> 0, start |-> NoBlock, first |-> NoBlock,
           origFront |-> 0, origUsed |-> 0]
Idle == [pc |-> "idle", max |-> 0, tail |-> 0, over |-> 0, my |-> 0, want |-> 0, first |-> 0,
         n |-> 0, hdr |-> 0, front |-> 0, slot |-> 0, block |-> NoBlock]
With(r, s) == [k \in DOMAIN s |-> IF k \in DOMAIN r THEN r[k] ELSE s[k]]

\* The constructor allocates an index without any block.
CqInit ==
  /\ tailIndex = 0 /\ headIndex = 0 /\ dequeueOptimisticCount = 0 /\ dequeueOvercommit = 0
  /\ blocks = <<>>
  /\ headers = <<[size |-> EXPLICIT_INITIAL_INDEX_SIZE, front |-> -1,
                  entries |-> [i \in 0..(EXPLICIT_INITIAL_INDEX_SIZE - 1) |-> NoEntry]]>>
  /\ pr = [call |-> PrIdle, slotsUsed |-> 0, front |-> 0, tailBlock |-> NoBlock]
  /\ deq = [c \in CqConsumers |-> [calls |-> 0, x |-> Idle]]

---------------------------------------------------------------------------
(* Blocks (the flags, which BLOCK_SIZE <= 32 uses).                         *)

IsEmpty(b) == \A i \in Slots : blocks[b].empty[i]
ResetEmpty(bs, S) == [b \in DOMAIN bs |->
  IF b \in S THEN [bs[b] EXCEPT !.empty = [i \in Slots |-> FALSE]] ELSE bs[b]]
SetManyEmpty(b, S) == [blocks EXCEPT ![b].empty = [i \in Slots |-> @[i] \/ i \in S]]
\* A requisitioned block, as set_all_empty leaves it.
FreshBlock(next) == [next |-> next, item |-> [i \in Slots |-> NoItem],
                     empty |-> [i \in Slots |-> TRUE]]

\* The blocks met from b on, following next.
NthBlock(b) == LET nth[k \in Nat] == IF k = 0 THEN b ELSE blocks[nth[k - 1]].next IN nth

---------------------------------------------------------------------------
(* The producer: enqueue (n = 1) and enqueue_bulk.                          *)

pc == pr.call.pc
Goes(r) == pr' = [pr EXCEPT !.call = With(r, @)]
SharedByConsumers == <<headIndex, counts, deq>>

StartCall(n) ==
  LET t == tailIndex
      need == (Base(t + n - 1) - Base(t - 1)) \div BLOCK_SIZE
  IN  /\ pc = "idle" /\ t + n <= CqItems
      /\ Goes([pc |-> IF need > 0 THEN "reuse" ELSE "construct", n |-> n, need |-> need,
               cur |-> Base(t - 1), start |-> pr.tailBlock, first |-> NoBlock,
               origFront |-> pr.front, origUsed |-> pr.slotsUsed])
      /\ UNCHANGED <<tailIndex, SharedByConsumers, blocks, headers>>

EnqueueOne == StartCall(1)
EnqueueMany == \E n \in 2..CqBulk : StartCall(n)

\* A block joins the index at pr_blockIndexFront; base is the next block base.
PutEntry(p, hs, b) ==
  LET last == hs[Len(hs)]
  IN  /\ headers' = [hs EXCEPT ![Len(hs)].entries[p.front] =
                       [base |-> p.call.cur + BLOCK_SIZE, block |-> b]]
      /\ pr' = [p EXCEPT !.front = (p.front + 1) % last.size, !.tailBlock = b,
                  !.call = [p.call EXCEPT !.cur = p.call.cur + BLOCK_SIZE, !.need = p.call.need - 1,
                              !.pc = IF p.call.need = 1 THEN "publish" ELSE p.call.pc,
                              !.first = IF p.call.first = NoBlock THEN b ELSE p.call.first]]

\* The block ahead can be used again: nothing is left in it.
MayReuse ==
  /\ pr.tailBlock # NoBlock
  /\ blocks[pr.tailBlock].next # pr.call.first
  /\ IsEmpty(blocks[pr.tailBlock].next)

ReuseBlock ==
  /\ pc = "reuse" /\ MayReuse
  /\ PutEntry(pr, headers, blocks[pr.tailBlock].next)
  /\ UNCHANGED <<tailIndex, SharedByConsumers, blocks>>

\* new_block_index: twice the entries, the used ones first, oldest first.  (Faulty:
\* copied as they lie.)
ShortNewBlockIndex(exposed) ==
  [size |-> 2 * Header.size, front |-> exposed - 1,
   entries |-> [i \in 0..(2 * Header.size - 1) |->
                  IF i < pr.slotsUsed THEN Header.entries[i] ELSE NoEntry]]
NewBlockIndex(exposed) ==
  [size |-> 2 * Header.size, front |-> exposed - 1,
   entries |-> [i \in 0..(2 * Header.size - 1) |->
                  IF i < pr.slotsUsed
                  THEN Header.entries[(pr.front - pr.slotsUsed + i) % Header.size]
                  ELSE NoEntry]]

\* A failure undoes the changes, but keeps the index and the injected blocks.
Undo(p) ==
  pr' = [p EXCEPT !.call = PrIdle, !.front = p.call.origFront, !.slotsUsed = p.call.origUsed,
           !.tailBlock = IF p.call.start = NoBlock THEN p.call.first ELSE p.call.start]

Full == pr.call.cur + BLOCK_SIZE - headIndex > MAX_SUBQUEUE_SIZE - BLOCK_SIZE
\* The outcomes of an allocation, and of the pool and free list of the try_ forms.
Allocation == IF pr.call.n = 1 \/ BulkMayFail THEN BOOLEAN ELSE {TRUE}

\* The circular list takes block b after the tail block.
Inject(b) ==
  IF pr.tailBlock = NoBlock THEN Append(blocks, FreshBlock(b))
  ELSE [Append(blocks, FreshBlock(blocks[pr.tailBlock].next)) EXCEPT ![pr.tailBlock].next = b]

\* No block to use again: check the limit, make room in the index, requisition
\* a block.
AddBlock ==
  /\ pc \in {"reuse", "add"} /\ (pc = "reuse" => ~MayReuse)
  /\ \E indexOk, blockOk \in Allocation :
       LET grow == pr.slotsUsed = Header.size
           hs == IF grow THEN Append(headers, NewBlockIndex(pr.call.origUsed)) ELSE headers
           p == IF grow THEN [pr EXCEPT !.front = pr.slotsUsed, !.call.origFront = pr.call.origUsed]
                        ELSE pr
           b == Len(blocks) + 1
       IN  \/ /\ Full \/ (grow /\ ~indexOk)
              /\ Undo(pr) /\ UNCHANGED <<headers, blocks>>
           \/ /\ ~Full /\ (grow => indexOk) /\ ~blockOk
              /\ Undo(p) /\ headers' = hs /\ UNCHANGED blocks
           \/ /\ ~Full /\ (grow => indexOk) /\ blockOk
              /\ blocks' = Inject(b)
              /\ PutEntry([p EXCEPT !.slotsUsed = @ + 1, !.call.pc = "add"], hs, b)
  /\ UNCHANGED <<tailIndex, SharedByConsumers>>

\* The blocks in use are no longer empty, and the index shows the last of them.
PublishFront ==
  /\ pc = "publish"
  /\ LET nth == NthBlock(pr.call.first)
         len == CHOOSE k \in 0..Len(blocks) :
                  nth[k] = pr.tailBlock /\ \A j \in 0..(k - 1) : nth[j] # pr.tailBlock
     IN  blocks' = ResetEmpty(blocks, {nth[k] : k \in 0..len})
  /\ headers' = [headers EXCEPT ![Len(headers)].front = (pr.front - 1) % Header.size]
  /\ Goes([pc |-> "construct"])
  /\ UNCHANGED <<tailIndex, SharedByConsumers>>

\* Where the call puts the item of index i.
Place(i) ==
  LET from == IF tailIndex % BLOCK_SIZE = 0 THEN pr.call.first ELSE pr.call.start
  IN  NthBlock(from)[(Base(i) - Base(tailIndex)) \div BLOCK_SIZE]

Construct ==
  /\ pc = "construct"
  /\ LET new == tailIndex..(tailIndex + pr.call.n - 1)
     IN  blocks' = [b \in DOMAIN blocks |-> [blocks[b] EXCEPT !.item =
           [s \in Slots |-> IF \E i \in new : Place(i) = b /\ i % BLOCK_SIZE = s
                            THEN CHOOSE i \in new : Place(i) = b /\ i % BLOCK_SIZE = s
                            ELSE @[s]]]]
  /\ Goes([pc |-> "store"])
  /\ UNCHANGED <<tailIndex, SharedByConsumers, headers>>

StoreTail ==
  /\ pc = "store"
  /\ tailIndex' = tailIndex + pr.call.n
  /\ Goes(PrIdle)
  /\ UNCHANGED <<SharedByConsumers, blocks, headers>>

---------------------------------------------------------------------------
(* Consumers: dequeue (max = 1) and dequeue_bulk.                           *)

X(c) == deq[c].x
AtPc(c, p) == X(c).pc = p
Proceeds(c, r) == deq' = [deq EXCEPT ![c].x = With(r, @)]
SharedByProducer == <<tailIndex, headers, pr>>

CallDequeue(c, max) ==
  /\ AtPc(c, "idle") /\ deq[c].calls < CqCalls
  /\ deq' = [deq EXCEPT ![c] = [calls |-> @.calls + 1,
               x |-> With([pc |-> "overcommit", max |-> max, tail |-> tailIndex], Idle)]]
  /\ UNCHANGED <<SharedByProducer, headIndex, counts, blocks>>

DequeueOne(c) == CallDequeue(c, 1)
DequeueMany(c) == \E max \in 2..CqBulk : CallDequeue(c, max)

LoadOvercommit(c) ==
  /\ AtPc(c, "overcommit")
  /\ Proceeds(c, [pc |-> "desire", over |-> dequeueOvercommit])
  /\ UNCHANGED <<SharedByProducer, headIndex, counts, blocks>>

\* How many items there may be for this call, by the values read so far.
LoadOptimistic(c) ==
  /\ AtPc(c, "desire")
  /\ LET desired == X(c).tail - (dequeueOptimisticCount - X(c).over)
     IN  Proceeds(c, IF desired > 0 THEN [pc |-> "claim", want |-> Min({desired, X(c).max}),
                                                       max |-> 0, tail |-> 0]
                                 ELSE Idle)
  /\ UNCHANGED <<SharedByProducer, headIndex, counts, blocks>>

ClaimCount(c) ==
  /\ AtPc(c, "claim")
  /\ dequeueOptimisticCount' = dequeueOptimisticCount + X(c).want
  /\ Proceeds(c, [pc |-> "recheck", my |-> dequeueOptimisticCount])
  /\ UNCHANGED <<SharedByProducer, headIndex, dequeueOvercommit, blocks>>

\* The tail is loaded again; only what lies before it is really there.  (Faulty:
\* the first look is trusted.)
StaleActual(c) == X(c).want
Actual(c) == Max({0, Min({X(c).want, tailIndex - (X(c).my - X(c).over)})})
Recheck(c) ==
  /\ AtPc(c, "recheck")
  /\ Proceeds(c, [n |-> Actual(c), pc |-> IF Actual(c) < X(c).want THEN "giveback" ELSE "head"])
  /\ UNCHANGED <<SharedByProducer, headIndex, counts, blocks>>

\* What was claimed and is not there makes the counts consistent again.
AddOvercommit(c) ==
  /\ AtPc(c, "giveback")
  /\ dequeueOvercommit' = dequeueOvercommit + X(c).want - X(c).n
  /\ Proceeds(c, IF X(c).n > 0 THEN [pc |-> "head"] ELSE Idle)
  /\ UNCHANGED <<SharedByProducer, headIndex, dequeueOptimisticCount, blocks>>

ClaimIndex(c) ==
  /\ AtPc(c, "head")
  /\ headIndex' = headIndex + X(c).n
  /\ Proceeds(c, With([pc |-> "index", first |-> headIndex, n |-> X(c).n], Idle))
  /\ UNCHANGED <<SharedByProducer, counts, blocks>>

LoadIndex(c) ==
  /\ AtPc(c, "index")
  /\ Proceeds(c, [pc |-> "front", hdr |-> Len(headers)])
  /\ UNCHANGED <<SharedByProducer, headIndex, counts, blocks>>

LoadFront(c) ==
  /\ AtPc(c, "front")
  /\ Proceeds(c, [pc |-> "find", front |-> headers[X(c).hdr].front])
  /\ UNCHANGED <<SharedByProducer, headIndex, counts, blocks>>

\* The entry of the first item's block, counted from the entry at the front.
FindSlot(c) ==
  /\ AtPc(c, "find")
  /\ LET h == headers[X(c).hdr]
         offset == (Base(X(c).first) - h.entries[X(c).front].base) \div BLOCK_SIZE
     IN  Proceeds(c, [pc |-> "move", slot |-> (X(c).front + offset) % h.size, front |-> 0])
  /\ UNCHANGED <<SharedByProducer, headIndex, counts, blocks>>

FoundBlock(c) == headers[X(c).hdr].entries[X(c).slot].block
\* The items of the call that lie in the block of the next one.
Part(c) == X(c).first..(Min({X(c).first + X(c).n, Base(X(c).first) + BLOCK_SIZE}) - 1)

\* The items of one block are moved out and destroyed ...
MoveOut(c) ==
  /\ AtPc(c, "move")
  /\ blocks' = [blocks EXCEPT ![FoundBlock(c)].item =
       [s \in Slots |-> IF s \in {i % BLOCK_SIZE : i \in Part(c)} THEN NoItem ELSE @[s]]]
  /\ Proceeds(c, [pc |-> "flag", slot |-> X(c).slot])
  /\ UNCHANGED <<SharedByProducer, headIndex, counts>>

\* ... then flagged, and the call goes on with the next entry.
SetEmpty(c) ==
  /\ AtPc(c, "flag")
  /\ blocks' = SetManyEmpty(FoundBlock(c), {i % BLOCK_SIZE : i \in Part(c)})
  /\ LET left == X(c).n - Cardinality(Part(c))
     IN  Proceeds(c, IF left = 0 THEN Idle
                  ELSE [pc |-> "move", first |-> X(c).first + Cardinality(Part(c)), n |-> left,
                        slot |-> (X(c).slot + 1) % headers[X(c).hdr].size])
  /\ UNCHANGED <<SharedByProducer, headIndex, counts>>

---------------------------------------------------------------------------
\* ExplicitProducer::enqueue and enqueue_bulk, step by step.
ProducerStep ==
  \/ EnqueueOne \/ EnqueueMany \/ ReuseBlock \/ AddBlock \/ PublishFront \/ Construct
  \/ StoreTail

\* ExplicitProducer::dequeue and dequeue_bulk, until indices are claimed; those of
\* ImplicitProducer begin in the same way.
ClaimStep(c) ==
  \/ DequeueOne(c) \/ DequeueMany(c) \/ LoadOvercommit(c) \/ LoadOptimistic(c)
  \/ ClaimCount(c) \/ Recheck(c) \/ AddOvercommit(c) \/ ClaimIndex(c)

ConsumerStep(c) ==
  \/ ClaimStep(c) \/ LoadIndex(c) \/ LoadFront(c) \/ FindSlot(c) \/ MoveOut(c) \/ SetEmpty(c)

CqNext == ProducerStep \/ \E c \in CqConsumers : ConsumerStep(c)

CqSpec == CqInit /\ [][CqNext]_cqVars

---------------------------------------------------------------------------
(* Properties.                                                              *)

\* Every variable has its type: the links stay inside the list of blocks, the
\* positions inside the current block index.
CqTypeOK ==
  /\ {tailIndex, headIndex, dequeueOptimisticCount, dequeueOvercommit} \subseteq Nat
  /\ \A b \in DOMAIN blocks : blocks[b].next \in DOMAIN blocks
  /\ \A h \in DOMAIN headers : headers[h].front \in -1..(headers[h].size - 1)
  /\ pr.front \in 0..(Header.size - 1) /\ pr.slotsUsed \in 0..Header.size

\* Consumers claim only items that the producer has stored: the optimistic
\* count and the overcommit together never let the head pass the tail.
HeadWithinTail == headIndex <= tailIndex

\* A claimed index leads, through whatever block index and front the consumer
\* happened to read, to the block that holds that very item.
ClaimFindsItem ==
  \A c \in CqConsumers : AtPc(c, "move") =>
    FoundBlock(c) # NoBlock /\ \A i \in Part(c) : blocks[FoundBlock(c)].item[i % BLOCK_SIZE] = i

\* The producer never constructs an item over one that is still there.
NeverOverwrites ==
  pc = "construct" => \A i \in tailIndex..(tailIndex + pr.call.n - 1) :
    blocks[Place(i)].item[i % BLOCK_SIZE] = NoItem /\ ~blocks[Place(i)].empty[i % BLOCK_SIZE]

\* Once no call is under way the counts agree with the head, so that later
\* calls see every item that is left.
Quiescent == \A c \in CqConsumers : AtPc(c, "idle")
CountsSettle == Quiescent => dequeueOptimisticCount - dequeueOvercommit = headIndex

\* dequeue and dequeue_bulk, of either kind of producer: the optimistic count
\* and the overcommit, which calls read and add to one after the other, never
\* let the head pass the tail and agree with it again at rest.
CountsAgree == HeadWithinTail /\ CountsSettle

\* The items that are constructed, and those ~ExplicitProducer destroys: all of
\* a block that is not empty, but for the head's and the tail's part.
Live == {at \in (DOMAIN blocks) \X Slots : blocks[at[1]].item[at[2]] # NoItem}
HalfDequeued ==
  IF headIndex % BLOCK_SIZE = 0 THEN NoBlock
  ELSE LET at(k) == Header.entries[(pr.front - pr.slotsUsed + k) % Header.size]
           past(k) == at(k).base + BLOCK_SIZE < headIndex
       IN  at(CHOOSE k \in 0..Header.size : ~past(k) /\ \A j \in 0..(k - 1) : past(j)).block
Destroyed ==
  LET last == IF tailIndex % BLOCK_SIZE = 0 THEN BLOCK_SIZE ELSE tailIndex % BLOCK_SIZE
  IN  {at \in (DOMAIN blocks) \X Slots :
         /\ ~IsEmpty(at[1])
         /\ at[1] = HalfDequeued => at[2] >= headIndex % BLOCK_SIZE
         /\ at[1] = pr.tailBlock => at[2] < last}
\* ~ExplicitProducer destroys exactly the items that were not dequeued.
DestructorExact ==
  Quiescent /\ pc = "idle" /\ pr.tailBlock # NoBlock => Destroyed = Live

\* ExplicitProducer: consumers find the items they claim, no item is
\* constructed over another, and the destructor destroys what is left.
CqInv == CqTypeOK /\ ClaimFindsItem /\ NeverOverwrites /\ DestructorExact
=============================================================================
