--------------------------- MODULE ImplicitProducer ---------------------------
(***************************************************************************)
(* One implicit producer of moodycamel::ConcurrentQueue                     *)
(* (sync/moody/concurrentqueue.h), which serves a thread without token.     *)
(* Consumers claim items as in ConcurrentQueue, whose counters, blocks and  *)
(* consumers are used here.  A block goes back to the queue as soon as its  *)
(* last item is taken, and an entry of the circular block index is used     *)
(* again once its block is gone; a larger index shares the entries of the   *)
(* smaller ones, in which consumers may still be looking.                   *)
(***************************************************************************)
EXTENDS ConcurrentQueue

CONSTANTS
  IMPLICIT_INITIAL_INDEX_SIZE,  \* entries of the first block index
  PoolSize,                     \* blocks of the initial pool
  ImpItems                      \* bound: items, as CqItems

ASSUME ImpAssumption ==
  IMPLICIT_INITIAL_INDEX_SIZE \in Nat \ {0, 1} /\ {PoolSize, ImpItems} \subseteq Nat

VARIABLES
  ents,      \* the entries of all block indices: key and value
  ixs,       \* the block indices, blockIndex is the last; none if it failed
  ip,        \* tailBlock of the producer, and the locals of its call
  pool,      \* blocks on the free list, and those that were destroyed
  dequeued   \* block -> elementsCompletelyDequeued

impVars == <<ents, ixs, ip, pool, dequeued>>
impShared == <<ents, ixs, pool, dequeued>>

INVALID_BLOCK_BASE == 1
Garbage == -1                     \* the value of an entry before any store
NewEntry == [key |-> INVALID_BLOCK_BASE, value |-> Garbage]
NewEntries(n) == [i \in 1..n |-> NewEntry]

IpIdle == [pc |-> "idle", n |-> 0, need |-> 0, cur |-> 0, start |-> NoBlock, new |-> <<>>,
           pos |-> 0, undo |-> <<>>]

\* The constructor makes the first index, if there is memory.
ImpInit ==
  /\ CqInit
  /\ ents = NewEntries(IMPLICIT_INITIAL_INDEX_SIZE)
  /\ ixs \in {<<>>, <<[capacity |-> IMPLICIT_INITIAL_INDEX_SIZE,
                       tail |-> IMPLICIT_INITIAL_INDEX_SIZE - 1,
                       index |-> [i \in 0..(IMPLICIT_INITIAL_INDEX_SIZE - 1) |-> i + 1]]>>}
  /\ ip = [call |-> IpIdle, tailBlock |-> NoBlock]
  /\ pool = [free |-> {}, gone |-> {}] /\ dequeued = <<>>

ImpHeader == ixs[Len(ixs)]

\* get_block_index_index_for_index, given the position and the key of the tail.
PositionOf(h, i, tail, tailBase) == (tail + ((Base(i) - tailBase) \div BLOCK_SIZE)) % h.capacity
\* get_block_index_entry_for_index, by the producer or the destructor.
EntryFor(i) ==
  LET h == ImpHeader
  IN  h.index[PositionOf(h, i, h.tail, ents[h.index[h.tail]].key)]

\* add_block_to_free_list: blocks that were allocated are destroyed instead.
Returned(S) == [free |-> pool.free \cup (S \cap 1..PoolSize),
                gone |-> pool.gone \cup (S \ 1..PoolSize)]

---------------------------------------------------------------------------
(* The producer: enqueue (n = 1) and enqueue_bulk.                          *)

ipc == ip.call.pc
ImpGoes(r) == ip' = [ip EXCEPT !.call = With(r, @)]

\* What the call has put into the index and takes out again when it fails: the
\* entry without a block, if there is one, and the others from the first on.
ToUndo(inserted) ==
  (IF inserted THEN <<ip.call.cur>> ELSE <<>>)
  \o [j \in DOMAIN ip.call.new |-> Base(tailIndex - 1) + j * BLOCK_SIZE]

ImpFails(inserted) == ImpGoes([pc |-> "undo", undo |-> ToUndo(inserted)])

ImpStart(n) ==
  LET t == tailIndex
      need == (Base(t + n - 1) - Base(t - 1)) \div BLOCK_SIZE
  IN  /\ ipc = "idle" /\ t + n <= ImpItems
      /\ ImpGoes([pc |-> IF need > 0 THEN "limit" ELSE "construct", n |-> n, need |-> need,
                  cur |-> Base(t - 1), start |-> ip.tailBlock])
      /\ UNCHANGED <<impShared, tailIndex, blocks, SharedByConsumers>>

ImpEnqueueOne == ImpStart(1)
ImpEnqueueMany == \E n \in 2..CqBulk : ImpStart(n)

\* The limit is looked at for every block.
ImpCheckLimit ==
  LET base == ip.call.cur + BLOCK_SIZE
  IN  /\ ipc = "limit"
      /\ IF MAX_SUBQUEUE_SIZE - BLOCK_SIZE < base - headIndex
         THEN ImpFails(FALSE)
         ELSE ImpGoes([pc |-> "key", cur |-> base])
      /\ UNCHANGED <<impShared, tailIndex, blocks, SharedByConsumers>>

NextPos == (ImpHeader.tail + 1) % ImpHeader.capacity
\* An entry can be used that was never used or whose block is gone.  (Faulty: any.)
AnyUsable(e) == e \in DOMAIN ents
Usable(e) == ents[e].key = INVALID_BLOCK_BASE \/ ents[e].value = NoBlock

\* insert_block_index_entry: the key is stored first ...
StoreKey ==
  /\ ipc = "key" /\ ixs # <<>>
  /\ LET e == ImpHeader.index[NextPos]
     IN  /\ Usable(e)
         /\ ents' = [ents EXCEPT ![e].key = ip.call.cur]
  /\ ImpGoes([pc |-> "entry", pos |-> NextPos])
  /\ UNCHANGED <<ixs, pool, dequeued, tailIndex, blocks, SharedByConsumers>>

\* ... then the tail of the index.
StoreIndexTail ==
  /\ ipc = "entry"
  /\ ixs' = [ixs EXCEPT ![Len(ixs)].tail = ip.call.pos]
  /\ ImpGoes([pc |-> "block", pos |-> 0])
  /\ UNCHANGED <<ents, pool, dequeued, tailIndex, blocks, SharedByConsumers>>

\* new_block_index: the old entries, oldest first, and as many new ones.
NewImpIndex(h) ==
  [capacity |-> 2 * h.capacity, tail |-> h.capacity - 1,
   index |-> [i \in 0..(2 * h.capacity - 1) |->
                IF i < h.capacity THEN h.index[(h.tail + 1 + i) % h.capacity]
                ELSE Len(ents) + 1 + i - h.capacity]]

\* No room in the index: there is a larger one, or the call fails.
GrowImpIndex ==
  /\ ipc = "key" /\ ixs # <<>> /\ ~Usable(ImpHeader.index[NextPos])
  /\ ixs' = Append(ixs, NewImpIndex(ImpHeader))
  /\ ents' = ents \o NewEntries(ImpHeader.capacity)
  /\ UNCHANGED <<ip, pool, dequeued, tailIndex, blocks, SharedByConsumers>>

ImpNoIndex ==
  /\ ipc = "key"
  /\ ixs # <<>> => ~Usable(ImpHeader.index[NextPos])
  /\ ImpFails(FALSE)
  /\ UNCHANGED <<impShared, tailIndex, blocks, SharedByConsumers>>

\* reset_empty<implicit_context>.
ImpResetEmpty(b) ==
  IF b \in DOMAIN dequeued THEN [dequeued EXCEPT ![b] = 0] ELSE Append(dequeued, 0)

\* requisition_block: the initial pool, the free list, a new block.  Its counter
\* is reset and the entry shows it; nothing of it is seen before tailIndex moves.
TakeBlock(b) ==
  /\ pool' = [free |-> pool.free \ {b}, gone |-> pool.gone \ {b}]
  /\ blocks' = IF b \in DOMAIN blocks THEN blocks ELSE Append(blocks, FreshBlock(b))
  /\ dequeued' = ImpResetEmpty(b)
  /\ ents' = [ents EXCEPT ![ImpHeader.index[ImpHeader.tail]].value = b]
  /\ ip' = [tailBlock |-> b,
            call |-> [ip.call EXCEPT !.new = Append(@, b), !.need = @ - 1,
                        !.pc = IF ip.call.need = 1 THEN "construct" ELSE "limit"]]

InInitialPool == Len(blocks) < PoolSize
\* The blocks it may get: memory of destroyed blocks is given out again.
BlockChoices ==
  IF ~InInitialPool /\ pool.free # {} THEN pool.free
  ELSE IF ~InInitialPool /\ pool.gone # {} THEN pool.gone ELSE {Len(blocks) + 1}

ImpRequisition ==
  /\ ipc = "block"
  /\ \E b \in BlockChoices : TakeBlock(b)
  /\ UNCHANGED <<ixs, tailIndex, SharedByConsumers>>

ImpNoBlock ==
  /\ ipc = "block" /\ ~InInitialPool /\ pool.free = {}
  /\ ImpFails(TRUE)
  /\ UNCHANGED <<impShared, tailIndex, blocks, SharedByConsumers>>

\* rewind_block_index_tail, and the entry loses its block.
ImpUndoEntry ==
  /\ ipc = "undo" /\ ip.call.undo # <<>>
  /\ ents' = [ents EXCEPT ![EntryFor(Head(ip.call.undo))].value = NoBlock]
  /\ ixs' = [ixs EXCEPT ![Len(ixs)].tail = (@ - 1) % ImpHeader.capacity]
  /\ ImpGoes([undo |-> Tail(ip.call.undo)])
  /\ UNCHANGED <<pool, dequeued, tailIndex, blocks, SharedByConsumers>>

\* add_blocks_to_free_list, and the call returns false.
ImpUndone ==
  /\ ipc = "undo" /\ ip.call.undo = <<>>
  /\ pool' = Returned({ip.call.new[j] : j \in DOMAIN ip.call.new})
  /\ ip' = [call |-> IpIdle, tailBlock |-> ip.call.start]
  /\ UNCHANGED <<ents, ixs, dequeued, tailIndex, blocks, SharedByConsumers>>

\* Where the call puts the item of index i: the blocks follow each other.
ImpPlace(i) ==
  LET chain == (IF tailIndex % BLOCK_SIZE = 0 THEN <<>> ELSE <<ip.call.start>>) \o ip.call.new
  IN  chain[(Base(i) - Base(tailIndex)) \div BLOCK_SIZE + 1]

ImpConstruct ==
  /\ ipc = "construct"
  /\ LET new == tailIndex..(tailIndex + ip.call.n - 1)
         at(b, s) == {i \in new : ImpPlace(i) = b /\ i % BLOCK_SIZE = s}
     IN  blocks' = [b \in DOMAIN blocks |-> [blocks[b] EXCEPT !.item =
           [s \in Slots |-> IF at(b, s) # {} THEN Min(at(b, s)) ELSE @[s]]]]
  /\ ImpGoes([pc |-> "store"])
  /\ UNCHANGED <<impShared, tailIndex, SharedByConsumers>>

ImpStoreTail ==
  /\ ipc = "store"
  /\ tailIndex' = tailIndex + ip.call.n
  /\ ImpGoes(IpIdle)
  /\ UNCHANGED <<impShared, blocks, SharedByConsumers>>

---------------------------------------------------------------------------
(* Consumers, from a claimed index on.                                      *)

\* get_block_index_index_for_index in three loads
ImpLoadIndex(c) ==
  /\ AtPc(c, "index")
  /\ Proceeds(c, [pc |-> "tail", hdr |-> Len(ixs)])
  /\ UNCHANGED <<impVars, SharedByProducer, headIndex, counts, blocks>>

ImpLoadTail(c) ==
  /\ AtPc(c, "tail")
  /\ Proceeds(c, [pc |-> "key", front |-> ixs[X(c).hdr].tail])
  /\ UNCHANGED <<impVars, SharedByProducer, headIndex, counts, blocks>>

ImpLoadKey(c) ==
  LET h == ixs[X(c).hdr]
  IN  /\ AtPc(c, "key")
      /\ Proceeds(c, [pc |-> "take", front |-> 0, slot |->
           PositionOf(h, X(c).first, X(c).front, ents[h.index[X(c).front]].key)])
      /\ UNCHANGED <<impVars, SharedByProducer, headIndex, counts, blocks>>

ImpEntry(c) == ixs[X(c).hdr].index[X(c).slot]
PartSlots(c) == {i % BLOCK_SIZE : i \in Part(c)}

\* The items of one block are moved out and destroyed ...
ImpTake(c) ==
  LET b == ents[ImpEntry(c)].value
  IN  /\ AtPc(c, "take")
      /\ blocks' = [blocks EXCEPT ![b].item =
                      [s \in Slots |-> IF s \in PartSlots(c) THEN NoItem ELSE @[s]]]
      /\ Proceeds(c, [pc |-> "count", block |-> b])
      /\ UNCHANGED <<impVars, SharedByProducer, headIndex, counts>>

\* set_many_empty: it is this call that has emptied the block
Empties(c) == dequeued[X(c).block] + Cardinality(Part(c)) = BLOCK_SIZE

\* The call goes on with the items in the next block, by the next entry.
ImpGoesOn(c) ==
  LET taken == Cardinality(Part(c))
  IN  Proceeds(c, IF taken = X(c).n THEN Idle
               ELSE [pc |-> "take", first |-> X(c).first + taken, n |-> X(c).n - taken,
                     slot |-> (X(c).slot + 1) % ixs[X(c).hdr].capacity, block |-> NoBlock])

\* ... and counted.
ImpSetEmpty(c) ==
  /\ AtPc(c, "count")
  /\ dequeued' = [dequeued EXCEPT ![X(c).block] = @ + Cardinality(Part(c))]
  /\ IF Empties(c) THEN Proceeds(c, [pc |-> "forget"]) ELSE ImpGoesOn(c)
  /\ UNCHANGED <<ents, ixs, ip, pool, SharedByProducer, headIndex, counts, blocks>>

\* An empty block is removed from the index, then returned.
ImpForget(c) ==
  /\ AtPc(c, "forget")
  /\ ents' = [ents EXCEPT ![ImpEntry(c)].value = NoBlock]
  /\ Proceeds(c, [pc |-> "return"])
  /\ UNCHANGED <<ixs, ip, pool, dequeued, SharedByProducer, headIndex, counts, blocks>>

ImpReturn(c) ==
  /\ AtPc(c, "return")
  /\ pool' = Returned({X(c).block})
  /\ ImpGoesOn(c)
  /\ UNCHANGED <<ents, ixs, ip, dequeued, SharedByProducer, headIndex, counts, blocks>>

---------------------------------------------------------------------------
\* ImplicitProducer::enqueue and enqueue_bulk.
ImpProducerStep ==
  /\ \/ ImpEnqueueOne \/ ImpEnqueueMany \/ ImpCheckLimit \/ StoreKey \/ StoreIndexTail
     \/ GrowImpIndex \/ ImpNoIndex \/ ImpRequisition \/ ImpNoBlock \/ ImpUndoEntry \/ ImpUndone
     \/ ImpConstruct \/ ImpStoreTail
  /\ UNCHANGED <<headers, pr>>

\* ImplicitProducer::dequeue and dequeue_bulk.
ImpConsumerStep(c) ==
  \/ ClaimStep(c) /\ UNCHANGED impVars
  \/ ImpLoadIndex(c) \/ ImpLoadTail(c) \/ ImpLoadKey(c) \/ ImpTake(c) \/ ImpSetEmpty(c)
  \/ ImpForget(c) \/ ImpReturn(c)

ImpNext == ImpProducerStep \/ \E c \in CqConsumers : ImpConsumerStep(c)

ImpSpec == ImpInit /\ [][ImpNext]_<<cqVars, impVars>>

---------------------------------------------------------------------------
(* Properties.                                                              *)

\* Every variable has its type: no block counts more items than it has, entries
\* hold the bases of blocks.
ImpTypeOK ==
  /\ \A b \in DOMAIN dequeued : dequeued[b] \in 0..BLOCK_SIZE
  /\ \A e \in DOMAIN ents : /\ ents[e].key = INVALID_BLOCK_BASE \/ ents[e].key % BLOCK_SIZE = 0
                            /\ ents[e].value \in {Garbage, NoBlock} \cup DOMAIN blocks
  /\ \A h \in DOMAIN ixs : ixs[h].tail \in DOMAIN ixs[h].index
  /\ pool.free \cup pool.gone \subseteq DOMAIN blocks

\* A claimed index leads to the entry with its base and the block that holds
\* that very item, through whatever index, tail and key the consumer read while
\* the producer moved on, took back a failed call or replaced the index (the
\* assertion of get_block_index_index_for_index).
ImpClaimFindsItem ==
  \A c \in CqConsumers : AtPc(c, "take") =>
    LET e == ents[ImpEntry(c)]
    IN  /\ e.key = Base(X(c).first) /\ e.value \in DOMAIN blocks
        /\ \A i \in Part(c) : blocks[e.value].item[i % BLOCK_SIZE] = i

\* A block that was returned to the queue, and may be given to any producer, holds
\* no item, and no consumer is still busy with it, nor is the producer about to
\* put an item into it.
ReturnedAreUnused ==
  \A b \in pool.free \cup pool.gone :
    /\ \A s \in Slots : blocks[b].item[s] = NoItem
    /\ \A c \in CqConsumers : X(c).block # b
    /\ ipc = "construct" =>
         b \notin {ImpPlace(i) : i \in tailIndex..(tailIndex + ip.call.n - 1)}

\* The blocks ~ImplicitProducer passes on its way from the head to the tail.
Passed == [k \in 1..((Base(tailIndex - 1) - Base(headIndex)) \div BLOCK_SIZE + 1) |->
             ents[EntryFor(headIndex + (k - 1) * BLOCK_SIZE)].value]
\* It returns each when it comes to the next one, and the tail block at the end
\* if it is still its own.
ReturnsTail ==
  ip.tailBlock # NoBlock /\ (headIndex # tailIndex \/ tailIndex % BLOCK_SIZE # 0)
ReturnedAtEnd ==
  (IF headIndex = tailIndex THEN <<>> ELSE SubSeq(Passed, 1, Len(Passed) - 1))
  \o (IF ReturnsTail THEN <<ip.tailBlock>> ELSE <<>>)

\* ~ImplicitProducer, which needs the index to find its way, returns each block
\* that was not returned before once, whatever calls failed or were undone.
DestructorReturnsBlocks ==
  ipc = "idle" /\ Quiescent /\ dequeued # <<>> =>
    LET r == ReturnedAtEnd
        owned == DOMAIN dequeued \ (pool.free \cup pool.gone)
    IN  Len(r) = Cardinality(owned) /\ {r[k] : k \in DOMAIN r} = owned

\* ImplicitProducer: an index that a consumer has claimed leads to its item, and
\* each block is given back once, and only when nobody needs it: by the last
\* consumer of a full block, a failed call, the destructor.
ImpInv == ImpTypeOK /\ ImpClaimFindsItem /\ ReturnedAreUnused /\ DestructorReturnsBlocks
=============================================================================
