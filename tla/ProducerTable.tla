---------------------------- MODULE ProducerTable ----------------------------
(***************************************************************************)
(* The implicit producers of moodycamel::ConcurrentQueue                    *)
(* (sync/moody/concurrentqueue.h): a lock-free hash table from thread ids   *)
(* to producers that grows by adding tables in front of the old ones, and   *)
(* the reuse of the producers of threads that have exited.                  *)
(***************************************************************************)
EXTENDS Integers, Sequences, FiniteSets

CONSTANTS
  PtThreads,   \* thread ids; an id may come back after its thread has exited
  EmptyKey,    \* invalid_thread_id: never used
  TombKey,     \* invalid_thread_id2: its thread has exited
  InitialHashSize,  \* INITIAL_IMPLICIT_PRODUCER_HASH_SIZE
  PtCalls,     \* bound: calls of all threads
  PtExits      \* bound: threads that exit

ASSUME PtAssumption ==
  /\ IsFiniteSet(PtThreads) /\ {EmptyKey, TombKey} \cap PtThreads = {} /\ EmptyKey # TombKey
  /\ InitialHashSize \in Nat \ {0} /\ PtCalls \in Nat /\ PtExits \in Nat

VARIABLES
  tables,      \* the hash tables, implicitProducerHash last
  hashCount,   \* implicitProducerHashCount
  resizing,    \* implicitProducerHashResizeInProgress
  inactive,    \* one flag per producer of the list
  th,          \* thread -> its call, and the producer it was given
  used         \* how much of the bounds is used up

ptVars == <<tables, hashCount, resizing, inactive, th, used>>

NoProducer == 0
NewTable(cap) == [cap |-> cap, key |-> [i \in 0..(cap - 1) |-> EmptyKey],
                  val |-> [i \in 0..(cap - 1) |-> NoProducer]]
\* hash_thread_id: everybody starts at the same slot, the hardest case.
Hash(t) == 0
\* The locals of a call with main table m: on its way through table tbl, from slot
\* i on, or with the new count n in hand.
Looking(pc, m, tbl, i, p) == [pc |-> pc, m |-> m, tbl |-> tbl, i |-> i, n |-> 0, p |-> p]
Growing(pc, m, n) ==
  [pc |-> pc, m |-> m, tbl |-> 0, i |-> 0, n |-> n, p |-> NoProducer]
NotInCall == Growing("idle", 0, 0)

PtInit ==
  /\ tables = <<NewTable(InitialHashSize)>> /\ hashCount = 0 /\ resizing = FALSE
  /\ inactive = <<>>
  /\ th = [t \in PtThreads |-> [x |-> NotInCall, mine |-> NoProducer]]
  /\ used = [calls |-> 0, exits |-> 0]

Y(t) == th[t].x
Sets(t, x) == th' = [th EXCEPT ![t] = [x |-> x, mine |-> @.mine]]
\* get_or_add_implicit_producer returns p (or nothing, for want of memory).
Returns(t, p) ==
  th' = [th EXCEPT ![t] = [x |-> NotInCall, mine |-> IF p = NoProducer THEN @.mine ELSE p]]
ProbedSlot(t, tbl) == Y(t).i % tables[tbl].cap
NextSlot(t, tbl) == (Y(t).i + 1) % tables[tbl].cap
KeyAt(t, tbl) == tables[tbl].key[ProbedSlot(t, tbl)]
ValAt(t, tbl) == tables[tbl].val[ProbedSlot(t, tbl)]
Fill(t, tbl, key, p) ==
  tables' = [tables EXCEPT ![tbl] = [cap |-> @.cap, key |-> [@.key EXCEPT ![ProbedSlot(t, tbl)] = key],
                                     val |-> [@.val EXCEPT ![ProbedSlot(t, tbl)] = p]]]

---------------------------------------------------------------------------
(* get_or_add_implicit_producer, slot by slot.                              *)

GetOrAdd(t) ==
  /\ Y(t).pc = "idle" /\ used.calls < PtCalls
  /\ used' = [used EXCEPT !.calls = @ + 1]
  /\ Sets(t, Looking("probe", Len(tables), Len(tables), Hash(t), NoProducer))
  /\ UNCHANGED <<tables, hashCount, resizing, inactive>>

\* The id is looked for in the main table, then in those before it.
Probe(t) ==
  /\ Y(t).pc = "probe"
  /\ LET x == Y(t)
         k == KeyAt(t, x.tbl)
         v == ValAt(t, x.tbl)
     IN  \/ k = t /\ x.tbl = x.m /\ Returns(t, v)
         \/ k = t /\ x.tbl # x.m /\ Sets(t, Looking("lazy", x.m, 0, Hash(t), v))
         \/ /\ k = EmptyKey /\ x.tbl > 1
            /\ Sets(t, Looking("probe", x.m, x.tbl - 1, Hash(t), NoProducer))
         \/ k = EmptyKey /\ x.tbl = 1 /\ Sets(t, Growing("count", x.m, 0))
         \/ /\ k \notin {t, EmptyKey}
            /\ Sets(t, Looking("probe", x.m, x.tbl, NextSlot(t, x.tbl), NoProducer))
  /\ UNCHANGED <<tables, hashCount, resizing, inactive, used>>

\* Found in an older table: added to the main one too.
LazyAdd(t) ==
  /\ Y(t).pc = "lazy"
  /\ IF KeyAt(t, Y(t).m) \in {EmptyKey, TombKey}
     THEN Fill(t, Y(t).m, t, Y(t).p) /\ Returns(t, Y(t).p)
     ELSE UNCHANGED tables /\ Sets(t, Looking("lazy", Y(t).m, 0, NextSlot(t, Y(t).m), Y(t).p))
  /\ UNCHANGED <<hashCount, resizing, inactive, used>>

CountSlot(t) ==
  /\ Y(t).pc = "count"
  /\ hashCount' = hashCount + 1
  /\ Sets(t, Growing("grow", Y(t).m, hashCount + 1))
  /\ UNCHANGED <<tables, resizing, inactive, used>>

\* Half full: whoever gets the resize lock allocates a bigger table.
LockResize(t) ==
  /\ Y(t).pc = "grow"
  /\ LET lock == Y(t).n >= tables[Y(t).m].cap \div 2 /\ ~resizing
     IN  /\ resizing' = (resizing \/ lock)
         /\ Sets(t, Growing(IF lock THEN "resize" ELSE "fit", Y(t).m, Y(t).n))
  /\ UNCHANGED <<tables, hashCount, inactive, used>>

\* The capacity is doubled, and again for as long as n slots are half of it: the one
\* member of NewCapacity.
NewCapacity(cap, n) ==
  {c \in 1..(2 * cap + 4 * n) :
     \E k \in 1..(n + 2) : c = cap * 2^k /\ n < c \div 2 /\ (k = 1 \/ n >= c \div 4)}

\* Under the lock, which is released on every way out.  (Faulty: not when the
\* allocation fails.)
LockedResize(t) ==
  /\ Y(t).pc = "resize"
  /\ hashCount' = hashCount - 1 /\ Returns(t, NoProducer)
  /\ UNCHANGED <<tables, resizing, inactive, used>>
Resize(t) ==
  /\ Y(t).pc = "resize"
  /\ resizing' = FALSE
  /\ LET m == Len(tables)
         wanted == Y(t).n >= tables[m].cap \div 2
     IN  \/ /\ wanted
            /\ \E cap \in NewCapacity(tables[m].cap, Y(t).n) : tables' = Append(tables, NewTable(cap))
            /\ Sets(t, Growing("fit", m + 1, Y(t).n))
            /\ UNCHANGED hashCount
         \/ /\ wanted
            /\ hashCount' = hashCount - 1 /\ Returns(t, NoProducer) /\ UNCHANGED tables
         \/ /\ ~wanted
            /\ Sets(t, Growing("fit", m, Y(t).n)) /\ UNCHANGED <<tables, hashCount>>
  /\ UNCHANGED <<inactive, used>>

\* Three quarters full: wait for the bigger table, else go on with this one.
Fit(t) ==
  /\ Y(t).pc = "fit"
  /\ LET cap == tables[Y(t).m].cap
     IN  Sets(t, IF Y(t).n < cap \div 2 + cap \div 4 THEN Growing("recycle", Y(t).m, Y(t).n)
                 ELSE Growing("grow", Len(tables), Y(t).n))
  /\ UNCHANGED <<tables, hashCount, resizing, inactive, used>>

\* recycle_or_create_producer: the walk along the list takes an inactive
\* producer it meets, and may miss one that turns inactive behind it.  (Faulty:
\* it leaves the flag.)
SharingRecycle(t) ==
  /\ Y(t).pc = "recycle"
  /\ LET to(p) == Sets(t, Looking("insert", Y(t).m, 0, Hash(t), p))
     IN  \/ \E p \in DOMAIN inactive : inactive[p] /\ to(p) /\ UNCHANGED inactive
         \/ inactive' = Append(inactive, FALSE) /\ to(Len(inactive) + 1)
  /\ UNCHANGED <<tables, hashCount, resizing, used>>
Recycle(t) ==
  /\ Y(t).pc = "recycle"
  /\ LET to(p) == Sets(t, Looking("insert", Y(t).m, 0, Hash(t), p))
     IN  \/ \E p \in DOMAIN inactive :
              /\ inactive[p] /\ inactive' = [inactive EXCEPT ![p] = FALSE]
              /\ to(p) /\ UNCHANGED hashCount
         \/ /\ inactive' = Append(inactive, FALSE)
            /\ to(Len(inactive) + 1) /\ UNCHANGED hashCount
         \/ /\ hashCount' = hashCount - 1 /\ Returns(t, NoProducer) /\ UNCHANGED inactive
  /\ UNCHANGED <<tables, resizing, used>>

\* A slot of an exited thread is counted already; an empty one was counted now.
Insert(t) ==
  /\ Y(t).pc = "insert"
  /\ LET k == KeyAt(t, Y(t).m)
     IN  IF k \in {EmptyKey, TombKey}
         THEN /\ Fill(t, Y(t).m, t, Y(t).p) /\ Returns(t, Y(t).p)
              /\ hashCount' = IF k = TombKey THEN hashCount - 1 ELSE hashCount
         ELSE /\ Sets(t, Looking("insert", Y(t).m, 0, NextSlot(t, Y(t).m), Y(t).p))
              /\ UNCHANGED <<tables, hashCount>>
  /\ UNCHANGED <<resizing, inactive, used>>

---------------------------------------------------------------------------
(* implicit_producer_thread_exited                                          *)

Exit(t) ==
  /\ Y(t).pc = "idle" /\ th[t].mine # NoProducer /\ used.exits < PtExits
  /\ used' = [used EXCEPT !.exits = @ + 1]
  /\ Sets(t, Looking("exit", 0, Len(tables), Hash(t), NoProducer))
  /\ UNCHANGED <<tables, hashCount, resizing, inactive>>

\* (Faulty: the slot becomes empty.)
EmptyingExitProbe(t) ==
  /\ Y(t).pc = "exit"
  /\ LET x == Y(t)
         k == KeyAt(t, x.tbl)
     IN  /\ IF k = t THEN Fill(t, x.tbl, EmptyKey, ValAt(t, x.tbl)) ELSE UNCHANGED tables
         /\ \/ k \in {t, EmptyKey} /\ x.tbl = 1 /\ Sets(t, Growing("recyclable", 0, 0))
            \/ /\ k \in {t, EmptyKey} /\ x.tbl > 1
               /\ Sets(t, Looking("exit", 0, x.tbl - 1, Hash(t), NoProducer))
            \/ /\ k \notin {t, EmptyKey}
               /\ Sets(t, Looking("exit", 0, x.tbl, NextSlot(t, x.tbl), NoProducer))
  /\ UNCHANGED <<hashCount, resizing, inactive, used>>
\* All tables are searched: the id becomes a tomb where it is found.
ExitProbe(t) ==
  /\ Y(t).pc = "exit"
  /\ LET x == Y(t)
         k == KeyAt(t, x.tbl)
     IN  /\ IF k = t THEN Fill(t, x.tbl, TombKey, ValAt(t, x.tbl)) ELSE UNCHANGED tables
         /\ \/ k \in {t, EmptyKey} /\ x.tbl = 1 /\ Sets(t, Growing("recyclable", 0, 0))
            \/ /\ k \in {t, EmptyKey} /\ x.tbl > 1
               /\ Sets(t, Looking("exit", 0, x.tbl - 1, Hash(t), NoProducer))
            \/ /\ k \notin {t, EmptyKey}
               /\ Sets(t, Looking("exit", 0, x.tbl, NextSlot(t, x.tbl), NoProducer))
  /\ UNCHANGED <<hashCount, resizing, inactive, used>>

\* The producer may be reused, and the id may belong to a new thread.
MarkInactive(t) ==
  /\ Y(t).pc = "recyclable"
  /\ inactive' = [inactive EXCEPT ![th[t].mine] = TRUE]
  /\ th' = [th EXCEPT ![t] = [x |-> NotInCall, mine |-> NoProducer]]
  /\ UNCHANGED <<tables, hashCount, resizing, used>>

---------------------------------------------------------------------------
PtNext == \E t \in PtThreads :
  \/ GetOrAdd(t) \/ Probe(t) \/ LazyAdd(t) \/ CountSlot(t) \/ LockResize(t) \/ Resize(t)
  \/ Fit(t) \/ Recycle(t) \/ Insert(t) \/ Exit(t) \/ ExitProbe(t) \/ MarkInactive(t)

\* A thread inside a call runs on.
PtFairness == \A t \in PtThreads : WF_ptVars(
  \/ Probe(t) \/ LazyAdd(t) \/ CountSlot(t) \/ LockResize(t) \/ Resize(t) \/ Fit(t)
  \/ Recycle(t) \/ Insert(t) \/ ExitProbe(t) \/ MarkInactive(t))

PtSpec == PtInit /\ [][PtNext]_ptVars /\ PtFairness

---------------------------------------------------------------------------
(* Properties.                                                              *)

\* A producer serves one thread at a time: enqueue relies on being the only
\* writer of its tail.
OneThreadPerProducer ==
  \A t, u \in PtThreads : t # u /\ th[t].mine # NoProducer => th[t].mine # th[u].mine

\* A thread finds its own producer again in every later call, whatever tables
\* were added and whatever other threads came and went.
SameProducerAgain ==
  [][\A t \in PtThreads : th[t].mine # NoProducer => th'[t].mine \in {th[t].mine, NoProducer}]_ptVars

\* The probe loops end: every table keeps an empty slot.
SlotLeft == \A n \in DOMAIN tables : \E i \in DOMAIN tables[n].key : tables[n].key[i] = EmptyKey

\* The table of implicit producers gives a producer to one thread at a time and
\* never fills up.
PtInv == OneThreadPerProducer /\ SlotLeft

\* Every call comes back, also those that find the table full while another
\* thread is busy with a bigger one.
GetReturns == \A t \in PtThreads : []<>(Y(t).pc = "idle")
=============================================================================
