---------------------------- MODULE BlockingQueue ----------------------------
(***************************************************************************)
(* BlockingConcurrentQueue (sync/moody/blockingconcurrentqueue.h) and its   *)
(* LightweightSemaphore (sync/moody/lightweightsemaphore.h): an atomic      *)
(* count in front of a kernel semaphore.  A negative count is the number of *)
(* threads that went, or are about to go, to sleep; a call that times out   *)
(* takes its decrement back unless a post is already on its way.  The queue *)
(* inside is the number of items it holds (ConcurrentQueue models it).      *)
(***************************************************************************)
EXTENDS Integers, FiniteSets

CONSTANTS
  BqProducers, BqConsumers,  \* threads
  m_maxSpins,                \* spins before a thread goes to sleep
  MaxBulk,                   \* largest count of a bulk call
  BqItems,                   \* bound: items put in one behaviour
  BqCalls                    \* bound: dequeue calls of one consumer

ASSUME BqAssumption ==
  /\ IsFiniteSet(BqProducers) /\ IsFiniteSet(BqConsumers)
  /\ m_maxSpins \in Nat /\ MaxBulk \in Nat \ {0} /\ BqItems \in Nat /\ BqCalls \in Nat

VARIABLES
  inner,    \* items in the ConcurrentQueue
  m_count,  \* the atomic count
  m_sema,   \* value of the kernel semaphore
  put,      \* producer -> its call: pc, count, posts still to make
  get,      \* consumer -> its call and the locals of the semaphore's methods
  produced  \* history: items put so far

bqVars == <<inner, m_count, m_sema, put, get, produced>>

Modes == {"try", "zero", "timed", "forever"}
Locals(pc, mode, max, calls) ==
  [pc |-> pc, mode |-> mode, max |-> max, spin |-> 0, old |-> 0, tokens |-> 0, got |-> 0,
   calls |-> calls]
GetIdle(calls) == Locals("idle", "try", 0, calls)
Fewer(m, n) == IF m < n THEN m ELSE n

BqInit ==
  /\ inner = 0 /\ m_count = 0 /\ m_sema = 0 /\ produced = 0
  /\ put = [p \in BqProducers |-> [pc |-> "idle", count |-> 0, posts |-> 0]]
  /\ get = [c \in BqConsumers |-> GetIdle(0)]

---------------------------------------------------------------------------
(* Producers.                                                               *)

\* The inner enqueue, which may fail for want of memory or, for the try_
\* forms, of space; only a success goes on to signal().
PutItems(p, n) ==
  /\ put[p].pc = "idle" /\ produced + n <= BqItems
  /\ \E ok \in BOOLEAN :
       /\ inner' = IF ok THEN inner + n ELSE inner
       /\ put' = [put EXCEPT ![p] = [pc |-> IF ok THEN "signal" ELSE "idle",
                                     count |-> IF ok THEN n ELSE 0, posts |-> 0]]
  /\ produced' = produced + n
  /\ UNCHANGED <<m_count, m_sema, get>>

Enqueue(p) == PutItems(p, 1)
EnqueueBulk(p) == \E n \in 2..MaxBulk : PutItems(p, n)
TryEnqueue(p) == PutItems(p, 1)
TryEnqueueBulk(p) == \E n \in 2..MaxBulk : PutItems(p, n)

\* signal(count): fetch_add, then one post for each sleeper it pays for.
ToRelease(old, count) == IF Fewer(-old, count) > 0 THEN Fewer(-old, count) ELSE 0

Signal(p) ==
  /\ put[p].pc = "signal"
  /\ m_count' = m_count + put[p].count
  /\ LET r == ToRelease(m_count, put[p].count)
     IN  put' = [put EXCEPT ![p] = [pc |-> IF r > 0 THEN "post" ELSE "idle",
                                    count |-> 0, posts |-> r]]
  /\ UNCHANGED <<inner, m_sema, get, produced>>

\* sem_post, once per turn of the loop in details::Semaphore::signal.  (Faulty:
\* one post for all.)
OnePost(p) ==
  /\ put[p].pc = "post"
  /\ m_sema' = m_sema + 1
  /\ put' = [put EXCEPT ![p] = [pc |-> "idle", count |-> 0, posts |-> 0]]
  /\ UNCHANGED <<inner, m_count, get, produced>>
Post(p) ==
  /\ put[p].pc = "post"
  /\ m_sema' = m_sema + 1
  /\ put' = [put EXCEPT ![p] = [pc |-> IF put[p].posts = 1 THEN "idle" ELSE "post",
                                count |-> 0, posts |-> put[p].posts - 1]]
  /\ UNCHANGED <<inner, m_count, get, produced>>

---------------------------------------------------------------------------
(* Consumers.                                                               *)

At(c, pc) == get[c].pc = pc
Moves(c, g) == get' = [get EXCEPT ![c] = g]
Leaves(c) == Moves(c, GetIdle(get[c].calls))
Quiet == UNCHANGED <<inner, put, produced>>

\* A call of the queue that asks the semaphore for up to max tokens.
Call(c, mode, max) ==
  /\ At(c, "idle") /\ get[c].calls < BqCalls
  /\ Moves(c, Locals("load", mode, max, get[c].calls + 1))
  /\ Quiet /\ UNCHANGED <<m_count, m_sema>>

TryDequeue(c) == Call(c, "try", 1)
TryDequeueBulk(c) == \E max \in 2..MaxBulk : Call(c, "try", max)
WaitDequeue(c) == Call(c, "forever", 1)
WaitDequeueTimed(c) == \E mode \in {"zero", "timed"} : Call(c, mode, 1)
WaitDequeueBulk(c) == \E max \in 2..MaxBulk : Call(c, "forever", max)
WaitDequeueBulkTimed(c) ==
  \E mode \in {"zero", "timed"}, max \in 2..MaxBulk : Call(c, mode, max)

\* tryWait and tryWaitMany give up: the second part of waitMany keeps its one
\* token, the call returns, a wait begins to spin.
GiveUp(c) ==
  \/ /\ get[c].tokens > 0
     /\ Moves(c, [get[c] EXCEPT !.pc = "take"])
  \/ /\ get[c].tokens = 0 /\ get[c].mode = "try"
     /\ Leaves(c)
  \/ /\ get[c].tokens = 0 /\ get[c].mode # "try"
     /\ Moves(c, [get[c] EXCEPT !.pc = "spin", !.spin = m_maxSpins])

\* The load at the head of tryWait and tryWaitMany.
Load(c) ==
  /\ At(c, "load")
  /\ IF m_count > 0 THEN Moves(c, [get[c] EXCEPT !.pc = "cas", !.old = m_count]) ELSE GiveUp(c)
  /\ Quiet /\ UNCHANGED <<m_count, m_sema>>

\* Their compare_exchange: takes up to max, or reads the count again.
TryWaitMany(c) ==
  /\ At(c, "cas")
  /\ LET n == Fewer(get[c].old, get[c].max)
     IN  IF m_count = get[c].old
         THEN /\ m_count' = m_count - n
              /\ Moves(c, [get[c] EXCEPT !.pc = "take", !.tokens = @ + n])
         ELSE /\ IF m_count > 0 THEN Moves(c, [get[c] EXCEPT !.old = m_count]) ELSE GiveUp(c)
              /\ UNCHANGED m_count
  /\ Quiet /\ UNCHANGED m_sema

\* The spinning of waitWithPartialSpinning and waitManyWithPartialSpinning.
SpinsOn(c) == get[c].spin > 0

SpinLoad(c) ==
  /\ At(c, "spin") /\ SpinsOn(c)
  /\ IF m_count > 0
     THEN Moves(c, [get[c] EXCEPT !.pc = "spincas", !.spin = @ - 1, !.old = m_count])
     ELSE Moves(c, [get[c] EXCEPT !.spin = @ - 1])
  /\ Quiet /\ UNCHANGED <<m_count, m_sema>>
SpinCas(c) ==
  /\ At(c, "spincas")
  /\ LET n == Fewer(get[c].old, get[c].max)
     IN  IF m_count = get[c].old
         THEN m_count' = m_count - n /\ Moves(c, [get[c] EXCEPT !.pc = "take", !.tokens = n])
         ELSE UNCHANGED m_count /\ Moves(c, [get[c] EXCEPT !.pc = "spin"])
  /\ Quiet /\ UNCHANGED m_sema

\* One token came by the slow way: waitMany goes on to try for max - 1 more.
Acquired(c) ==
  Moves(c, IF get[c].max > 1 THEN [get[c] EXCEPT !.pc = "load", !.tokens = 1, !.max = @ - 1]
                             ELSE [get[c] EXCEPT !.pc = "take", !.tokens = 1])

\* fetch_sub, and what the old count tells the thread to do.
FetchSub(c) ==
  /\ At(c, "spin") /\ ~SpinsOn(c)
  /\ m_count' = m_count - 1
  /\ IF m_count > 0 THEN Acquired(c)
     ELSE Moves(c, [get[c] EXCEPT !.pc = IF get[c].mode = "zero" THEN "undo" ELSE "sleep"])
  /\ Quiet /\ UNCHANGED m_sema

\* m_sema.wait() and timed_wait() return with a token ...
SemaWait(c) ==
  /\ At(c, "sleep") /\ m_sema > 0
  /\ m_sema' = m_sema - 1
  /\ Acquired(c)
  /\ Quiet /\ UNCHANGED m_count

\* ... or timed_wait() does without.
TimedOut(c) ==
  /\ At(c, "sleep") /\ get[c].mode = "timed"
  /\ Moves(c, [get[c] EXCEPT !.pc = "undo"])
  /\ Quiet /\ UNCHANGED <<m_count, m_sema>>

\* The loop that takes the decrement back: the load ...
UndoLoad(c) ==
  /\ At(c, "undo")
  /\ Moves(c, [get[c] EXCEPT !.old = m_count,
                             !.pc = IF m_count >= 0 THEN "undotry" ELSE "undocas"])
  /\ Quiet /\ UNCHANGED <<m_count, m_sema>>
\* ... a post is on its way: try_wait for it ...  (Faulty: give up.)
LeavingUndoTryWait(c) ==
  /\ At(c, "undotry") /\ Leaves(c) /\ Quiet /\ UNCHANGED <<m_count, m_sema>>
UndoTryWait(c) ==
  /\ At(c, "undotry")
  /\ IF m_sema > 0 THEN m_sema' = m_sema - 1 /\ Acquired(c)
                   ELSE UNCHANGED m_sema /\ Moves(c, [get[c] EXCEPT !.pc = "undo"])
  /\ Quiet /\ UNCHANGED m_count
\* ... nobody is on its way: one sleeper fewer, and the call returns nothing.
UndoCas(c) ==
  /\ At(c, "undocas")
  /\ IF m_count = get[c].old
     THEN m_count' = m_count + 1 /\ Leaves(c)
     ELSE UNCHANGED m_count /\ Moves(c, [get[c] EXCEPT !.pc = "undo"])
  /\ Quiet /\ UNCHANGED m_sema

\* Each token is changed for an item; inner.try_dequeue_bulk may find fewer
\* than were asked for, and the caller asks again.
TakeItems(c) ==
  /\ At(c, "take")
  /\ \E k \in 1..Fewer(get[c].tokens - get[c].got, inner) :
       /\ inner' = inner - k
       /\ IF get[c].got + k = get[c].tokens THEN Leaves(c)
          ELSE Moves(c, [get[c] EXCEPT !.got = @ + k])
  /\ UNCHANGED <<m_count, m_sema, put, produced>>

---------------------------------------------------------------------------
BqPutStep(p) == Signal(p) \/ Post(p)
BqGetStep(c) ==
  \/ Load(c) \/ TryWaitMany(c) \/ SpinLoad(c) \/ SpinCas(c) \/ FetchSub(c)
  \/ SemaWait(c) \/ TimedOut(c) \/ UndoLoad(c) \/ UndoTryWait(c) \/ UndoCas(c)
  \/ TakeItems(c)

BqNext ==
  \/ \E p \in BqProducers : \/ Enqueue(p) \/ EnqueueBulk(p) \/ TryEnqueue(p)
                            \/ TryEnqueueBulk(p) \/ BqPutStep(p)
  \/ \E c \in BqConsumers : \/ TryDequeue(c) \/ TryDequeueBulk(c) \/ WaitDequeue(c)
                            \/ WaitDequeueTimed(c) \/ WaitDequeueBulk(c)
                            \/ WaitDequeueBulkTimed(c) \/ BqGetStep(c)

\* A thread inside a call runs on; nobody has to start one.
BqFairness ==
  /\ \A p \in BqProducers : WF_bqVars(BqPutStep(p))
  /\ \A c \in BqConsumers : WF_bqVars(BqGetStep(c))

BqSpec == BqInit /\ [][BqNext]_bqVars /\ BqFairness

---------------------------------------------------------------------------
(* Properties.                                                              *)

\* Every variable has its type; no count leaves its range.
BqTypeOK ==
  /\ inner \in 0..BqItems /\ produced \in 0..BqItems
  /\ m_count \in -Cardinality(BqConsumers)..BqItems
  /\ m_sema \in 0..Cardinality(BqConsumers)
  /\ put \in [BqProducers -> [pc : {"idle", "signal", "post"}, count : 0..MaxBulk,
                              posts : 0..MaxBulk]]
  /\ get \in [BqConsumers -> [pc : {"idle", "load", "cas", "spin", "spincas", "sleep", "undo",
                                    "undotry", "undocas", "take"},
                              mode : Modes, max : 0..MaxBulk, spin : 0..m_maxSpins,
                              old : -Cardinality(BqConsumers)..BqItems,
                              tokens : 0..MaxBulk, got : 0..MaxBulk, calls : 0..BqCalls]]

Sleeping == {c \in BqConsumers : get[c].pc \in {"sleep", "undo", "undotry", "undocas"}}
\* the tokens that were granted and not changed for an item yet, the posts that
\* producers still have to make
Owed  == {x \in BqConsumers \X (1..MaxBulk) : x[2] \in get[x[1]].got + 1 .. get[x[1]].tokens}
ToPost == {x \in BqProducers \X (1..MaxBulk) : x[2] \in 1..put[x[1]].posts}

\* A consumer that holds tokens finds its items: try_dequeue after a
\* successful wait never loops on a queue that has fewer items than were
\* granted.
TokensHaveItems == Cardinality(Owed) <= inner

\* Every thread that decremented the count and did not take its token is paid
\* for once: by the kernel semaphore, by a post still to be made, or by the
\* negative count.  The repair after a timeout keeps the balance.
SleepersAccounted ==
  Cardinality(Sleeping) =
    m_sema + Cardinality(ToPost) + IF m_count < 0 THEN -m_count ELSE 0

\* LightweightSemaphore over the queue: tokens have items, and sleepers are
\* paid for, also when a timeout races a signal.
BqInv == BqTypeOK /\ TokensHaveItems /\ SleepersAccounted

\* No wakeup is lost: a thread does not sleep for ever on a queue with items.
NobodySleepsOnItems == <>[](inner > 0 => \A c \in BqConsumers : get[c].pc # "sleep")

\* A call with a limit of time comes back, also when its timeout races with a
\* signal.
LimitedCallReturns ==
  \A c \in BqConsumers : []<>(get[c].mode # "forever" => get[c].pc = "idle")

\* Waiting consumers are served: nobody sleeps on items and nobody waits beyond
\* its limit of time.
WaitersServed == NobodySleepsOnItems /\ LimitedCallReturns
=============================================================================
