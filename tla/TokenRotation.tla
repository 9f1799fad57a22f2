---------------------------- MODULE TokenRotation ----------------------------
(***************************************************************************)
(* The dequeue calls of moodycamel::ConcurrentQueue                         *)
(* (sync/moody/concurrentqueue.h) over the list of its producers, and the   *)
(* consumer tokens that move from producer to producer: every QUOTA items   *)
(* everybody rotates.  The queue of one producer is its number of items and *)
(* a dequeue from it is one step, which may come back with less than there  *)
(* is while other consumers are dequeuing: what one of them has added to    *)
(* dequeueOptimisticCount in vain counts as taken until it is in            *)
(* dequeueOvercommit too.                                                   *)
(***************************************************************************)
EXTENDS Integers, Sequences, FiniteSets, FiniteSetsExt

CONSTANTS
  TrProducers,  \* producers that may be added, as numbers 1..k
  TrConsumers,  \* threads that dequeue, each with a token
  QUOTA,        \* EXPLICIT_CONSUMER_CONSUMPTION_QUOTA_BEFORE_ROTATE
  Offsets,      \* 2^32: the values of globalExplicitConsumerOffset
  TrBulk,       \* largest max of a bulk call
  TrItems,      \* bound: items in the queue at a time
  TrCalls       \* bound: calls

ASSUME TrAssumption ==
  /\ TrProducers \subseteq Nat \ {0} /\ IsFiniteSet(TrProducers)
  /\ IsFiniteSet(TrConsumers) /\ QUOTA \in Nat \ {0}
  /\ Offsets \in Nat \ {0} /\ TrBulk \in Nat \ {0} /\ TrItems \in Nat /\ TrCalls \in Nat

VARIABLES
  list,          \* the producer list, producerListTail first
  producerCount,
  adding,        \* producers that are counted and not yet in the list
  items,         \* producer -> items in its queue
  globalOffset,  \* globalExplicitConsumerOffset
  token,         \* consumer -> the members of its ConsumerToken
  call           \* consumer -> the locals of its call

trVars == <<list, producerCount, adding, items, globalOffset, token, call>>

Nobody == 0
NoCall == [kind |-> "none", pc |-> "idle", max |-> 0, count |-> 0, ptr |-> Nobody,
           best |-> Nobody, size |-> 0, nonEmpty |-> 0, tail |-> Nobody, due |-> {}, tried |-> {}]

TrInit ==
  /\ list = <<>> /\ producerCount = 0 /\ adding = {} /\ globalOffset = 0
  /\ items = [p \in TrProducers |-> 0]
  /\ LET id == CHOOSE f \in [TrConsumers -> 0..(Cardinality(TrConsumers) - 1)] :
                 \A c, d \in TrConsumers : f[c] = f[d] => c = d
     IN  token = [c \in TrConsumers |-> [initialOffset |-> id[c], lastKnown |-> Offsets - 1,
                                         consumed |-> 0, current |-> Nobody, desired |-> Nobody]]
  /\ call = [c \in TrConsumers |-> [calls |-> 0, x |-> NoCall]]

ListTail == IF list = <<>> THEN Nobody ELSE list[1]
InList == {list[i] : i \in DOMAIN list}
Position(p) == CHOOSE i \in DOMAIN list : list[i] = p
NextProd(p) == IF Position(p) = Len(list) THEN Nobody ELSE list[Position(p) + 1]
Wrapped(p, tail) == IF NextProd(p) = Nobody THEN tail ELSE NextProd(p)

---------------------------------------------------------------------------
(* Producers.                                                               *)

\* add_producer: the count comes first, the list later.
CountProducer(p) ==
  /\ p \notin InList \cup adding
  /\ producerCount' = producerCount + 1 /\ adding' = adding \cup {p}
  /\ UNCHANGED <<list, items, globalOffset, token, call>>
LinkProducer(p) ==
  /\ p \in adding
  /\ list' = <<p>> \o list /\ adding' = adding \ {p}
  /\ UNCHANGED <<producerCount, items, globalOffset, token, call>>
EnqueueTo(p) ==
  /\ p \in InList /\ MapThenSumSet(LAMBDA q : items[q], TrProducers) < TrItems
  /\ items' = [items EXCEPT ![p] = @ + 1]
  /\ UNCHANGED <<list, producerCount, adding, globalOffset, token, call>>

---------------------------------------------------------------------------
(* Consumers.                                                               *)

T(c) == token[c]
L(c) == call[c].x
To(c, x) == call' = [call EXCEPT ![c].x = x]
Fixed == <<list, producerCount, adding>>

\* The call is over; x says what it did.
Ends(x) == [x EXCEPT !.pc = "ret", !.ptr = Nobody, !.best = Nobody, !.tail = Nobody,
                     !.size = 0, !.nonEmpty = 0]
Return(c) ==
  /\ L(c).pc = "ret"
  /\ To(c, NoCall)
  /\ UNCHANGED <<Fixed, items, globalOffset, token>>

Begins(c, kind, max) ==
  /\ L(c).pc = "idle" /\ MapThenSumSet(LAMBDA d : call[d].calls, TrConsumers) < TrCalls
  /\ LET x == [NoCall EXCEPT !.kind = kind, !.max = max, !.due = InList, !.ptr = ListTail]
         byToken == kind \in {"token", "token bulk"}
         first == CASE byToken /\ (T(c).desired = Nobody \/ T(c).lastKnown # globalOffset)
                         -> [x EXCEPT !.pc = "rotate"]
                    [] byToken /\ T(c).desired # Nobody /\ T(c).lastKnown = globalOffset
                         -> [x EXCEPT !.pc = "current"]
                    [] ~byToken /\ ListTail = Nobody -> Ends(x)
                    [] OTHER -> [x EXCEPT !.pc = IF kind = "scored" THEN "score" ELSE "walk"]
     IN  call' = [call EXCEPT ![c] = [calls |-> @.calls + 1, x |-> first]]
  /\ UNCHANGED <<Fixed, items, globalOffset, token>>

TrTryDequeue(c) == Begins(c, "scored", 1)
TryDequeueNonInterleaved(c) == Begins(c, "walk", 1)
TrTryDequeueBulk(c) == \E max \in 1..TrBulk : Begins(c, "walk", max)
TryDequeueToken(c) == Begins(c, "token", 1)
TryDequeueBulkToken(c) == \E max \in 1..TrBulk : Begins(c, "token bulk", max)

\* What a look at n items can find: all of them, unless another consumer is
\* in a call.
Visible(c, n) == {k \in 0..n : k = n \/ \E d \in TrConsumers : d # c /\ L(d).pc # "idle"}
\* dequeue or dequeue_bulk of a producer takes n items; what the call knows
\* after it, and the producers that gave less than it asked for.
Taken(c, p) == Visible(c, Min({items[p], L(c).max - L(c).count}))
After(x, p, n) == [x EXCEPT !.count = @ + n,
                            !.tried = IF x.count + n < x.max THEN @ \cup {p} ELSE @]
Takes(p, n) == items' = [items EXCEPT ![p] = @ - n]

\* try_dequeue: up to three producers with items are scored by size_approx.
Score(c) ==
  /\ L(c).pc = "score"
  /\ \E size \in Visible(c, items[L(c).ptr]) :
     LET x == L(c)
         y == [x EXCEPT !.nonEmpty = IF size > 0 THEN @ + 1 ELSE @,
                        !.best = IF size > x.size THEN x.ptr ELSE @,
                        !.size = Max({@, size}), !.ptr = NextProd(x.ptr),
                        !.tried = IF size = 0 THEN @ \cup {x.ptr} ELSE @]
     IN  To(c, CASE y.nonEmpty < 3 /\ y.ptr # Nobody -> y
                 [] ~(y.nonEmpty < 3 /\ y.ptr # Nobody) /\ y.nonEmpty > 0 -> [y EXCEPT !.pc = "best"]
                 [] OTHER -> Ends(y))
  /\ UNCHANGED <<Fixed, items, globalOffset, token>>

TryBest(c) ==
  /\ L(c).pc = "best"
  /\ \E n \in Taken(c, L(c).best) :
       /\ Takes(L(c).best, n)
       /\ LET y == After(L(c), L(c).best, n)
          IN  To(c, IF y.count = 1 THEN Ends(y) ELSE [y EXCEPT !.pc = "walk", !.ptr = ListTail])
  /\ UNCHANGED <<Fixed, globalOffset, token>>

\* Every producer of the list in turn, until max items are there.
Walk(c) ==
  /\ L(c).pc = "walk"
  /\ \E n \in IF L(c).ptr = L(c).best THEN {0} ELSE Taken(c, L(c).ptr) :
     LET x == L(c)
         y == IF x.ptr = x.best THEN x ELSE After(x, x.ptr, n)
     IN  /\ Takes(x.ptr, n)
         /\ To(c, IF y.count = y.max \/ NextProd(x.ptr) = Nobody THEN Ends(y)
                  ELSE [y EXCEPT !.ptr = NextProd(x.ptr)])
  /\ UNCHANGED <<Fixed, globalOffset, token>>

\* k steps along the list, from its tail again at the end.
Along(p, k) == list[1 + ((Position(p) - 1 + k) % Len(list))]

\* update_current_producer_after_rotation
Rotate(c) ==
  /\ L(c).pc = "rotate"
  /\ IF T(c).desired = Nobody /\ ListTail = Nobody
     THEN To(c, Ends(L(c))) /\ UNCHANGED token
     ELSE LET from == IF T(c).desired # Nobody THEN T(c).desired
                      ELSE Along(ListTail, producerCount - 1 - (T(c).initialOffset % producerCount))
              delta == ((globalOffset - T(c).lastKnown) % Offsets) % producerCount
              p == Along(from, delta)
          IN  /\ token' = [token EXCEPT ![c] = [@ EXCEPT !.desired = p, !.current = p,
                                                         !.lastKnown = globalOffset, !.consumed = 0]]
              /\ To(c, [L(c) EXCEPT !.pc = "current"])
  /\ UNCHANGED <<Fixed, items, globalOffset>>

\* The quota of the token's producer: single calls rotate when it is met
\* exactly, bulk calls only when they got all they asked for.
QuotaMet(x, consumed) == IF x.kind = "token" THEN consumed = QUOTA ELSE consumed >= QUOTA

\* The other producers, from the token's one round to it again.  (Faulty: only
\* those after it.)
FromTail(ptr, tail) == NextProd(ptr)
Onward(ptr, tail) == Wrapped(ptr, tail)

TryCurrent(c) ==
  /\ L(c).pc = "current"
  /\ \E n \in Taken(c, T(c).current) :
     LET x == L(c)
         y == After(x, T(c).current, n)
         consumed == T(c).consumed + n
     IN  /\ Takes(T(c).current, n)
         /\ token' = [token EXCEPT ![c].consumed = consumed]
         /\ globalOffset' = IF y.count = y.max /\ QuotaMet(x, consumed)
                            THEN (globalOffset + 1) % Offsets ELSE globalOffset
         /\ To(c, IF y.count = y.max THEN Ends(y)
                  ELSE [y EXCEPT !.pc = "next", !.tail = ListTail,
                                 !.ptr = Onward(T(c).current, ListTail)])
  /\ UNCHANGED Fixed

TryNext(c) ==
  /\ L(c).pc = "next"
  /\ LET x == L(c)
     IN  \/ /\ x.ptr = T(c).current \/ x.ptr = Nobody
            /\ To(c, Ends(x)) /\ UNCHANGED <<items, token>>
         \/ /\ x.ptr # T(c).current /\ x.ptr # Nobody
            /\ \E n \in Taken(c, x.ptr) :
               LET y == After(x, x.ptr, n)
               IN  /\ Takes(x.ptr, n)
                   /\ token' = IF n = 0 THEN token
                               ELSE [token EXCEPT ![c].current = x.ptr, ![c].consumed = n]
                   /\ To(c, IF y.count = y.max THEN Ends(y) ELSE [y EXCEPT !.ptr = Onward(x.ptr, x.tail)])
  /\ UNCHANGED <<Fixed, globalOffset>>

---------------------------------------------------------------------------
TrNext ==
  \/ \E p \in TrProducers : CountProducer(p) \/ LinkProducer(p) \/ EnqueueTo(p)
  \/ \E c \in TrConsumers :
       \/ TrTryDequeue(c) \/ TryDequeueNonInterleaved(c) \/ TrTryDequeueBulk(c)
       \/ TryDequeueToken(c) \/ TryDequeueBulkToken(c) \/ Score(c) \/ TryBest(c) \/ Walk(c)
       \/ Rotate(c) \/ TryCurrent(c) \/ TryNext(c) \/ Return(c)

TrSpec == TrInit /\ [][TrNext]_trVars

---------------------------------------------------------------------------
(* Properties.                                                              *)

\* A call comes back short only after it has tried every producer that was in
\* the list when the call began, and each of them gave less than the call
\* asked for or looked empty ("Returns false if all producer streams
\* appeared empty at the time they were checked").
EveryProducerTried ==
  \A c \in TrConsumers : L(c).pc = "ret" /\ L(c).count < L(c).max => L(c).due \subseteq L(c).tried
=============================================================================
