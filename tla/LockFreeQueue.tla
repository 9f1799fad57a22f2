---------------------------- MODULE LockFreeQueue ----------------------------
(***************************************************************************)
(* LockFreeProducerConsumerQueue of                                        *)
(* whisperlib/sync/producer_consumer_queue_lockfree.h: a ring buffer that  *)
(* any number of producers and consumers use without a lock.  A client     *)
(* takes a ticket by a fetch-and-add on head_ (or tail_), waits until the  *)
(* slot of its ticket is free (or filled), touches the slot, and withdraws *)
(* its reservation.  What a client waits for is a lower bound of the       *)
(* tickets still in use on the other side, computed by a scan of the       *)
(* reservations that is not atomic.                                        *)
(*                                                                         *)
(* One action is one atomic load, store or fetch-and-add, so that every    *)
(* interleaving of the clients is a behaviour.  The queue builds only on   *)
(* x86 (_mm_pause), where the fetch-and-add is a full barrier and stores   *)
(* become visible in program order: interleaving at this grain is what the *)
(* build can produce, a reservation seen late being an older and smaller   *)
(* one.                                                                    *)
(***************************************************************************)
EXTENDS Integers, FiniteSets

CONSTANTS
    NumProducers,   \* num_producers_
    NumConsumers,   \* num_consumers_
    QSize,          \* q_size_, the result of NextPow2 on the asked size
    MaxPos,         \* numeric_limits<size_t>::max(): no reservation; it also
                    \*   bounds the tickets, which never wrap in practice
    Values,         \* the elements of type C
    NoValue,        \* what no Put stored and no Get returned
    TimedWait       \* wait_duration_ > ZeroDuration

(* The smallest power of two that is not below sz.                         *)
NextPow2(sz) ==
    CHOOSE p \in {2 ^ k : k \in 0 .. sz} :
        p >= sz /\ \A q \in {2 ^ k : k \in 0 .. sz} : q >= sz => p <= q

ASSUME ClientsAssumption == NumProducers \in Nat /\ NumConsumers \in Nat

ASSUME QSizeAssumption == QSize \in Nat \ {0} /\ QSize = NextPow2(QSize)

ASSUME MaxPosAssumption == MaxPos \in Nat

ASSUME ValuesAssumption == NoValue \notin Values

ASSUME TimedWaitAssumption == TimedWait \in BOOLEAN

Producers == 0 .. NumProducers - 1
Consumers == 0 .. NumConsumers - 1
Tickets   == 0 .. MaxPos - 1
Positions == 0 .. MaxPos

(* my_head & q_mask_, for a q_size_ that is a power of two.                *)
Slot(k) == k % QSize

VARIABLES
    head, tail,               \* head_, tail_: the next tickets
    last_head, last_tail,     \* the bounds found by the last scans
    client_head, client_tail, \* clients_[i].head_ and .tail_
    data,                     \* data_
    get_semaphore, put_semaphore,
    ppc, my_head, p_min, p_i, p_data,   \* a producer's locals, in Put
    cpc, my_tail, c_min, c_i,           \* a consumer's locals, in Get
    put_hist, get_hist        \* history: what was put, and got, per ticket

counters  == <<head, tail, last_head, last_tail>>
clients   == <<client_head, client_tail>>
sems      == <<get_semaphore, put_semaphore>>
producers == <<ppc, my_head, p_min, p_i, p_data>>
consumers == <<cpc, my_tail, c_min, c_i>>
hist      == <<put_hist, get_hist>>
vars == <<counters, clients, data, sems, producers, consumers, hist>>

PutSteps == {"idle", "enter", "ticket", "publish", "hint", "scan", "scanning",
             "wait", "write", "leave", "signal"}
GetSteps == {"idle", "enter", "ticket", "publish", "hint", "scan", "scanning",
             "wait", "read", "leave", "signal"}

TypeOK ==
    /\ head \in Positions /\ tail \in Positions
    /\ last_head \in Positions /\ last_tail \in Positions
    /\ client_head \in [Producers -> Positions]
    /\ client_tail \in [Consumers -> Positions]
    /\ data \in [0 .. QSize - 1 -> Values \cup {NoValue}]
    /\ get_semaphore \in Nat /\ put_semaphore \in Nat
    /\ ppc \in [Producers -> PutSteps]
    /\ my_head \in [Producers -> Positions]
    /\ p_min \in [Producers -> Positions]
    /\ p_i \in [Producers -> 0 .. NumConsumers]
    /\ p_data \in [Producers -> Values \cup {NoValue}]
    /\ cpc \in [Consumers -> GetSteps]
    /\ my_tail \in [Consumers -> Positions]
    /\ c_min \in [Consumers -> Positions]
    /\ c_i \in [Consumers -> 0 .. NumProducers]
    /\ put_hist \in [Tickets -> Values \cup {NoValue}]
    /\ get_hist \in [Tickets -> Values \cup {NoValue}]

Init ==
    /\ head = 0 /\ tail = 0 /\ last_head = 0 /\ last_tail = 0
    /\ client_head = [p \in Producers |-> MaxPos]
    /\ client_tail = [c \in Consumers |-> MaxPos]
    /\ data = [s \in 0 .. QSize - 1 |-> NoValue]
    /\ get_semaphore = 0 /\ put_semaphore = 0
    /\ ppc = [p \in Producers |-> "idle"]
    /\ my_head = [p \in Producers |-> 0]
    /\ p_min = [p \in Producers |-> 0]
    /\ p_i = [p \in Producers |-> 0]
    /\ p_data = [p \in Producers |-> NoValue]
    /\ cpc = [c \in Consumers |-> "idle"]
    /\ my_tail = [c \in Consumers |-> 0]
    /\ c_min = [c \in Consumers |-> 0]
    /\ c_i = [c \in Consumers |-> 0]
    /\ put_hist = [k \in Tickets |-> NoValue]
    /\ get_hist = [k \in Tickets |-> NoValue]

Lower(a, b) == IF b < a THEN b ELSE a

-----------------------------------------------------------------------------
(* Put(data, producer_id).  A local goes back to its initial value when it *)
(* is dead.                                                                *)

\* head_.load() of the first statement.  The bound on tickets is a bound on
\* the calls, so that no call is ever stopped between two of its steps.
PutEnter(p, v) ==
    /\ ppc[p] = "idle"
    /\ head + Cardinality({q \in Producers : ppc[q] \in {"enter", "ticket"}})
         < MaxPos
    /\ ppc' = [ppc EXCEPT ![p] = "enter"]
    /\ my_head' = [my_head EXCEPT ![p] = head]
    /\ p_data' = [p_data EXCEPT ![p] = v]
    /\ UNCHANGED <<counters, clients, data, sems, p_min, p_i, consumers, hist>>

\* faulty variant: no reservation before the ticket
PutReserveNot(p) ==
    /\ ppc[p] = "enter"
    /\ ppc' = [ppc EXCEPT ![p] = "ticket"]
    /\ UNCHANGED <<counters, clients, data, sems, my_head, p_min, p_i,
                   p_data, consumers, hist>>

\* clients_[producer_id].head_.store(...): from here on the scans see p
PutReserve(p) ==
    /\ ppc[p] = "enter"
    /\ ppc' = [ppc EXCEPT ![p] = "ticket"]
    /\ client_head' = [client_head EXCEPT ![p] = my_head[p]]
    /\ UNCHANGED <<counters, client_tail, data, sems, my_head, p_min, p_i,
                   p_data, consumers, hist>>

\* faulty variant: the ticket is the value loaded on entry
PutTicketNotAtomic(p) ==
    /\ ppc[p] = "ticket"
    /\ head < MaxPos
    /\ ppc' = [ppc EXCEPT ![p] = "publish"]
    /\ head' = my_head[p] + 1
    /\ UNCHANGED <<tail, last_head, last_tail, clients, data, sems, my_head, p_min, p_i,
                   p_data, consumers, hist>>

\* my_head = head_.fetch_add(1); the guard holds by the bound on calls
PutTicket(p) ==
    /\ ppc[p] = "ticket"
    /\ head < MaxPos
    /\ ppc' = [ppc EXCEPT ![p] = "publish"]
    /\ my_head' = [my_head EXCEPT ![p] = head]
    /\ head' = head + 1
    /\ UNCHANGED <<tail, last_head, last_tail, clients, data, sems, p_min, p_i,
                   p_data, consumers, hist>>

PutPublish(p) ==
    /\ ppc[p] = "publish"
    /\ ppc' = [ppc EXCEPT ![p] = "hint"]
    /\ client_head' = [client_head EXCEPT ![p] = my_head[p]]
    /\ UNCHANGED <<counters, client_tail, data, sems, my_head, p_min, p_i,
                   p_data, consumers, hist>>

\* faulty variant: > for >=
PutHintOffByOne(p) ==
    /\ ppc[p] = "hint"
    /\ ppc' = [ppc EXCEPT ![p] =
                 IF my_head[p] > last_tail + QSize THEN "scan" ELSE "write"]
    /\ UNCHANGED <<counters, clients, data, sems, my_head, p_min, p_i, p_data,
                   consumers, hist>>

\* pos_min = last_tail_.load() and the first test of the while
PutHint(p) ==
    /\ ppc[p] = "hint"
    /\ ppc' = [ppc EXCEPT ![p] =
                 IF my_head[p] >= last_tail + QSize THEN "scan" ELSE "write"]
    /\ UNCHANGED <<counters, clients, data, sems, my_head, p_min, p_i, p_data,
                   consumers, hist>>

\* pos_min = tail_.load(), i = 0
PutScanStart(p) ==
    /\ ppc[p] = "scan"
    /\ p_min' = [p_min EXCEPT ![p] = tail]
    /\ p_i' = [p_i EXCEPT ![p] = 0]
    /\ ppc' = [ppc EXCEPT ![p] = "scanning"]
    /\ UNCHANGED <<counters, clients, data, sems, my_head, p_data, consumers,
                   hist>>

\* one turn of the loop over clients_[i].tail_
PutScanClient(p) ==
    /\ ppc[p] = "scanning"
    /\ p_i[p] < NumConsumers
    /\ p_min' = [p_min EXCEPT ![p] = Lower(p_min[p], client_tail[p_i[p]])]
    /\ p_i' = [p_i EXCEPT ![p] = p_i[p] + 1]
    /\ UNCHANGED <<counters, clients, data, sems, ppc, my_head, p_data,
                   consumers, hist>>

\* last_tail_.store(pos_min), then leave the while or wait
PutScanEnd(p) ==
    /\ ppc[p] = "scanning"
    /\ p_i[p] = NumConsumers
    /\ last_tail' = p_min[p]
    /\ p_min' = [p_min EXCEPT ![p] = 0]
    /\ p_i' = [p_i EXCEPT ![p] = 0]
    /\ ppc' = [ppc EXCEPT ![p] =
                 IF my_head[p] < p_min[p] + QSize THEN "write" ELSE "wait"]
    /\ UNCHANGED <<head, tail, last_head, clients, data, sems, my_head, p_data,
                   consumers, hist>>

\* get_semaphore_.timed_wait() returns on a signal or after wait_duration_,
\* and the result is dropped; without a duration, _mm_pause() returns
PutWait(p) ==
    /\ ppc[p] = "wait"
    /\ ppc' = [ppc EXCEPT ![p] = "scan"]
    /\ get_semaphore' = IF get_semaphore > 0 THEN get_semaphore - 1
                                             ELSE get_semaphore
    /\ UNCHANGED <<counters, clients, data, put_semaphore, my_head, p_min, p_i,
                   p_data, consumers, hist>>

\* data_[my_head & q_mask_] = std::move(data)
PutWrite(p) ==
    /\ ppc[p] = "write"
    /\ ppc' = [ppc EXCEPT ![p] = "leave"]
    /\ data' = [data EXCEPT ![Slot(my_head[p])] = p_data[p]]
    /\ put_hist' = [put_hist EXCEPT ![my_head[p]] = p_data[p]]
    /\ p_data' = [p_data EXCEPT ![p] = NoValue]
    /\ UNCHANGED <<counters, clients, sems, my_head, p_min, p_i, consumers,
                   get_hist>>

\* faulty variant: the reservation stays
PutLeaveNot(p) ==
    /\ ppc[p] = "leave"
    /\ ppc' = [ppc EXCEPT ![p] = "signal"]
    /\ UNCHANGED <<counters, clients, data, sems, my_head, p_min, p_i,
                   p_data, consumers, hist>>

PutLeave(p) ==
    /\ ppc[p] = "leave"
    /\ ppc' = [ppc EXCEPT ![p] = "signal"]
    /\ client_head' = [client_head EXCEPT ![p] = MaxPos]
    /\ UNCHANGED <<counters, client_tail, data, sems, my_head, p_min, p_i,
                   p_data, consumers, hist>>

\* put_semaphore_.signal() if a consumer may wait for this ticket; return
PutSignal(p) ==
    /\ ppc[p] = "signal"
    /\ ppc' = [ppc EXCEPT ![p] = "idle"]
    /\ put_semaphore' = IF last_head < my_head[p] /\ TimedWait
                          THEN put_semaphore + 1 ELSE put_semaphore
    /\ my_head' = [my_head EXCEPT ![p] = 0]
    /\ UNCHANGED <<counters, clients, data, get_semaphore, p_min, p_i, p_data,
                   consumers, hist>>

-----------------------------------------------------------------------------
(* Get(consumer_id)                                                        *)

GetEnter(c) ==
    /\ cpc[c] = "idle"
    /\ tail + Cardinality({d \in Consumers : cpc[d] \in {"enter", "ticket"}})
         < MaxPos
    /\ cpc' = [cpc EXCEPT ![c] = "enter"]
    /\ my_tail' = [my_tail EXCEPT ![c] = tail]
    /\ UNCHANGED <<counters, clients, data, sems, c_min, c_i, producers, hist>>

GetReserve(c) ==
    /\ cpc[c] = "enter"
    /\ cpc' = [cpc EXCEPT ![c] = "ticket"]
    /\ client_tail' = [client_tail EXCEPT ![c] = my_tail[c]]
    /\ UNCHANGED <<counters, client_head, data, sems, my_tail, c_min, c_i,
                   producers, hist>>

\* my_tail = tail_.fetch_add(1); the guard holds by the bound on calls
GetTicket(c) ==
    /\ cpc[c] = "ticket"
    /\ tail < MaxPos
    /\ cpc' = [cpc EXCEPT ![c] = "publish"]
    /\ my_tail' = [my_tail EXCEPT ![c] = tail]
    /\ tail' = tail + 1
    /\ UNCHANGED <<head, last_head, last_tail, clients, data, sems, c_min, c_i,
                   producers, hist>>

GetPublish(c) ==
    /\ cpc[c] = "publish"
    /\ cpc' = [cpc EXCEPT ![c] = "hint"]
    /\ client_tail' = [client_tail EXCEPT ![c] = my_tail[c]]
    /\ UNCHANGED <<counters, client_head, data, sems, my_tail, c_min, c_i,
                   producers, hist>>

\* faulty variant: > for >=
GetHintOffByOne(c) ==
    /\ cpc[c] = "hint"
    /\ cpc' = [cpc EXCEPT ![c] =
                 IF my_tail[c] > last_head THEN "scan" ELSE "read"]
    /\ UNCHANGED <<counters, clients, data, sems, my_tail, c_min, c_i,
                   producers, hist>>

GetHint(c) ==
    /\ cpc[c] = "hint"
    /\ cpc' = [cpc EXCEPT ![c] =
                 IF my_tail[c] >= last_head THEN "scan" ELSE "read"]
    /\ UNCHANGED <<counters, clients, data, sems, my_tail, c_min, c_i,
                   producers, hist>>

GetScanStart(c) ==
    /\ cpc[c] = "scan"
    /\ c_min' = [c_min EXCEPT ![c] = head]
    /\ c_i' = [c_i EXCEPT ![c] = 0]
    /\ cpc' = [cpc EXCEPT ![c] = "scanning"]
    /\ UNCHANGED <<counters, clients, data, sems, my_tail, producers, hist>>

GetScanClient(c) ==
    /\ cpc[c] = "scanning"
    /\ c_i[c] < NumProducers
    /\ c_min' = [c_min EXCEPT ![c] = Lower(c_min[c], client_head[c_i[c]])]
    /\ c_i' = [c_i EXCEPT ![c] = c_i[c] + 1]
    /\ UNCHANGED <<counters, clients, data, sems, cpc, my_tail, producers, hist>>

GetScanEnd(c) ==
    /\ cpc[c] = "scanning"
    /\ c_i[c] = NumProducers
    /\ last_head' = c_min[c]
    /\ c_min' = [c_min EXCEPT ![c] = 0]
    /\ c_i' = [c_i EXCEPT ![c] = 0]
    /\ cpc' = [cpc EXCEPT ![c] = IF my_tail[c] < c_min[c] THEN "read" ELSE "wait"]
    /\ UNCHANGED <<head, tail, last_tail, clients, data, sems, my_tail,
                   producers, hist>>

GetWait(c) ==
    /\ cpc[c] = "wait"
    /\ cpc' = [cpc EXCEPT ![c] = "scan"]
    /\ put_semaphore' = IF put_semaphore > 0 THEN put_semaphore - 1
                                             ELSE put_semaphore
    /\ UNCHANGED <<counters, clients, data, get_semaphore, my_tail, c_min, c_i,
                   producers, hist>>

\* ret = std::move(data_[my_tail & q_mask_])
GetRead(c) ==
    /\ cpc[c] = "read"
    /\ cpc' = [cpc EXCEPT ![c] = "leave"]
    /\ get_hist' = [get_hist EXCEPT ![my_tail[c]] = data[Slot(my_tail[c])]]
    /\ UNCHANGED <<counters, clients, data, sems, my_tail, c_min, c_i,
                   producers, put_hist>>

GetLeave(c) ==
    /\ cpc[c] = "leave"
    /\ cpc' = [cpc EXCEPT ![c] = "signal"]
    /\ client_tail' = [client_tail EXCEPT ![c] = MaxPos]
    /\ UNCHANGED <<counters, client_head, data, sems, my_tail, c_min, c_i,
                   producers, hist>>

GetSignal(c) ==
    /\ cpc[c] = "signal"
    /\ cpc' = [cpc EXCEPT ![c] = "idle"]
    /\ get_semaphore' = IF last_tail < my_tail[c] /\ TimedWait
                          THEN get_semaphore + 1 ELSE get_semaphore
    /\ my_tail' = [my_tail EXCEPT ![c] = 0]
    /\ UNCHANGED <<counters, clients, data, put_semaphore, c_min, c_i,
                   producers, hist>>

-----------------------------------------------------------------------------
\* The steps that a thread inside Put, or Get, takes without being called
PutStep(p) ==
    \/ PutReserve(p)   \/ PutTicket(p)     \/ PutPublish(p) \/ PutHint(p)
    \/ PutScanStart(p) \/ PutScanClient(p) \/ PutScanEnd(p) \/ PutWait(p)
    \/ PutWrite(p)     \/ PutLeave(p)      \/ PutSignal(p)

GetStep(c) ==
    \/ GetReserve(c)   \/ GetTicket(c)     \/ GetPublish(c) \/ GetHint(c)
    \/ GetScanStart(c) \/ GetScanClient(c) \/ GetScanEnd(c) \/ GetWait(c)
    \/ GetRead(c)      \/ GetLeave(c)      \/ GetSignal(c)

Put(p) == (\E v \in Values : PutEnter(p, v)) \/ PutStep(p)
Get(c) == GetEnter(c) \/ GetStep(c)

Next == (\E p \in Producers : Put(p)) \/ (\E c \in Consumers : Get(c))

Spec == Init /\ [][Next]_vars

(* The operating system schedules every thread that is inside Put or Get;  *)
(* nothing makes a thread call Put or Get.                                 *)
Fairness ==
    /\ \A p \in Producers : WF_vars(PutStep(p))
    /\ \A c \in Consumers : WF_vars(GetStep(c))

FairSpec == Spec /\ Fairness

-----------------------------------------------------------------------------
(* Properties                                                              *)

Written == {k \in Tickets : put_hist[k] # NoValue}
Read    == {k \in Tickets : get_hist[k] # NoValue}

(* The Get that drew ticket k returns the element of the Put that drew     *)
(* ticket k, and never what an earlier or a later lap left in the slot.    *)
FifoDelivery == \A k \in Read : get_hist[k] = put_hist[k]

(* A Put writes its slot only when the element of the lap before has been  *)
(* taken: at most QSize elements are stored and not yet read.              *)
NoOverrun == \A k \in Written, j \in Tickets : j + QSize <= k => j \in Read

(* The plain accesses to data_ never race: no two clients that are about   *)
(* to touch data_ (a Get moves out of it) have the same slot.              *)
NoSlotRace ==
    LET w == {p \in Producers : ppc[p] = "write"}
        r == {c \in Consumers : cpc[c] = "read"}
    IN /\ \A p, q \in w : p # q => Slot(my_head[p]) # Slot(my_head[q])
       /\ \A c, d \in r : c # d => Slot(my_tail[c]) # Slot(my_tail[d])
       /\ \A p \in w, c \in r : Slot(my_head[p]) # Slot(my_tail[c])

(* What was put under a ticket, and what was got under it, is settled      *)
(* once: no two clients ever use the same ticket.                          *)
TicketsUsedOnce ==
    [][\A k \in Tickets : /\ k \in Written => put_hist'[k] = put_hist[k]
                          /\ k \in Read => get_hist'[k] = get_hist[k]]_vars

(* Once a Put and a Get have drawn ticket k, the element is delivered,     *)
(* whatever signals were missed and however stale last_head_, last_tail_   *)
(* and the reservations are that the scans meet.                           *)
Delivered == \A k \in Tickets : []<>(head > k /\ tail > k => k \in Read)

(* Every call returns: Put when consumers follow, Get when producers do.   *)
CallsReturn ==
    /\ \A p \in Producers : []<>(tail = MaxPos => ppc[p] = "idle")
    /\ \A c \in Consumers : []<>(head = MaxPos => cpc[c] = "idle")

(* With fair clients nothing gets stuck in the queue, neither elements nor *)
(* calls of Put and Get.                                                   *)
NothingStuck == Delivered /\ CallsReturn

-----------------------------------------------------------------------------
(* The inductive invariant behind FifoDelivery, NoOverrun and NoSlotRace.  *)

\* a ticket was drawn and its slot not yet touched
Holding(p)  == ppc[p] \in {"publish", "hint", "scan", "scanning", "wait", "write"}
Draining(c) == cpc[c] \in {"publish", "hint", "scan", "scanning", "wait", "read"}

\* a reservation never lies above the ticket it stands for
Reservations ==
    /\ \A p \in Producers :
        /\ ppc[p] = "enter" => my_head[p] <= head
        /\ ppc[p] = "ticket" => client_head[p] <= head
        /\ Holding(p) => /\ my_head[p] < head
                         /\ client_head[p] <= my_head[p]
                         /\ my_head[p] \notin Written
        /\ Holding(p) \/ ppc[p] \in {"enter", "ticket"} => p_data[p] \in Values
    /\ \A c \in Consumers :
        /\ cpc[c] = "enter" => my_tail[c] <= tail
        /\ cpc[c] = "ticket" => client_tail[c] <= tail
        /\ Draining(c) => /\ my_tail[c] < tail
                          /\ client_tail[c] <= my_tail[c]
                          /\ my_tail[c] \notin Read

\* no two clients of a side hold the same ticket
Distinct ==
    /\ \A p, q \in Producers :
        Holding(p) /\ Holding(q) /\ my_head[p] = my_head[q] => p = q
    /\ \A c, d \in Consumers :
        Draining(c) /\ Draining(d) /\ my_tail[c] = my_tail[d] => c = d

\* k is settled on the producers' side, or held by a producer from i on
PutOrHeldFrom(k, i) ==
    k \in Written \/ \E p \in Producers : p >= i /\ Holding(p) /\ my_head[p] = k
GotOrHeldFrom(k, i) ==
    k \in Read \/ \E c \in Consumers : c >= i /\ Draining(c) /\ my_tail[c] = k

\* every ticket drawn is used or held, and only drawn tickets are used
Accounted ==
    /\ \A k \in Tickets : k < head => PutOrHeldFrom(k, 0)
    /\ \A k \in Tickets : k < tail => GotOrHeldFrom(k, 0)
    /\ \A k \in Written : k < head
    /\ \A k \in Read : k < tail

\* below the minimum of a scan, only clients not yet scanned hold tickets
Scans ==
    /\ \A p \in Producers : ppc[p] = "scanning" =>
         /\ p_min[p] <= tail
         /\ \A k \in Tickets : k < p_min[p] => GotOrHeldFrom(k, p_i[p])
    /\ \A c \in Consumers : cpc[c] = "scanning" =>
         /\ c_min[c] <= head
         /\ \A k \in Tickets : k < c_min[c] => PutOrHeldFrom(k, c_i[c])

\* the result of a scan, however old, is a bound of what is settled
Hints ==
    /\ \A k \in Tickets : k < last_tail => k \in Read
    /\ \A k \in Tickets : k < last_head => k \in Written

\* who is about to touch a slot may do so
Permits ==
    /\ \A p \in Producers, k \in Tickets :
         ppc[p] = "write" /\ k + QSize <= my_head[p] => k \in Read
    /\ \A c \in Consumers : cpc[c] = "read" => my_tail[c] \in Written

\* an element is taken only after it was put, and stays in its slot till then
Contents ==
    /\ Read \subseteq Written
    /\ \A k \in Written : k \in Read \/ data[Slot(k)] = put_hist[k]

(* Everything the proof carries from step to step.                         *)
IInv == /\ TypeOK /\ Reservations /\ Distinct /\ Accounted /\ Scans /\ Hints
        /\ Permits /\ NoOverrun /\ Contents /\ FifoDelivery
=============================================================================
