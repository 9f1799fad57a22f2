------------------------- MODULE LockFreeQueueProofs -------------------------
(***************************************************************************)
(* Proofs about LockFreeQueue, for any number of producers and consumers,  *)
(* any ring size and any number of tickets.                                *)
(***************************************************************************)
EXTENDS LockFreeQueue, TLAPS

USE ClientsAssumption, MaxPosAssumption, ValuesAssumption, TimedWaitAssumption

-----------------------------------------------------------------------------
(* Facts about slots                                                       *)

(* q_size_ is at least 1, whatever size was asked for.                     *)
LEMMA QSizeNat == QSize \in Nat \ {0}
  BY QSizeAssumption

USE QSizeNat

(* my_head & q_mask_ is always an index of data_.                          *)
LEMMA SlotInRange == \A k \in Nat : Slot(k) \in 0 .. QSize - 1
  BY DEF Slot

(* Two tickets that share a slot are at least a whole lap apart.           *)
LEMMA SlotGap ==
  ASSUME NEW a \in Nat, NEW b \in Nat, Slot(a) = Slot(b), a < b
  PROVE  a + QSize <= b
<1> DEFINE d == (b \div QSize) - (a \div QSize)
<1>1. /\ a = QSize * (a \div QSize) + (a % QSize)
      /\ b = QSize * (b \div QSize) + (b % QSize)
      /\ a % QSize = b % QSize
  BY DEF Slot
<1>2. (a \div QSize) \in Int /\ (b \div QSize) \in Int
  OBVIOUS
<1>3. b - a = QSize * d
  BY <1>1, <1>2
<1>4. d >= 1
  BY <1>1, <1>2, <1>3, Z3
<1>5. \A e \in Int : e >= 1 => QSize * e >= QSize
  OBVIOUS
<1>6. QED
  BY <1>1, <1>2, <1>3, <1>4, <1>5

-----------------------------------------------------------------------------
(* Type correctness                                                        *)

(* The positions a step may store are closed under what the steps do.      *)
LEMMA PositionFacts ==
  /\ 0 \in Positions /\ MaxPos \in Positions
  /\ \A k \in Positions : k < MaxPos => k + 1 \in Positions
  /\ \A a, b \in Positions : Lower(a, b) \in Positions
  /\ 0 \in 0 .. NumConsumers /\ 0 \in 0 .. NumProducers
  BY DEF Positions, Lower

(* A step of Put keeps every variable within its type.                     *)
LEMMA PutTypeOK ==
  ASSUME TypeOK, NEW p \in Producers, Put(p)
  PROVE  TypeOK'
<1> USE PositionFacts
    DEF TypeOK, counters, clients, sems, producers, consumers, hist, PutSteps
<1>1. ASSUME NEW v \in Values, PutEnter(p, v) PROVE TypeOK'
  BY <1>1 DEF PutEnter
<1>2. CASE PutReserve(p)
  BY <1>2 DEF PutReserve
<1>3. CASE PutTicket(p)
  BY <1>3 DEF PutTicket
<1>4. CASE PutPublish(p)
  BY <1>4 DEF PutPublish
<1>5. CASE PutHint(p)
  BY <1>5 DEF PutHint
<1>6. CASE PutScanStart(p)
  BY <1>6 DEF PutScanStart
<1>7. CASE PutScanClient(p)
  <2>1. p_i[p] \in Consumers /\ p_i[p] + 1 \in 0 .. NumConsumers
    BY <1>7 DEF PutScanClient, Consumers
  <2>2. QED
    BY <1>7, <2>1 DEF PutScanClient
<1>8. CASE PutScanEnd(p)
  BY <1>8 DEF PutScanEnd
<1>9. CASE PutWait(p)
  BY <1>9 DEF PutWait
<1>10. CASE PutWrite(p)
  BY <1>10 DEF PutWrite
<1>11. CASE PutLeave(p)
  BY <1>11 DEF PutLeave
<1>12. CASE PutSignal(p)
  BY <1>12 DEF PutSignal
<1>13. QED
  BY <1>1, <1>2, <1>3, <1>4, <1>5, <1>6, <1>7, <1>8, <1>9, <1>10, <1>11, <1>12
     DEF Put, PutStep


-----------------------------------------------------------------------------
(* Steps of a producer                                                     *)

PutFrame(p) ==
  /\ UNCHANGED <<tail, last_head, client_tail, consumers, get_hist>>
  /\ Read' = Read
  /\ \A q \in Producers \ {p} :
       UNCHANGED <<ppc[q], my_head[q], client_head[q], p_min[q], p_i[q], p_data[q]>>
  /\ head' = IF PutTicket(p) THEN head + 1 ELSE head
  /\ Written' = IF PutWrite(p) THEN Written \cup {my_head[p]} ELSE Written

(* A step of one producer leaves the consumers and the other producers     *)
(* alone; head_ moves only by the fetch-and-add, data_ only by the write.  *)
LEMMA PutMoves ==
  ASSUME IInv, NEW p \in Producers, Put(p)
  PROVE  PutFrame(p)
<1> USE DEF IInv, TypeOK, counters, clients, sems, producers, consumers, hist, Read, PutFrame
<1>1. /\ UNCHANGED <<tail, last_head, client_tail, consumers, get_hist>>
      /\ \A q \in Producers \ {p} :
           UNCHANGED <<ppc[q], my_head[q], client_head[q], p_min[q], p_i[q], p_data[q]>>
      /\ head' = IF PutTicket(p) THEN head + 1 ELSE head
      /\ ~PutWrite(p) => UNCHANGED put_hist
  BY DEF Put, PutStep, PutEnter, PutReserve, PutTicket, PutPublish, PutHint, PutScanStart,
         PutScanClient, PutScanEnd, PutWait, PutWrite, PutLeave, PutSignal
<1>2. CASE PutWrite(p)
  <2>1. my_head[p] \in Tickets /\ p_data[p] \in Values
    BY <1>2 DEF PutWrite, Reservations, Holding, Tickets, Positions
  <2>2. \A k \in Tickets : put_hist'[k] = IF k = my_head[p] THEN p_data[p] ELSE put_hist[k]
    BY <1>2, <2>1 DEF PutWrite
  <2>3. QED
    BY <1>1, <1>2, <2>1, <2>2 DEF Written
<1>3. CASE ~PutWrite(p)
  BY <1>1, <1>3 DEF Written
<1>4. QED
  BY <1>2, <1>3


(* A ticket that is put or held, and one that is got or held, stays so.    *)
LEMMA PutKeepsSettled ==
  ASSUME IInv, NEW p \in Producers, Put(p)
  PROVE  \A k \in Tickets, i \in Nat :
           /\ PutOrHeldFrom(k, i) => PutOrHeldFrom(k, i)'
           /\ GotOrHeldFrom(k, i) => GotOrHeldFrom(k, i)'
<1> SUFFICES ASSUME NEW k \in Tickets, NEW i \in Nat
             PROVE  /\ PutOrHeldFrom(k, i) => PutOrHeldFrom(k, i)'
                    /\ GotOrHeldFrom(k, i) => GotOrHeldFrom(k, i)'
  OBVIOUS
<1>1. PutFrame(p) /\ TypeOK
  BY PutMoves DEF IInv
<1>2. Holding(p) => (Holding(p)' /\ my_head'[p] = my_head[p]) \/ PutWrite(p)
  BY <1>1 DEF TypeOK, Holding, Put, PutStep, PutEnter, PutReserve, PutTicket,
     PutPublish, PutHint, PutScanStart, PutScanClient, PutScanEnd, PutWait, PutWrite,
     PutLeave, PutSignal
<1>3. PutOrHeldFrom(k, i) => PutOrHeldFrom(k, i)'
  BY <1>1, <1>2 DEF PutFrame, PutOrHeldFrom, Holding
<1>4. GotOrHeldFrom(k, i) => GotOrHeldFrom(k, i)'
  BY <1>1 DEF PutFrame, GotOrHeldFrom, Draining, consumers
<1>5. QED
  BY <1>3, <1>4

(* A producer publishes a reservation before it draws its ticket, and      *)
(* moves it only up to that ticket.                                        *)
LEMMA PutReservations ==
  ASSUME IInv, NEW p \in Producers, Put(p)
  PROVE  Reservations'
<1> DEFINE R(q) == /\ ppc[q] = "enter" => my_head[q] <= head
                   /\ ppc[q] = "ticket" => client_head[q] <= head
                   /\ Holding(q) => /\ my_head[q] < head
                                    /\ client_head[q] <= my_head[q]
                                    /\ my_head[q] \notin Written
                   /\ Holding(q) \/ ppc[q] \in {"enter", "ticket"} => p_data[q] \in Values
<1>1. PutFrame(p) /\ TypeOK /\ TypeOK' /\ Distinct /\ \A q \in Producers : R(q)
  BY PutMoves, PutTypeOK DEF IInv, Reservations
<1>2. head \in Int /\ head' \in Int /\ head <= head' /\ head \notin Written
  <2>1. head \in Int /\ head' \in Int /\ head <= head'
    BY <1>1 DEF PutFrame, TypeOK, Positions
  <2>2. QED
    BY <2>1 DEF IInv, Accounted
<1>3. ASSUME NEW q \in Producers \ {p} PROVE R(q)'
  <2>1. Holding(q) => my_head[q] \notin Written'
    BY <1>1 DEF PutFrame, Distinct, PutWrite, Holding
  <2>2. my_head[q] \in Int /\ client_head[q] \in Int
    BY <1>1 DEF TypeOK, Positions
  <2>3. QED
    BY <1>1, <1>2, <2>1, <2>2 DEF PutFrame, Holding
<1>4. R(p)'
  <2> USE <1>1, <1>2 DEF PutFrame, TypeOK, Holding
  <2>1. my_head[p] \in Int /\ client_head[p] \in Int
    BY DEF Positions
  <2>2. CASE PutTicket(p)
    <3>1. ~PutWrite(p) /\ head' = head + 1 /\ ppc'[p] = "publish" /\ my_head'[p] = head
      BY <2>2 DEF PutTicket, PutWrite
    <3>2. client_head'[p] <= head /\ p_data'[p] \in Values
      BY <2>2 DEF PutTicket, clients
    <3>3. QED
      BY <3>1, <3>2
  <2>3. ASSUME NEW v \in Values, PutEnter(p, v) PROVE R(p)'
    BY <2>1, <2>3 DEF PutEnter, PutTicket, counters
  <2>4. CASE PutReserve(p)
    BY <2>1, <2>4 DEF PutReserve, PutTicket, counters
  <2>5. CASE PutPublish(p)
    BY <2>1, <2>5 DEF PutPublish, PutWrite, counters
  <2>6. CASE PutHint(p) \/ PutScanStart(p) \/ PutScanClient(p) \/ PutScanEnd(p) \/ PutWait(p)
    BY <2>1, <2>6 DEF PutHint, PutScanStart, PutScanClient, PutScanEnd, PutWait,
       PutWrite, counters, clients
  <2>7. CASE PutWrite(p) \/ PutLeave(p) \/ PutSignal(p)
    BY <2>7 DEF PutWrite, PutLeave, PutSignal
  <2>8. QED
    BY <2>2, <2>3, <2>4, <2>5, <2>6, <2>7 DEF Put, PutStep
<1>5. \A c \in Consumers :
        /\ cpc'[c] = "enter" => my_tail'[c] <= tail'
        /\ cpc'[c] = "ticket" => client_tail'[c] <= tail'
        /\ Draining(c)' => /\ my_tail'[c] < tail'
                           /\ client_tail'[c] <= my_tail'[c]
                           /\ my_tail'[c] \notin Read'
  BY <1>1 DEF PutFrame, IInv, Reservations, Draining, consumers
<1>6. QED
  BY <1>1, <1>3, <1>4, <1>5 DEF Reservations

(* The fetch-and-add on head_ hands out a ticket nobody holds.             *)
LEMMA PutDistinct ==
  ASSUME IInv, NEW p \in Producers, Put(p)
  PROVE  Distinct'
<1>1. PutFrame(p) /\ TypeOK /\ Reservations
  BY PutMoves DEF IInv
<1>2. \A q \in Producers \ {p} : Holding(q)' => Holding(q) /\ my_head'[q] = my_head[q]
  BY <1>1 DEF PutFrame, Holding
<1>3. Holding(p)' => \/ Holding(p) /\ my_head'[p] = my_head[p]
                     \/ my_head'[p] = head
  BY <1>1 DEF TypeOK, Holding, Put, PutStep, PutEnter, PutReserve, PutTicket,
     PutPublish, PutHint, PutScanStart, PutScanClient, PutScanEnd, PutWait, PutWrite,
     PutLeave, PutSignal
<1>4. \A q \in Producers : Holding(q) => my_head[q] # head
  BY <1>1 DEF TypeOK, Reservations, Positions
<1>5. \A q, r \in Producers :
        Holding(q)' /\ Holding(r)' /\ my_head'[q] = my_head'[r] => q = r
  BY <1>2, <1>3, <1>4 DEF IInv, Distinct
<1>6. QED
  BY <1>1, <1>5 DEF PutFrame, IInv, Distinct, Draining, consumers

(* A producer draws a ticket, holds it, and gives it up only by writing.   *)
LEMMA PutAccounted ==
  ASSUME IInv, NEW p \in Producers, Put(p)
  PROVE  Accounted'
<1>1. PutFrame(p) /\ TypeOK /\ Accounted
  BY PutMoves DEF IInv
<1>2. ASSUME NEW k \in Tickets, k < head' PROVE PutOrHeldFrom(k, 0)'
  <2>1. CASE k < head
    BY <1>1, <2>1, PutKeepsSettled DEF Accounted
  <2>2. CASE ~(k < head)
    <3>1. PutTicket(p) /\ k = head
      BY <1>1, <1>2, <2>2 DEF PutFrame, TypeOK, Tickets, Positions
    <3>2. Holding(p)' /\ my_head'[p] = k /\ p >= 0
      BY <1>1, <3>1 DEF PutTicket, Holding, TypeOK, Producers
    <3>3. QED
      BY <3>2 DEF PutOrHeldFrom
  <2>3. QED
    BY <2>1, <2>2
<1>3. ASSUME NEW k \in Tickets, k < tail' PROVE GotOrHeldFrom(k, 0)'
  BY <1>1, <1>3, PutKeepsSettled DEF PutFrame, Accounted
<1>4. \A k \in Written' : k < head'
  <2>1. PutWrite(p) => my_head[p] < head
    BY DEF IInv, Reservations, PutWrite, Holding
  <2>2. \A k \in Written' : k < head
    BY <1>1, <2>1 DEF PutFrame, Accounted
  <2>3. Written' \subseteq Int /\ head \in Int
    BY <1>1 DEF Written, TypeOK, Tickets, Positions
  <2>4. head' = head \/ head' = head + 1
    BY <1>1 DEF PutFrame
  <2>5. QED
    BY <2>2, <2>3, <2>4
<1>5. \A k \in Read' : k < tail'
  BY <1>1 DEF PutFrame, Accounted
<1>6. QED
  BY <1>2, <1>3, <1>4, <1>5 DEF Accounted

(* The scan of clients_[i].tail_ passes a consumer only with a minimum     *)
(* not above the ticket the consumer holds.                                *)
LEMMA PutScans ==
  ASSUME IInv, NEW p \in Producers, Put(p)
  PROVE  Scans'
<1>1. PutFrame(p) /\ TypeOK /\ TypeOK' /\ Scans /\ Reservations /\ Accounted
  BY PutMoves, PutTypeOK DEF IInv
<1>2. ASSUME NEW c \in Consumers, cpc'[c] = "scanning"
      PROVE  /\ c_min'[c] <= head'
             /\ \A k \in Tickets : k < c_min'[c] => PutOrHeldFrom(k, c_i[c])'
  <2>1. cpc[c] = "scanning" /\ c_min'[c] = c_min[c] /\ c_i'[c] = c_i[c]
    BY <1>1, <1>2 DEF PutFrame, consumers
  <2>2. head \in Int /\ head' \in Int /\ c_i[c] \in Nat /\ c_min[c] \in Int
    BY <1>1 DEF TypeOK, Positions
  <2>3. head <= head'
    BY <1>1, <2>2 DEF PutFrame
  <2>4. c_min[c] <= head /\ \A k \in Tickets : k < c_min[c] => PutOrHeldFrom(k, c_i[c])
    BY <1>1, <2>1 DEF Scans
  <2>5. QED
    BY <2>1, <2>2, <2>3, <2>4, PutKeepsSettled DEF PutOrHeldFrom
<1>3. ASSUME NEW q \in Producers, ppc'[q] = "scanning"
      PROVE  /\ p_min'[q] <= tail'
             /\ \A k \in Tickets : k < p_min'[q] => GotOrHeldFrom(k, p_i[q])'
  <2>1. tail' = tail /\ \A k \in Tickets, i \in Nat : GotOrHeldFrom(k, i) => GotOrHeldFrom(k, i)'
    BY <1>1, PutKeepsSettled DEF PutFrame
  <2>2. p_min[q] \in Int /\ tail \in Int /\ p_i[q] \in Nat
    BY <1>1 DEF TypeOK, Positions
  <2>3. CASE ppc[q] = "scanning" /\ p_min'[q] = p_min[q] /\ p_i'[q] = p_i[q]
    BY <1>1, <2>1, <2>2, <2>3 DEF Scans, GotOrHeldFrom
  <2>4. CASE q = p /\ PutScanStart(p)
    <3>1. p_min'[p] = tail /\ p_i'[p] = 0
      BY <1>1, <2>4 DEF PutScanStart, TypeOK
    <3>2. \A k \in Tickets : k < tail => GotOrHeldFrom(k, 0)'
      BY <1>1, <2>1 DEF Accounted
    <3>3. QED
      BY <2>1, <2>2, <2>4, <3>1, <3>2 DEF GotOrHeldFrom
  <2>5. CASE q = p /\ PutScanClient(p)
    <3>1. p_i[p] \in Consumers
      BY <1>1, <2>2, <2>5 DEF PutScanClient, Consumers
    <3>2. client_tail[p_i[p]] \in Int
      BY <1>1, <3>1 DEF TypeOK, Positions
    <3>3. /\ ppc[p] = "scanning" /\ p_i'[p] = p_i[p] + 1
          /\ p_min'[p] = Lower(p_min[p], client_tail[p_i[p]])
      BY <1>1, <2>5 DEF PutScanClient, TypeOK
    <3>4. /\ p_i[p] \in Consumers /\ client_tail[p_i[p]] \in Int
          /\ ppc[p] = "scanning" /\ p_i'[p] = p_i[p] + 1
          /\ p_min'[p] = Lower(p_min[p], client_tail[p_i[p]])
      BY <3>1, <3>2, <3>3
    <3>5. p_min'[p] <= tail'
      BY <1>1, <2>1, <2>2, <2>5, <3>4 DEF Scans, Lower
    <3>6. ASSUME NEW k \in Tickets, k < p_min'[p] PROVE GotOrHeldFrom(k, p_i[p])'
      <4>1. k < p_min[p] /\ k < client_tail[p_i[p]] /\ k \in Int
        BY <2>2, <2>5, <3>4, <3>6 DEF Lower, Tickets
      <4>2. GotOrHeldFrom(k, p_i[p])
        BY <1>1, <3>4, <4>1 DEF Scans
      <4>3. \A c \in Consumers : Draining(c) /\ my_tail[c] = k => c # p_i[p]
        BY <1>1, <3>4, <4>1 DEF Reservations, TypeOK, Positions
      <4>4. GotOrHeldFrom(k, p_i[p] + 1)
        BY <2>2, <2>5, <4>2, <4>3 DEF GotOrHeldFrom, Consumers
      <4>5. QED
        BY <2>1, <2>2, <2>5, <3>4, <4>4 DEF GotOrHeldFrom
    <3>7. QED
      BY <2>5, <3>5, <3>6
  <2>6. \/ ppc[q] = "scanning" /\ p_min'[q] = p_min[q] /\ p_i'[q] = p_i[q]
        \/ q = p /\ (PutScanStart(p) \/ PutScanClient(p))
    BY <1>1, <1>3 DEF PutFrame, TypeOK, Put, PutStep, PutEnter, PutReserve, PutTicket,
       PutPublish, PutHint, PutScanEnd, PutWait, PutWrite, PutLeave, PutSignal
  <2>7. QED
    BY <2>3, <2>4, <2>5, <2>6
<1>4. QED
  BY <1>2, <1>3 DEF Scans

(* What a producer stores in last_tail_ is a bound of what was read.       *)
LEMMA PutHints ==
  ASSUME IInv, NEW p \in Producers, Put(p)
  PROVE  Hints'
<1>1. PutFrame(p) /\ TypeOK /\ Hints /\ Scans
  BY PutMoves DEF IInv
<1>2. \A k \in Tickets : k < last_head' => k \in Written'
  BY <1>1 DEF PutFrame, Hints
<1>3. CASE last_tail' = last_tail
  BY <1>1, <1>2, <1>3 DEF PutFrame, Hints
<1>4. CASE PutScanEnd(p)
  <2>1. \A k \in Tickets : k < last_tail' => GotOrHeldFrom(k, NumConsumers)
    BY <1>1, <1>4 DEF PutScanEnd, Scans
  <2>2. \A k \in Tickets : k < last_tail' => k \in Read
    BY <2>1 DEF GotOrHeldFrom, Consumers
  <2>3. QED
    BY <1>1, <1>2, <2>2 DEF PutFrame, Hints
<1>5. QED
  BY <1>3, <1>4 DEF Put, PutStep, PutEnter, PutReserve, PutTicket, PutPublish, PutHint,
     PutScanStart, PutScanClient, PutWait, PutWrite, PutLeave, PutSignal, counters

(* A producer leaves the wait loop only when its slot is free.             *)
LEMMA PutPermits ==
  ASSUME IInv, NEW p \in Producers, Put(p)
  PROVE  Permits'
<1>1. PutFrame(p) /\ TypeOK /\ TypeOK' /\ Hints /\ Hints' /\ Permits
  BY PutMoves, PutTypeOK, PutHints DEF IInv
<1>2. \A c \in Consumers : cpc'[c] = "read" => my_tail'[c] \in Written'
  BY <1>1 DEF PutFrame, Permits, consumers
<1>3. ASSUME NEW q \in Producers, NEW k \in Tickets, ppc'[q] = "write",
             k + QSize <= my_head'[q]
      PROVE  k \in Read'
  <2>1. last_tail \in Int /\ last_tail' \in Int /\ my_head[q] \in Int /\ k \in Int
    BY <1>1 DEF TypeOK, Positions, Tickets
  <2>2. CASE ppc[q] = "write" /\ my_head'[q] = my_head[q]
    BY <1>1, <1>3, <2>2 DEF PutFrame, Permits
  <2>3. CASE q = p /\ PutHint(p)
    <3>1. my_head'[p] = my_head[p] /\ my_head[p] < last_tail + QSize
      BY <1>1, <1>3, <2>1, <2>3 DEF PutHint, TypeOK
    <3>2. QED
      BY <1>1, <1>3, <2>1, <2>3, <3>1 DEF Hints, PutFrame
  <2>4. CASE q = p /\ PutScanEnd(p)
    <3>1. my_head'[p] = my_head[p] /\ my_head[p] < last_tail' + QSize
      BY <1>1, <1>3, <2>1, <2>4 DEF PutScanEnd, TypeOK
    <3>2. QED
      BY <1>1, <1>3, <2>1, <2>4, <3>1 DEF Hints
  <2>5. \/ ppc[q] = "write" /\ my_head'[q] = my_head[q]
        \/ q = p /\ (PutHint(p) \/ PutScanEnd(p))
    BY <1>1, <1>3 DEF PutFrame, TypeOK, Put, PutStep, PutEnter, PutReserve, PutTicket,
       PutPublish, PutScanStart, PutScanClient, PutWait, PutWrite, PutLeave, PutSignal
  <2>6. QED
    BY <2>2, <2>3, <2>4, <2>5
<1>4. QED
  BY <1>2, <1>3 DEF Permits

(* The write of a producer destroys no element that is still to be read.   *)
LEMMA PutContents ==
  ASSUME IInv, NEW p \in Producers, Put(p)
  PROVE  NoOverrun' /\ Contents' /\ FifoDelivery'
<1>1. /\ PutFrame(p) /\ TypeOK /\ TypeOK' /\ Reservations /\ Permits /\ NoOverrun
      /\ Contents /\ FifoDelivery
  BY PutMoves, PutTypeOK DEF IInv
<1>2. CASE ~PutWrite(p)
  <2>1. UNCHANGED <<data, put_hist, get_hist>> /\ Written' = Written /\ Read' = Read
    BY <1>1, <1>2 DEF PutFrame, Put, PutStep, PutEnter, PutReserve, PutTicket,
       PutPublish, PutHint, PutScanStart, PutScanClient, PutScanEnd, PutWait, PutLeave,
       PutSignal, hist
  <2>2. QED
    BY <1>1, <2>1 DEF NoOverrun, Contents, FifoDelivery
<1>3. CASE PutWrite(p)
  <2> DEFINE m == my_head[p]
  <2>0. m \in Tickets
    BY <1>1, <1>3 DEF PutWrite, Reservations, Holding, TypeOK, Positions, Tickets
  <2>1. /\ m \in Tickets /\ m \notin Written /\ Written' = Written \cup {m}
        /\ Read' = Read /\ \A k \in Tickets : k + QSize <= m => k \in Read
    BY <1>1, <1>3, <2>0 DEF PutFrame, PutWrite, Reservations, Holding, Permits
  <2>2. /\ put_hist' = [put_hist EXCEPT ![m] = p_data[p]] /\ get_hist' = get_hist
        /\ data' = [data EXCEPT ![Slot(m)] = p_data[p]]
    BY <1>3 DEF PutWrite
  <2>3. NoOverrun'
    BY <1>1, <2>1 DEF NoOverrun
  <2>4. m \notin Read /\ Read \subseteq Written /\ Written \subseteq Tickets /\ m \in Nat
        /\ Tickets \subseteq Nat
    BY <1>1, <2>1 DEF Contents, Written, Tickets
  <2>5. FifoDelivery'
    BY <1>1, <2>1, <2>2, <2>4 DEF FifoDelivery, TypeOK
  <2>6. ASSUME NEW k \in Written, k \notin Read PROVE Slot(k) # Slot(m)
    <3>1. k # m /\ k \in Nat /\ m \in Nat
      BY <2>1, <2>4
    <3>2. CASE k < m
      BY <2>1, <2>4, <2>6, <3>1, <3>2, SlotGap
    <3>3. CASE m < k
      <4>1. Slot(k) = Slot(m) => m \in Read
        BY <1>1, <2>1, <2>6, <3>1, <3>3, SlotGap DEF NoOverrun
      <4>2. QED
        BY <2>4, <4>1
    <3>4. QED
      BY <3>1, <3>2, <3>3
  <2>7. \A k \in Written' : k \in Read' \/ data'[Slot(k)] = put_hist'[k]
    <3>1. Slot(m) \in 0 .. QSize - 1
      BY <2>4, SlotInRange
    <3>2. data'[Slot(m)] = p_data[p] /\ put_hist'[m] = p_data[p]
      BY <1>1, <2>1, <2>2, <3>1 DEF TypeOK
    <3>3. \A k \in Written : k \notin Read => data'[Slot(k)] = put_hist'[k]
      BY <1>1, <2>1, <2>2, <2>4, <2>6, SlotInRange DEF TypeOK, Contents
    <3>4. QED
      BY <2>1, <3>2, <3>3
  <2>8. QED
    BY <2>1, <2>3, <2>4, <2>5, <2>7 DEF Contents
<1>4. QED
  BY <1>2, <1>3

-----------------------------------------------------------------------------
(* Steps of a consumer: the mirror image                                   *)

(* A step of Get keeps every variable within its type.                     *)
LEMMA GetTypeOK ==
  ASSUME TypeOK, NEW c \in Consumers, Get(c)
  PROVE  TypeOK'
<1> USE PositionFacts
    DEF TypeOK, counters, clients, sems, consumers, producers, hist, GetSteps
<1>1. CASE GetEnter(c)
  BY <1>1 DEF GetEnter
<1>2. CASE GetReserve(c)
  BY <1>2 DEF GetReserve
<1>3. CASE GetTicket(c)
  BY <1>3 DEF GetTicket
<1>4. CASE GetPublish(c)
  BY <1>4 DEF GetPublish
<1>5. CASE GetHint(c)
  BY <1>5 DEF GetHint
<1>6. CASE GetScanStart(c)
  BY <1>6 DEF GetScanStart
<1>7. CASE GetScanClient(c)
  <2>1. c_i[c] \in Producers /\ c_i[c] + 1 \in 0 .. NumProducers
    BY <1>7 DEF GetScanClient, Producers
  <2>2. QED
    BY <1>7, <2>1 DEF GetScanClient
<1>8. CASE GetScanEnd(c)
  BY <1>8 DEF GetScanEnd
<1>9. CASE GetWait(c)
  BY <1>9 DEF GetWait
<1>10. CASE GetRead(c)
  <2>1. Slot(my_tail[c]) \in 0 .. QSize - 1
    BY SlotInRange DEF Positions
  <2>2. QED
    BY <1>10, <2>1 DEF GetRead
<1>11. CASE GetLeave(c)
  BY <1>11 DEF GetLeave
<1>12. CASE GetSignal(c)
  BY <1>12 DEF GetSignal
<1>13. QED
  BY <1>1, <1>2, <1>3, <1>4, <1>5, <1>6, <1>7, <1>8, <1>9, <1>10, <1>11, <1>12
     DEF Get, GetStep


-----------------------------------------------------------------------------

GetFrame(c) ==
  /\ UNCHANGED <<head, last_tail, client_head, producers, put_hist>>
  /\ Written' = Written
  /\ \A d \in Consumers \ {c} :
       UNCHANGED <<cpc[d], my_tail[d], client_tail[d], c_min[d], c_i[d]>>
  /\ tail' = IF GetTicket(c) THEN tail + 1 ELSE tail
  /\ Read' = IF GetRead(c) THEN Read \cup {my_tail[c]} ELSE Read

(* A step of one consumer leaves the producers and the other consumers     *)
(* alone; tail_ moves only by the fetch-and-add.                           *)
LEMMA GetMoves ==
  ASSUME IInv, NEW c \in Consumers, Get(c)
  PROVE  GetFrame(c)
<1> USE DEF IInv, TypeOK, counters, clients, sems, consumers, producers, hist, Written, GetFrame
<1>1. /\ UNCHANGED <<head, last_tail, client_head, producers, put_hist>>
      /\ \A d \in Consumers \ {c} :
           UNCHANGED <<cpc[d], my_tail[d], client_tail[d], c_min[d], c_i[d]>>
      /\ tail' = IF GetTicket(c) THEN tail + 1 ELSE tail
      /\ ~GetRead(c) => UNCHANGED get_hist
  BY DEF Get, GetStep, GetEnter, GetReserve, GetTicket, GetPublish, GetHint, GetScanStart,
         GetScanClient, GetScanEnd, GetWait, GetRead, GetLeave, GetSignal
<1>2. CASE GetRead(c)
  <2> DEFINE e == data[Slot(my_tail[c])]
  <2>1. my_tail[c] \in Tickets /\ e # NoValue
    BY <1>2 DEF GetRead, Reservations, Draining, Tickets, Positions, Permits, Contents
  <2>2. \A k \in Tickets : get_hist'[k] = IF k = my_tail[c] THEN e ELSE get_hist[k]
    BY <1>2, <2>1 DEF GetRead
  <2>3. QED
    BY <1>1, <1>2, <2>1, <2>2 DEF Read
<1>3. CASE ~GetRead(c)
  BY <1>1, <1>3 DEF Read
<1>4. QED
  BY <1>2, <1>3


(* A ticket that is put or held, and one that is got or held, stays so.    *)
LEMMA GetKeepsSettled ==
  ASSUME IInv, NEW c \in Consumers, Get(c)
  PROVE  \A k \in Tickets, i \in Nat :
           /\ GotOrHeldFrom(k, i) => GotOrHeldFrom(k, i)'
           /\ PutOrHeldFrom(k, i) => PutOrHeldFrom(k, i)'
<1> SUFFICES ASSUME NEW k \in Tickets, NEW i \in Nat
             PROVE  /\ GotOrHeldFrom(k, i) => GotOrHeldFrom(k, i)'
                    /\ PutOrHeldFrom(k, i) => PutOrHeldFrom(k, i)'
  OBVIOUS
<1>1. GetFrame(c) /\ TypeOK
  BY GetMoves DEF IInv
<1>2. Draining(c) => (Draining(c)' /\ my_tail'[c] = my_tail[c]) \/ GetRead(c)
  BY <1>1 DEF TypeOK, Draining, Get, GetStep, GetEnter, GetReserve, GetTicket,
     GetPublish, GetHint, GetScanStart, GetScanClient, GetScanEnd, GetWait, GetRead,
     GetLeave, GetSignal
<1>3. GotOrHeldFrom(k, i) => GotOrHeldFrom(k, i)'
  BY <1>1, <1>2 DEF GetFrame, GotOrHeldFrom, Draining
<1>4. PutOrHeldFrom(k, i) => PutOrHeldFrom(k, i)'
  BY <1>1 DEF GetFrame, PutOrHeldFrom, Holding, producers
<1>5. QED
  BY <1>3, <1>4

(* A consumer publishes a reservation before it draws its ticket, and      *)
(* moves it only up to that ticket.                                        *)
LEMMA GetReservations ==
  ASSUME IInv, NEW c \in Consumers, Get(c)
  PROVE  Reservations'
<1> DEFINE R(d) == /\ cpc[d] = "enter" => my_tail[d] <= tail
                   /\ cpc[d] = "ticket" => client_tail[d] <= tail
                   /\ Draining(d) => /\ my_tail[d] < tail
                                    /\ client_tail[d] <= my_tail[d]
                                    /\ my_tail[d] \notin Read
<1>1. GetFrame(c) /\ TypeOK /\ TypeOK' /\ Distinct /\ \A d \in Consumers : R(d)
  BY GetMoves, GetTypeOK DEF IInv, Reservations
<1>2. tail \in Int /\ tail' \in Int /\ tail <= tail' /\ tail \notin Read
  <2>1. tail \in Int /\ tail' \in Int /\ tail <= tail'
    BY <1>1 DEF GetFrame, TypeOK, Positions
  <2>2. QED
    BY <2>1 DEF IInv, Accounted
<1>3. ASSUME NEW d \in Consumers \ {c} PROVE R(d)'
  <2>1. Draining(d) => my_tail[d] \notin Read'
    BY <1>1 DEF GetFrame, Distinct, GetRead, Draining
  <2>2. my_tail[d] \in Int /\ client_tail[d] \in Int
    BY <1>1 DEF TypeOK, Positions
  <2>3. QED
    BY <1>1, <1>2, <2>1, <2>2 DEF GetFrame, Draining
<1>4. R(c)'
  <2> USE <1>1, <1>2 DEF GetFrame, TypeOK, Draining
  <2>1. my_tail[c] \in Int /\ client_tail[c] \in Int
    BY DEF Positions
  <2>2. CASE GetTicket(c)
    <3>1. ~GetRead(c) /\ tail' = tail + 1 /\ cpc'[c] = "publish" /\ my_tail'[c] = tail
      BY <2>2 DEF GetTicket, GetRead
    <3>2. client_tail'[c] <= tail
      BY <2>2 DEF GetTicket, clients
    <3>3. QED
      BY <3>1, <3>2
  <2>3. CASE GetEnter(c)
    BY <2>1, <2>3 DEF GetEnter, GetTicket, counters
  <2>4. CASE GetReserve(c)
    BY <2>1, <2>4 DEF GetReserve, GetTicket, counters
  <2>5. CASE GetPublish(c)
    BY <2>1, <2>5 DEF GetPublish, GetRead, counters
  <2>6. CASE GetHint(c) \/ GetScanStart(c) \/ GetScanClient(c) \/ GetScanEnd(c) \/ GetWait(c)
    BY <2>1, <2>6 DEF GetHint, GetScanStart, GetScanClient, GetScanEnd, GetWait,
       GetRead, counters, clients
  <2>7. CASE GetRead(c) \/ GetLeave(c) \/ GetSignal(c)
    BY <2>7 DEF GetRead, GetLeave, GetSignal
  <2>8. QED
    BY <2>2, <2>3, <2>4, <2>5, <2>6, <2>7 DEF Get, GetStep
<1>5. \A p \in Producers :
        /\ ppc'[p] = "enter" => my_head'[p] <= head'
        /\ ppc'[p] = "ticket" => client_head'[p] <= head'
        /\ Holding(p)' => /\ my_head'[p] < head'
                           /\ client_head'[p] <= my_head'[p]
                           /\ my_head'[p] \notin Written'
        /\ Holding(p)' \/ ppc'[p] \in {"enter", "ticket"} => p_data'[p] \in Values
  BY <1>1 DEF GetFrame, IInv, Reservations, Holding, producers
<1>6. QED
  BY <1>1, <1>3, <1>4, <1>5 DEF Reservations

(* The fetch-and-add on tail_ hands out a ticket nobody holds.             *)
LEMMA GetDistinct ==
  ASSUME IInv, NEW c \in Consumers, Get(c)
  PROVE  Distinct'
<1>1. GetFrame(c) /\ TypeOK /\ Reservations
  BY GetMoves DEF IInv
<1>2. \A d \in Consumers \ {c} : Draining(d)' => Draining(d) /\ my_tail'[d] = my_tail[d]
  BY <1>1 DEF GetFrame, Draining
<1>3. Draining(c)' => \/ Draining(c) /\ my_tail'[c] = my_tail[c]
                     \/ my_tail'[c] = tail
  BY <1>1 DEF TypeOK, Draining, Get, GetStep, GetEnter, GetReserve, GetTicket,
     GetPublish, GetHint, GetScanStart, GetScanClient, GetScanEnd, GetWait, GetRead,
     GetLeave, GetSignal
<1>4. \A d \in Consumers : Draining(d) => my_tail[d] # tail
  BY <1>1 DEF TypeOK, Reservations, Positions
<1>5. \A d, r \in Consumers :
        Draining(d)' /\ Draining(r)' /\ my_tail'[d] = my_tail'[r] => d = r
  BY <1>2, <1>3, <1>4 DEF IInv, Distinct
<1>6. QED
  BY <1>1, <1>5 DEF GetFrame, IInv, Distinct, Holding, producers

(* A consumer draws a ticket, holds it, and gives it up only by reading.   *)
LEMMA GetAccounted ==
  ASSUME IInv, NEW c \in Consumers, Get(c)
  PROVE  Accounted'
<1>1. GetFrame(c) /\ TypeOK /\ Accounted
  BY GetMoves DEF IInv
<1>2. ASSUME NEW k \in Tickets, k < tail' PROVE GotOrHeldFrom(k, 0)'
  <2>1. CASE k < tail
    BY <1>1, <2>1, GetKeepsSettled DEF Accounted
  <2>2. CASE ~(k < tail)
    <3>1. GetTicket(c) /\ k = tail
      BY <1>1, <1>2, <2>2 DEF GetFrame, TypeOK, Tickets, Positions
    <3>2. Draining(c)' /\ my_tail'[c] = k /\ c >= 0
      BY <1>1, <3>1 DEF GetTicket, Draining, TypeOK, Consumers
    <3>3. QED
      BY <3>2 DEF GotOrHeldFrom
  <2>3. QED
    BY <2>1, <2>2
<1>3. ASSUME NEW k \in Tickets, k < head' PROVE PutOrHeldFrom(k, 0)'
  BY <1>1, <1>3, GetKeepsSettled DEF GetFrame, Accounted
<1>4. \A k \in Read' : k < tail'
  <2>1. GetRead(c) => my_tail[c] < tail
    BY DEF IInv, Reservations, GetRead, Draining
  <2>2. \A k \in Read' : k < tail
    BY <1>1, <2>1 DEF GetFrame, Accounted
  <2>3. Read' \subseteq Int /\ tail \in Int
    BY <1>1 DEF Read, TypeOK, Tickets, Positions
  <2>4. tail' = tail \/ tail' = tail + 1
    BY <1>1 DEF GetFrame
  <2>5. QED
    BY <2>2, <2>3, <2>4
<1>5. \A k \in Written' : k < head'
  BY <1>1 DEF GetFrame, Accounted
<1>6. QED
  BY <1>2, <1>3, <1>4, <1>5 DEF Accounted

(* The scan of clients_[i].head_ passes a producer only with a minimum     *)
(* not above the ticket the producer holds.                                *)
LEMMA GetScans ==
  ASSUME IInv, NEW c \in Consumers, Get(c)
  PROVE  Scans'
<1>1. GetFrame(c) /\ TypeOK /\ TypeOK' /\ Scans /\ Reservations /\ Accounted
  BY GetMoves, GetTypeOK DEF IInv
<1>2. ASSUME NEW p \in Producers, ppc'[p] = "scanning"
      PROVE  /\ p_min'[p] <= tail'
             /\ \A k \in Tickets : k < p_min'[p] => GotOrHeldFrom(k, p_i[p])'
  <2>1. ppc[p] = "scanning" /\ p_min'[p] = p_min[p] /\ p_i'[p] = p_i[p]
    BY <1>1, <1>2 DEF GetFrame, producers
  <2>2. tail \in Int /\ tail' \in Int /\ p_i[p] \in Nat /\ p_min[p] \in Int
    BY <1>1 DEF TypeOK, Positions
  <2>3. tail <= tail'
    BY <1>1, <2>2 DEF GetFrame
  <2>4. p_min[p] <= tail /\ \A k \in Tickets : k < p_min[p] => GotOrHeldFrom(k, p_i[p])
    BY <1>1, <2>1 DEF Scans
  <2>5. QED
    BY <2>1, <2>2, <2>3, <2>4, GetKeepsSettled DEF GotOrHeldFrom
<1>3. ASSUME NEW d \in Consumers, cpc'[d] = "scanning"
      PROVE  /\ c_min'[d] <= head'
             /\ \A k \in Tickets : k < c_min'[d] => PutOrHeldFrom(k, c_i[d])'
  <2>1. head' = head /\ \A k \in Tickets, i \in Nat : PutOrHeldFrom(k, i) => PutOrHeldFrom(k, i)'
    BY <1>1, GetKeepsSettled DEF GetFrame
  <2>2. c_min[d] \in Int /\ head \in Int /\ c_i[d] \in Nat
    BY <1>1 DEF TypeOK, Positions
  <2>3. CASE cpc[d] = "scanning" /\ c_min'[d] = c_min[d] /\ c_i'[d] = c_i[d]
    BY <1>1, <2>1, <2>2, <2>3 DEF Scans, PutOrHeldFrom
  <2>4. CASE d = c /\ GetScanStart(c)
    <3>1. c_min'[c] = head /\ c_i'[c] = 0
      BY <1>1, <2>4 DEF GetScanStart, TypeOK
    <3>2. \A k \in Tickets : k < head => PutOrHeldFrom(k, 0)'
      BY <1>1, <2>1 DEF Accounted
    <3>3. QED
      BY <2>1, <2>2, <2>4, <3>1, <3>2 DEF PutOrHeldFrom
  <2>5. CASE d = c /\ GetScanClient(c)
    <3>1. c_i[c] \in Producers
      BY <1>1, <2>2, <2>5 DEF GetScanClient, Producers
    <3>2. client_head[c_i[c]] \in Int
      BY <1>1, <3>1 DEF TypeOK, Positions
    <3>p. /\ cpc[c] = "scanning" /\ c_i'[c] = c_i[c] + 1
          /\ c_min'[c] = Lower(c_min[c], client_head[c_i[c]])
      BY <1>1, <2>5 DEF GetScanClient, TypeOK
    <3>4. /\ c_i[c] \in Producers /\ client_head[c_i[c]] \in Int
          /\ cpc[c] = "scanning" /\ c_i'[c] = c_i[c] + 1
          /\ c_min'[c] = Lower(c_min[c], client_head[c_i[c]])
      BY <3>1, <3>2, <3>p
    <3>5. c_min'[c] <= head'
      BY <1>1, <2>1, <2>2, <2>5, <3>4 DEF Scans, Lower
    <3>6. ASSUME NEW k \in Tickets, k < c_min'[c] PROVE PutOrHeldFrom(k, c_i[c])'
      <4>1. k < c_min[c] /\ k < client_head[c_i[c]] /\ k \in Int
        BY <2>2, <2>5, <3>4, <3>6 DEF Lower, Tickets
      <4>2. PutOrHeldFrom(k, c_i[c])
        BY <1>1, <3>4, <4>1 DEF Scans
      <4>3. \A p \in Producers : Holding(p) /\ my_head[p] = k => p # c_i[c]
        BY <1>1, <3>4, <4>1 DEF Reservations, TypeOK, Positions
      <4>4. PutOrHeldFrom(k, c_i[c] + 1)
        BY <2>2, <2>5, <4>2, <4>3 DEF PutOrHeldFrom, Producers
      <4>5. QED
        BY <2>1, <2>2, <2>5, <3>4, <4>4 DEF PutOrHeldFrom
    <3>7. QED
      BY <2>5, <3>5, <3>6
  <2>6. \/ cpc[d] = "scanning" /\ c_min'[d] = c_min[d] /\ c_i'[d] = c_i[d]
        \/ d = c /\ (GetScanStart(c) \/ GetScanClient(c))
    BY <1>1, <1>3 DEF GetFrame, TypeOK, Get, GetStep, GetEnter, GetReserve, GetTicket,
       GetPublish, GetHint, GetScanEnd, GetWait, GetRead, GetLeave, GetSignal
  <2>7. QED
    BY <2>3, <2>4, <2>5, <2>6
<1>4. QED
  BY <1>2, <1>3 DEF Scans

(* What a consumer stores in last_head_ is a bound of what was written.    *)
LEMMA GetHints ==
  ASSUME IInv, NEW c \in Consumers, Get(c)
  PROVE  Hints'
<1>1. GetFrame(c) /\ TypeOK /\ Hints /\ Scans
  BY GetMoves DEF IInv
<1>2. \A k \in Tickets : k < last_tail' => k \in Read'
  BY <1>1 DEF GetFrame, Hints
<1>3. CASE last_head' = last_head
  BY <1>1, <1>2, <1>3 DEF GetFrame, Hints
<1>4. CASE GetScanEnd(c)
  <2>1. \A k \in Tickets : k < last_head' => PutOrHeldFrom(k, NumProducers)
    BY <1>1, <1>4 DEF GetScanEnd, Scans
  <2>2. \A k \in Tickets : k < last_head' => k \in Written
    BY <2>1 DEF PutOrHeldFrom, Producers
  <2>3. QED
    BY <1>1, <1>2, <2>2 DEF GetFrame, Hints
<1>5. QED
  BY <1>3, <1>4 DEF Get, GetStep, GetEnter, GetReserve, GetTicket, GetPublish, GetHint,
     GetScanStart, GetScanClient, GetWait, GetRead, GetLeave, GetSignal, counters

(* A consumer leaves the wait loop only when its slot is filled.           *)
LEMMA GetPermits ==
  ASSUME IInv, NEW c \in Consumers, Get(c)
  PROVE  Permits'
<1>1. GetFrame(c) /\ TypeOK /\ TypeOK' /\ Hints /\ Hints' /\ Permits /\ Reservations'
  BY GetMoves, GetTypeOK, GetHints, GetReservations DEF IInv
<1>2. \A p \in Producers, k \in Tickets :
        ppc'[p] = "write" /\ k + QSize <= my_head'[p] => k \in Read'
  BY <1>1 DEF GetFrame, Permits, producers
<1>3. ASSUME NEW d \in Consumers, cpc'[d] = "read" PROVE my_tail'[d] \in Written'
  <2>1. my_tail[d] \in Int
    BY <1>1 DEF TypeOK, Positions
  <2>2. CASE cpc[d] = "read" /\ my_tail'[d] = my_tail[d]
    BY <1>1, <2>2 DEF GetFrame, Permits
  <2>3. my_tail'[d] \in Tickets
    <3>1. my_tail'[d] \in 0 .. MaxPos /\ tail' \in 0 .. MaxPos
      BY <1>1 DEF TypeOK, Positions
    <3>2. my_tail'[d] < tail'
      BY <1>1, <1>3 DEF Reservations, Draining
    <3>3. QED
      BY <3>1, <3>2 DEF Tickets
  <2>4. CASE d = c /\ GetHint(c)
    <3>1. my_tail'[c] = my_tail[c] /\ ~(my_tail[c] >= last_head)
      BY <1>1, <1>3, <2>4 DEF GetHint, TypeOK
    <3>2. last_head \in Int
      BY <1>1 DEF TypeOK, Positions
    <3>3. QED
      BY <1>1, <2>1, <2>3, <2>4, <3>1, <3>2 DEF Hints, GetFrame
  <2>5. CASE d = c /\ GetScanEnd(c)
    <3>1. my_tail'[c] = my_tail[c] /\ my_tail[c] < last_head'
      BY <1>1, <1>3, <2>5 DEF GetScanEnd, TypeOK
    <3>2. QED
      BY <1>1, <2>3, <2>5, <3>1 DEF Hints
  <2>6. \/ cpc[d] = "read" /\ my_tail'[d] = my_tail[d]
        \/ d = c /\ (GetHint(c) \/ GetScanEnd(c))
    BY <1>1, <1>3 DEF GetFrame, TypeOK, Get, GetStep, GetEnter, GetReserve, GetTicket,
       GetPublish, GetScanStart, GetScanClient, GetWait, GetRead, GetLeave, GetSignal
  <2>7. QED
    BY <2>2, <2>4, <2>5, <2>6
<1>4. QED
  BY <1>2, <1>3 DEF Permits

(* The read of a consumer returns the element of its own ticket.           *)
LEMMA GetContents ==
  ASSUME IInv, NEW c \in Consumers, Get(c)
  PROVE  NoOverrun' /\ Contents' /\ FifoDelivery'
<1>1. /\ GetFrame(c) /\ TypeOK /\ TypeOK' /\ Reservations /\ Permits /\ NoOverrun
      /\ Contents /\ FifoDelivery
  BY GetMoves, GetTypeOK DEF IInv
<1>2. data' = data /\ put_hist' = put_hist /\ Written' = Written
  BY <1>1 DEF GetFrame, Get, GetStep, GetEnter, GetReserve, GetTicket, GetPublish,
     GetHint, GetScanStart, GetScanClient, GetScanEnd, GetWait, GetRead, GetLeave,
     GetSignal
<1>3. CASE ~GetRead(c)
  <2>1. get_hist' = get_hist /\ Read' = Read
    BY <1>1, <1>3 DEF GetFrame, Get, GetStep, GetEnter, GetReserve, GetTicket,
       GetPublish, GetHint, GetScanStart, GetScanClient, GetScanEnd, GetWait, GetLeave,
       GetSignal, hist
  <2>2. QED
    BY <1>1, <1>2, <2>1 DEF NoOverrun, Contents, FifoDelivery
<1>4. CASE GetRead(c)
  <2> DEFINE m == my_tail[c]
  <2>1. m \in Written /\ m \notin Read /\ Read' = Read \cup {m}
    BY <1>1, <1>4 DEF GetFrame, GetRead, Permits, Reservations, Draining
  <2>2. get_hist' = [get_hist EXCEPT ![m] = put_hist[m]] /\ m \in Tickets
    BY <1>1, <1>4, <2>1 DEF GetRead, Contents, Written
  <2>3. FifoDelivery'
    BY <1>1, <1>2, <2>1, <2>2 DEF FifoDelivery, TypeOK
  <2>4. QED
    BY <1>1, <1>2, <2>1, <2>3 DEF NoOverrun, Contents
<1>5. QED
  BY <1>3, <1>4

-----------------------------------------------------------------------------
(* The theorems                                                            *)

(* Every variable stays within its type.                                   *)
THEOREM TypeCorrect == Spec => []TypeOK
<1>1. Init => TypeOK
  BY PositionFacts DEF Init, TypeOK, PutSteps, GetSteps
<1>2. TypeOK /\ [Next]_vars => TypeOK'
  <2> SUFFICES ASSUME TypeOK, [Next]_vars PROVE TypeOK'
    OBVIOUS
  <2>1. CASE Next
    BY <2>1, PutTypeOK, GetTypeOK DEF Next
  <2>2. CASE UNCHANGED vars
    BY <2>2 DEF TypeOK, vars, counters, clients, sems, producers, consumers, hist
  <2>3. QED
    BY <2>1, <2>2
<1>3. QED
  BY <1>1, <1>2, PTL DEF Spec

(* A queue as its constructor leaves it satisfies the invariant.           *)
LEMMA InitIInv == Init => IInv
<1> SUFFICES ASSUME Init PROVE IInv
  OBVIOUS
<1>1. TypeOK
  BY PositionFacts DEF Init, TypeOK, PutSteps, GetSteps
<1>2. Written = {} /\ Read = {}
  BY DEF Init, Written, Read
<1>3. \A k \in Tickets : ~(k < 0)
  BY DEF Tickets
<1>4. Reservations /\ Distinct
  BY DEF Init, Reservations, Distinct, Holding, Draining
<1>5. Accounted /\ Hints
  BY <1>2, <1>3 DEF Init, Accounted, Hints
<1>6. Scans /\ Permits
  BY DEF Init, Scans, Permits
<1>7. NoOverrun /\ Contents /\ FifoDelivery
  BY <1>2 DEF NoOverrun, Contents, FifoDelivery
<1>8. QED
  BY <1>1, <1>4, <1>5, <1>6, <1>7 DEF IInv

(* Every atomic step of Put and Get preserves the invariant.               *)
LEMMA NextIInv == IInv /\ [Next]_vars => IInv'
<1> SUFFICES ASSUME IInv, [Next]_vars PROVE IInv'
  OBVIOUS
<1>1. ASSUME NEW p \in Producers, Put(p) PROVE IInv'
  BY <1>1, PutTypeOK, PutReservations, PutDistinct, PutAccounted, PutScans, PutHints,
     PutPermits, PutContents DEF IInv
<1>2. ASSUME NEW c \in Consumers, Get(c) PROVE IInv'
  BY <1>2, GetTypeOK, GetReservations, GetDistinct, GetAccounted, GetScans, GetHints,
     GetPermits, GetContents DEF IInv
<1>3. CASE UNCHANGED vars
  <2> USE <1>3 DEF vars, counters, clients, sems, producers, consumers, hist
  <2>1. Written' = Written /\ Read' = Read
    BY DEF Written, Read
  <2>2. TypeOK' /\ Reservations' /\ Distinct'
    BY <2>1 DEF IInv, TypeOK, Reservations, Distinct, Holding, Draining
  <2>3. Accounted' /\ Scans' /\ Hints'
    BY <2>1 DEF IInv, Accounted, Scans, Hints, PutOrHeldFrom, GotOrHeldFrom, Holding,
       Draining
  <2>4. Permits' /\ NoOverrun' /\ Contents' /\ FifoDelivery'
    BY <2>1 DEF IInv, Permits, NoOverrun, Contents, FifoDelivery
  <2>5. QED
    BY <2>2, <2>3, <2>4 DEF IInv
<1>4. QED
  BY <1>1, <1>2, <1>3 DEF Next

(* IInv is an invariant: reservations lie below the tickets they stand     *)
(* for, the bounds last_head_ and last_tail_ below what is settled.        *)
THEOREM Invariance == Spec => []IInv
  BY InitIInv, NextIInv, PTL DEF Spec

(* The Get with ticket k returns the element of the Put with ticket k.     *)
THEOREM FifoDeliveryHolds == Spec => []FifoDelivery
<1>1. IInv => FifoDelivery
  BY DEF IInv
<1>2. QED
  BY <1>1, Invariance, PTL

(* No Put writes a slot before the element of the lap before was read.     *)
THEOREM NoOverrunHolds == Spec => []NoOverrun
<1>1. IInv => NoOverrun
  BY DEF IInv
<1>2. QED
  BY <1>1, Invariance, PTL

(* The unsynchronised accesses to data_ of two clients never meet.         *)
THEOREM NoSlotRaceHolds == Spec => []NoSlotRace
<1>1. ASSUME IInv PROVE NoSlotRace
  <2>1. /\ TypeOK /\ Reservations /\ Distinct /\ Permits /\ NoOverrun
        /\ Read \subseteq Written /\ Written \subseteq Tickets /\ Tickets \subseteq Nat
    BY <1>1 DEF IInv, Contents, Written, Tickets
  <2>2. ASSUME NEW a \in Tickets, NEW b \in Tickets, Slot(a) = Slot(b), a # b
        PROVE  a + QSize <= b \/ b + QSize <= a
    BY <2>1, <2>2, SlotGap DEF Tickets
  <2>3. \A p \in Producers : ppc[p] = "write" =>
          /\ my_head[p] \in Tickets /\ my_head[p] \notin Written
          /\ \A k \in Tickets : k + QSize <= my_head[p] => k \in Read
    BY <2>1 DEF Reservations, Holding, Permits, TypeOK, Positions, Tickets
  <2>4. \A c \in Consumers : cpc[c] = "read" =>
          my_tail[c] \in Written /\ my_tail[c] \notin Read
    BY <2>1 DEF Reservations, Draining, Permits
  <2>5. ASSUME NEW p \in Producers, NEW q \in Producers, p # q,
               ppc[p] = "write", ppc[q] = "write"
        PROVE  Slot(my_head[p]) # Slot(my_head[q])
    <3>1. my_head[p] # my_head[q]
      BY <2>1, <2>5 DEF Distinct, Holding
    <3>2. QED
      BY <2>1, <2>2, <2>3, <2>5, <3>1
  <2>6. ASSUME NEW c \in Consumers, NEW d \in Consumers, c # d,
               cpc[c] = "read", cpc[d] = "read"
        PROVE  Slot(my_tail[c]) # Slot(my_tail[d])
    <3>1. my_tail[c] # my_tail[d]
      BY <2>1, <2>6 DEF Distinct, Draining
    <3>2. QED
      BY <2>1, <2>2, <2>4, <2>6, <3>1 DEF NoOverrun
  <2>7. ASSUME NEW p \in Producers, NEW c \in Consumers, ppc[p] = "write", cpc[c] = "read"
        PROVE  Slot(my_head[p]) # Slot(my_tail[c])
    BY <2>1, <2>2, <2>3, <2>4, <2>7 DEF NoOverrun
  <2>8. QED
    BY <2>5, <2>6, <2>7 DEF NoSlotRace
<1>2. QED
  BY <1>1, Invariance, PTL

(* No element is put or got twice: a ticket is used by one client.         *)
THEOREM TicketsUsedOnceHolds == Spec => TicketsUsedOnce
<1> DEFINE Once == \A k \in Tickets :
                     /\ k \in Written => put_hist'[k] = put_hist[k]
                     /\ k \in Read => get_hist'[k] = get_hist[k]
<1>1. ASSUME IInv, [Next]_vars PROVE Once
  <2>1. ASSUME NEW p \in Producers, Put(p) PROVE Once
    <3>1. PutFrame(p) /\ TypeOK /\ Reservations
      BY <1>1, <2>1, PutMoves DEF IInv
    <3>2. CASE PutWrite(p)
      BY <3>1, <3>2 DEF PutWrite, PutFrame, Reservations, Holding, TypeOK
    <3>3. CASE ~PutWrite(p)
      BY <2>1, <3>3 DEF Put, PutStep, PutEnter, PutReserve, PutTicket, PutPublish,
         PutHint, PutScanStart, PutScanClient, PutScanEnd, PutWait, PutLeave, PutSignal,
         hist
    <3>4. QED
      BY <3>2, <3>3
  <2>2. ASSUME NEW c \in Consumers, Get(c) PROVE Once
    <3>1. GetFrame(c) /\ TypeOK /\ Reservations
      BY <1>1, <2>2, GetMoves DEF IInv
    <3>2. CASE GetRead(c)
      BY <3>1, <3>2 DEF GetRead, GetFrame, Reservations, Draining, TypeOK
    <3>3. CASE ~GetRead(c)
      BY <2>2, <3>3 DEF Get, GetStep, GetEnter, GetReserve, GetTicket, GetPublish,
         GetHint, GetScanStart, GetScanClient, GetScanEnd, GetWait, GetLeave, GetSignal,
         hist
    <3>4. QED
      BY <3>2, <3>3
  <2>3. CASE UNCHANGED vars
    BY <2>3 DEF vars, hist
  <2>4. QED
    BY <1>1, <2>1, <2>2, <2>3 DEF Next
<1>2. IInv /\ [Next]_vars => [Once]_vars
  BY <1>1
<1>3. QED
  BY <1>2, Invariance, PTL DEF Spec, TicketsUsedOnce

=============================================================================
