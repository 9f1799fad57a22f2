----------------------------- MODULE WaitingProofs -----------------------------
(***************************************************************************)
(* Proofs about the calls of the moodycamel queues that may have to wait.  *)
(* BlockingQueue, the semaphore in front of the queue: for any number of   *)
(* producers, consumers, spins, items and calls, and any size of a bulk.   *)
(* ProducerTable, the hash table of implicit producers: for any number of  *)
(* threads, calls and exits, and any size of the first table.              *)
(***************************************************************************)
EXTENDS BlockingQueue, ProducerTable, FiniteSetTheorems, TLAPS

-----------------------------------------------------------------------------
(* BlockingQueue                                                           *)
-----------------------------------------------------------------------------
(* The inductive invariant                                                 *)

PutRec == [pc : {"idle", "signal", "post"}, count : 0..MaxBulk, posts : 0..MaxBulk]
GetRec ==
  [pc : {"idle", "load", "cas", "spin", "spincas", "sleep", "undo", "undotry", "undocas",
         "take"},
   mode : Modes, max : 0..MaxBulk, spin : 0..m_maxSpins,
   old : -Cardinality(BqConsumers)..BqItems,
   tokens : 0..MaxBulk, got : 0..MaxBulk, calls : 0..BqCalls]

BqKinds ==
  /\ inner \in Nat /\ produced \in Nat /\ inner <= produced /\ produced <= BqItems
  /\ m_count \in Int /\ m_sema \in Nat
  /\ put \in [BqProducers -> PutRec]
  /\ get \in [BqConsumers -> GetRec]

\* What the locals of a call tell of its place.
PutOK(q) == /\ IF q.pc = "signal" THEN q.count >= 1 ELSE q.count = 0
            /\ IF q.pc = "post" THEN q.posts >= 1 ELSE q.posts = 0
GetOK(g) ==
  /\ g.pc # "idle" => g.max >= 1
  /\ g.pc \in {"cas", "spincas"} => g.old > 0
  /\ g.pc = "undocas" => g.old < 0
  /\ IF g.pc = "take" THEN g.got < g.tokens ELSE g.got = 0
  /\ g.pc \in {"load", "cas"} => g.tokens + g.max <= MaxBulk
  /\ g.pc \notin {"load", "cas", "take"} => g.tokens = 0

\* items that were put and not signalled yet
ToSignal == {x \in BqProducers \X (1..MaxBulk) : x[2] \in 1..put[x[1]].count}

(* Each item is one of: not signalled yet, owed to a consumer that holds a *)
(* token for it, or counted.  A thread that sleeps, or leaves its sleep,   *)
(* has taken one from the count and holds no token.                        *)
ItemsAccounted ==
  inner = Cardinality(ToSignal) + Cardinality(Owed) + m_count + Cardinality(Sleeping)

BqIInv ==
  /\ BqKinds
  /\ \A p \in BqProducers : PutOK(put[p])
  /\ \A c \in BqConsumers : GetOK(get[c])
  /\ ItemsAccounted
  /\ SleepersAccounted

-----------------------------------------------------------------------------
(* Counting                                                                *)

\* The column of t in a set of pairs A, and two sets that agree in the others.
Column(A, K, t, lo, hi) == \A i \in 1..K : <<t, i>> \in A <=> i \in lo + 1 .. hi
SameButFor(A, B, T, K, t) ==
  /\ A \subseteq T \X (1..K) /\ B \subseteq T \X (1..K)
  /\ \A x \in T \X (1..K) : x[1] # t => (x \in A <=> x \in B)

(* Of two sets of pairs that differ in the column of t only, the sizes     *)
(* differ by the heights of the column.                                    *)
LEMMA OneColumn ==
  ASSUME NEW T, IsFiniteSet(T), NEW K \in Nat, NEW t \in T, NEW A, NEW B,
         NEW a \in Nat, NEW b \in Nat, NEW d \in Nat, NEW e \in Nat,
         a <= b, b <= K, d <= e, e <= K,
         SameButFor(A, B, T, K, t), Column(A, K, t, a, b), Column(B, K, t, d, e)
  PROVE  /\ Cardinality(A) \in Nat /\ Cardinality(B) \in Nat
         /\ Cardinality(B) = Cardinality(A) - (b - a) + (e - d)
<1>. USE DEF SameButFor, Column
<1>1. ASSUME NEW lo \in Nat, NEW hi \in Nat, lo <= hi
      PROVE  IsFiniteSet({t} \X (lo + 1 .. hi))
             /\ Cardinality({t} \X (lo + 1 .. hi)) = hi - lo
  <2>1. lo + 1 \in Int /\ hi \in Int
    OBVIOUS
  <2>2. IsFiniteSet(lo + 1 .. hi)
        /\ Cardinality(lo + 1 .. hi) = IF lo + 1 > hi THEN 0 ELSE hi - (lo + 1) + 1
    BY <2>1, FS_Interval
  <2>3. Cardinality(lo + 1 .. hi) = hi - lo
    BY <2>2, <1>1
  <2>4. IsFiniteSet({t}) /\ Cardinality({t}) = 1
    BY FS_Singleton
  <2>5. /\ IsFiniteSet({t} \X (lo + 1 .. hi))
        /\ Cardinality({t} \X (lo + 1 .. hi)) = Cardinality({t}) * Cardinality(lo + 1 .. hi)
    BY <2>2, <2>4, FS_Product
  <2>6. Cardinality({t} \X (lo + 1 .. hi)) = 1 * (hi - lo)
    BY <2>3, <2>4, <2>5
  <2>. QED
    BY <2>5, <2>6, <1>1
<1>2. IsFiniteSet(T \X (1..K))
  <2>1. 1 \in Int /\ K \in Int
    OBVIOUS
  <2>2. IsFiniteSet(1..K)
    BY <2>1, FS_Interval
  <2>. QED
    BY <2>2, FS_Product
<1>3. PICK R : R = {x \in A : x[1] # t}
  OBVIOUS
<1>4. IsFiniteSet(R)
  BY <1>2, <1>3, FS_Subset
<1>5. R = {x \in B : x[1] # t}
  BY <1>3
<1>6. ASSUME NEW S, S \subseteq T \X (1..K), NEW lo \in Nat, NEW hi \in Nat, lo <= hi, hi <= K,
             R = {x \in S : x[1] # t},
             \A i \in 1..K : <<t, i>> \in S <=> i \in lo + 1 .. hi
      PROVE  Cardinality(S) = Cardinality(R) + (hi - lo)
  <2>1. PICK C : C = {t} \X (lo + 1 .. hi)
    OBVIOUS
  <2>2. IsFiniteSet(C) /\ Cardinality(C) = hi - lo
    BY <1>1, <1>6, <2>1
  <2>3. \A x : x \in S <=> x \in R \cup C
    <3>1. ASSUME NEW x \in S PROVE x \in R \cup C
      <4>1. PICK u \in T, i \in 1..K : x = <<u, i>>
        BY <1>6
      <4>2. CASE u = t
        BY <1>6, <2>1, <4>1, <4>2
      <4>3. CASE u # t
        BY <1>6, <4>1, <4>3
      <4>. QED
        BY <4>2, <4>3
    <3>2. ASSUME NEW x \in C PROVE x \in S
      <4>1. PICK i \in lo + 1 .. hi : x = <<t, i>>
        BY <2>1
      <4>2. i \in 1..K
        BY <4>1, <1>6
      <4>. QED
        BY <1>6, <4>1, <4>2
    <3>. QED
      BY <1>6, <3>1, <3>2
  <2>4. S = R \cup C
    BY <2>3
  <2>5. R \cap C = {}
    <3>1. \A x \in C : x[1] = t
      BY <2>1
    <3>2. \A x \in R : x[1] # t
      BY <1>3
    <3>. QED
      BY <3>1, <3>2
  <2>6. Cardinality(R \cap C) = 0
    BY <2>5, FS_EmptySet
  <2>7. Cardinality(R \cup C) = Cardinality(R) + Cardinality(C) - Cardinality(R \cap C)
    BY <1>4, <2>2, FS_Union
  <2>8. Cardinality(R) \in Nat /\ Cardinality(C) \in Nat
    BY <1>4, <2>2, FS_CardinalityType
  <2>. QED
    <3>1. Cardinality(S) = Cardinality(R) + Cardinality(C) - 0
      BY <2>4, <2>6, <2>7
    <3>. QED
      BY <2>2, <2>8, <3>1
<1>7. Cardinality(A) = Cardinality(R) + (b - a)
  BY <1>3, <1>6
<1>8. Cardinality(B) = Cardinality(R) + (e - d)
  BY <1>5, <1>6
<1>9. Cardinality(R) \in Nat /\ Cardinality(A) \in Nat /\ Cardinality(B) \in Nat
  BY <1>2, <1>4, FS_CardinalityType, FS_Subset
<1>. QED
  BY <1>7, <1>8, <1>9

LEMMA PairsCounted ==
  ASSUME NEW T, IsFiniteSet(T), NEW K \in Nat, NEW A, A \subseteq T \X (1..K)
  PROVE  IsFiniteSet(A) /\ Cardinality(A) \in Nat
<1>1. 1 \in Int /\ K \in Int
  OBVIOUS
<1>2. IsFiniteSet(1..K)
  BY <1>1, FS_Interval
<1>3. IsFiniteSet(T \X (1..K))
  BY <1>2, FS_Product
<1>. QED
  BY <1>3, FS_Subset, FS_CardinalityType

(* The same for a set of threads of which t enters or leaves.              *)
LEMMA OneMember ==
  ASSUME NEW T, IsFiniteSet(T), NEW t \in T, NEW A, NEW B, A \subseteq T, B \subseteq T,
         \A u \in T : u # t => (u \in A <=> u \in B)
  PROVE  /\ Cardinality(A) \in Nat /\ Cardinality(B) \in Nat
         /\ Cardinality(B) = Cardinality(A) - (IF t \in A THEN 1 ELSE 0)
                                            + (IF t \in B THEN 1 ELSE 0)
<1>1. IsFiniteSet(A) /\ IsFiniteSet(B)
  BY FS_Subset
<1>2. Cardinality(A) \in Nat /\ Cardinality(B) \in Nat
  BY <1>1, FS_CardinalityType
<1>3. ASSUME NEW S, NEW Q, IsFiniteSet(S), IsFiniteSet(Q), S \subseteq T, Q \subseteq T, t \in S, t \notin Q,
             \A u \in T : u # t => (u \in S <=> u \in Q)
      PROVE  Cardinality(S) = Cardinality(Q) + 1
  <2>1. S = Q \cup {t}
    BY <1>3
  <2>. QED
    BY <1>3, <2>1, FS_AddElement
<1>4. CASE t \in A /\ t \notin B
  BY <1>1, <1>2, <1>3, <1>4
<1>5. CASE t \notin A /\ t \in B
  BY <1>1, <1>2, <1>3, <1>5
<1>6. CASE t \in A <=> t \in B
  <2>1. A = B
    BY <1>6
  <2>. QED
    BY <1>2, <2>1
<1>. QED
  BY <1>4, <1>5, <1>6

-----------------------------------------------------------------------------
(* A step of one thread and the two balances                               *)

SleepPcs == {"sleep", "undo", "undotry", "undocas"}
Sleeps(g) == IF g.pc \in SleepPcs THEN 1 ELSE 0
Below(m) == IF m < 0 THEN -m ELSE 0

(* A consumer moves to locals g: what it adds to the tokens owed and to    *)
(* the sleepers is what it takes from the count, the queue and the         *)
(* semaphore.                                                              *)
LEMMA ConsumerStep ==
  ASSUME BqIInv, NEW c \in BqConsumers, NEW g \in GetRec, GetOK(g),
         Moves(c, g), UNCHANGED put,
         inner' \in Nat, produced' = produced, inner' <= inner, m_count' \in Int, m_sema' \in Nat,
         inner' - (g.tokens - g.got) - m_count' - Sleeps(g)
           = inner - (get[c].tokens - get[c].got) - m_count - Sleeps(get[c]),
         Sleeps(g) - m_sema' - Below(m_count')
           = Sleeps(get[c]) - m_sema - Below(m_count)
  PROVE  BqIInv'
<1>0. /\ BqKinds /\ \A p \in BqProducers : PutOK(put[p])
      /\ \A k \in BqConsumers : GetOK(get[k])
      /\ ItemsAccounted /\ SleepersAccounted
  BY DEF BqIInv
<1>1. /\ get' = [get EXCEPT ![c] = g]
      /\ put' = put /\ inner' \in Nat /\ produced' = produced /\ inner' <= inner
      /\ m_count' \in Int /\ m_sema' \in Nat
  BY DEF Moves
<1>2. /\ get \in [BqConsumers -> GetRec] /\ get' \in [BqConsumers -> GetRec]
      /\ get'[c] = g /\ \A k \in BqConsumers : k # c => get'[k] = get[k]
  BY <1>0, <1>1 DEF BqKinds
<1>3. /\ MaxBulk \in Nat /\ IsFiniteSet(BqConsumers) /\ IsFiniteSet(BqProducers)
  BY BqAssumption
<1>4. /\ get[c].tokens \in 0..MaxBulk /\ get[c].got \in 0..MaxBulk
      /\ g.tokens \in 0..MaxBulk /\ g.got \in 0..MaxBulk
  BY <1>2 DEF GetRec
<1>5. /\ get[c].got <= get[c].tokens /\ g.got <= g.tokens
  BY <1>0, <1>4 DEF GetOK
<1>6. /\ Cardinality(Owed) \in Nat /\ Cardinality(Owed') \in Nat
      /\ Cardinality(Owed') = Cardinality(Owed) - (get[c].tokens - get[c].got)
                                               + (g.tokens - g.got)
  <2>1. PICK a, b, d, e : /\ a = get[c].got /\ b = get[c].tokens /\ d = g.got /\ e = g.tokens
    OBVIOUS
  <2>2. PICK A, B : A = Owed /\ B = Owed'
    OBVIOUS
  <2>3. A \subseteq BqConsumers \X (1..MaxBulk) /\ B \subseteq BqConsumers \X (1..MaxBulk)
    BY <2>2 DEF Owed
  <2>4. SameButFor(A, B, BqConsumers, MaxBulk, c)
    BY <1>2, <2>2, <2>3 DEF Owed, SameButFor
  <2>5. Column(A, MaxBulk, c, a, b)
    BY <2>1, <2>2 DEF Owed, Column
  <2>6. Column(B, MaxBulk, c, d, e)
    BY <1>2, <2>1, <2>2 DEF Owed, Column
  <2>7. /\ a \in Nat /\ b \in Nat /\ d \in Nat /\ e \in Nat
        /\ a <= b /\ b <= MaxBulk /\ d <= e /\ e <= MaxBulk
    BY <1>3, <1>4, <1>5, <2>1
  <2>8. /\ Cardinality(A) \in Nat /\ Cardinality(B) \in Nat
        /\ Cardinality(B) = Cardinality(A) - (b - a) + (e - d)
    BY <1>3, <2>3, <2>4, <2>5, <2>6, <2>7, OneColumn
  <2>. QED
    BY <2>1, <2>2, <2>8
<1>7. /\ Cardinality(Sleeping) \in Nat /\ Cardinality(Sleeping') \in Nat
      /\ Cardinality(Sleeping') = Cardinality(Sleeping) - Sleeps(get[c]) + Sleeps(g)
  <2>1. PICK A, B : A = Sleeping /\ B = Sleeping'
    OBVIOUS
  <2>2. /\ A \subseteq BqConsumers /\ B \subseteq BqConsumers
        /\ \A k \in BqConsumers : k # c => (k \in A <=> k \in B)
    BY <1>2, <2>1 DEF Sleeping
  <2>3. (c \in A <=> get[c].pc \in SleepPcs) /\ (c \in B <=> g.pc \in SleepPcs)
    BY <1>2, <2>1 DEF Sleeping, SleepPcs
  <2>4. /\ Cardinality(A) \in Nat /\ Cardinality(B) \in Nat
        /\ Cardinality(B) = Cardinality(A) - (IF c \in A THEN 1 ELSE 0)
                                           + (IF c \in B THEN 1 ELSE 0)
    BY <1>3, <2>2, OneMember
  <2>. QED
    BY <2>1, <2>3, <2>4 DEF Sleeps
<1>8. ToSignal' = ToSignal /\ ToPost' = ToPost
  BY <1>1 DEF ToSignal, ToPost
<1>9. Cardinality(ToSignal) \in Nat /\ Cardinality(ToPost) \in Nat
  BY <1>3, PairsCounted DEF ToSignal, ToPost
<1>10. BqKinds'
  BY <1>0, <1>1, <1>2 DEF BqKinds
<1>11. \A p \in BqProducers : PutOK(put'[p])
  BY <1>0, <1>1
<1>12. \A k \in BqConsumers : GetOK(get'[k])
  BY <1>0, <1>2
<1>13. /\ Sleeps(g) \in Int /\ Sleeps(get[c]) \in Int
       /\ inner \in Int /\ m_count \in Int /\ m_sema \in Int
  BY <1>0 DEF Sleeps, BqKinds
<1>14. Below(m_count) \in Int /\ Below(m_count') \in Int
  BY <1>1, <1>13 DEF Below
<1>15. ItemsAccounted'
  <2>1. inner = Cardinality(ToSignal) + Cardinality(Owed) + m_count + Cardinality(Sleeping)
    BY <1>0 DEF ItemsAccounted
  <2>2. inner' = Cardinality(ToSignal) + Cardinality(Owed') + m_count' + Cardinality(Sleeping')
    BY <1>1, <1>4, <1>6, <1>7, <1>9, <1>13, <2>1
  <2>. QED
    BY <1>8, <2>2 DEF ItemsAccounted
<1>16. SleepersAccounted'
  <2>1. Cardinality(Sleeping) = m_sema + Cardinality(ToPost) + Below(m_count)
    BY <1>0 DEF SleepersAccounted, Below
  <2>2. Cardinality(Sleeping') = m_sema' + Cardinality(ToPost) + Below(m_count')
    BY <1>1, <1>7, <1>9, <1>13, <1>14, <2>1
  <2>. QED
    BY <1>8, <2>2 DEF SleepersAccounted, Below
<1>. QED
  BY <1>10, <1>11, <1>12, <1>15, <1>16 DEF BqIInv

(* A producer moves to a call q: likewise for what is to be signalled and  *)
(* what is to be posted.                                                   *)
LEMMA ProducerStep ==
  ASSUME BqIInv, NEW p \in BqProducers, NEW q \in PutRec, PutOK(q),
         put' = [put EXCEPT ![p] = q], UNCHANGED get,
         inner' \in Nat, produced' \in Nat, inner' <= produced', produced' <= BqItems,
         m_count' \in Int, m_sema' \in Nat,
         inner' - q.count - m_count' = inner - put[p].count - m_count,
         m_sema' + q.posts + Below(m_count') = m_sema + put[p].posts + Below(m_count)
  PROVE  BqIInv'
<1>0. /\ BqKinds /\ \A k \in BqProducers : PutOK(put[k])
      /\ \A k \in BqConsumers : GetOK(get[k])
      /\ ItemsAccounted /\ SleepersAccounted
  BY DEF BqIInv
<1>1. /\ put' = [put EXCEPT ![p] = q] /\ get' = get
      /\ inner' \in Nat /\ produced' \in Nat /\ inner' <= produced' /\ produced' <= BqItems
      /\ m_count' \in Int /\ m_sema' \in Nat
  OBVIOUS
<1>2. /\ put \in [BqProducers -> PutRec] /\ put' \in [BqProducers -> PutRec]
      /\ put'[p] = q /\ \A k \in BqProducers : k # p => put'[k] = put[k]
  BY <1>0, <1>1 DEF BqKinds
<1>3. /\ MaxBulk \in Nat /\ IsFiniteSet(BqConsumers) /\ IsFiniteSet(BqProducers)
  BY BqAssumption
<1>4. /\ put[p].count \in 0..MaxBulk /\ put[p].posts \in 0..MaxBulk
      /\ q.count \in 0..MaxBulk /\ q.posts \in 0..MaxBulk
  BY <1>2 DEF PutRec
<1>5. /\ Cardinality(ToSignal) \in Nat /\ Cardinality(ToSignal') \in Nat
      /\ Cardinality(ToSignal') = Cardinality(ToSignal) - put[p].count + q.count
  <2>1. PICK b, e : b = put[p].count /\ e = q.count
    OBVIOUS
  <2>2. PICK A, B : A = ToSignal /\ B = ToSignal'
    OBVIOUS
  <2>3. A \subseteq BqProducers \X (1..MaxBulk) /\ B \subseteq BqProducers \X (1..MaxBulk)
    BY <2>2 DEF ToSignal
  <2>4. SameButFor(A, B, BqProducers, MaxBulk, p)
    BY <1>2, <2>2, <2>3 DEF ToSignal, SameButFor
  <2>5. Column(A, MaxBulk, p, 0, b)
    BY <2>1, <2>2 DEF ToSignal, Column
  <2>6. Column(B, MaxBulk, p, 0, e)
    BY <1>2, <2>1, <2>2 DEF ToSignal, Column
  <2>7. 0 \in Nat /\ b \in Nat /\ e \in Nat /\ 0 <= b /\ b <= MaxBulk /\ 0 <= e /\ e <= MaxBulk
    BY <1>3, <1>4, <2>1
  <2>8. /\ Cardinality(A) \in Nat /\ Cardinality(B) \in Nat
        /\ Cardinality(B) = Cardinality(A) - (b - 0) + (e - 0)
    BY <1>3, <2>3, <2>4, <2>5, <2>6, <2>7, OneColumn
  <2>. QED
    BY <2>1, <2>2, <2>7, <2>8
<1>6. /\ Cardinality(ToPost) \in Nat /\ Cardinality(ToPost') \in Nat
      /\ Cardinality(ToPost') = Cardinality(ToPost) - put[p].posts + q.posts
  <2>1. PICK b, e : b = put[p].posts /\ e = q.posts
    OBVIOUS
  <2>2. PICK A, B : A = ToPost /\ B = ToPost'
    OBVIOUS
  <2>3. A \subseteq BqProducers \X (1..MaxBulk) /\ B \subseteq BqProducers \X (1..MaxBulk)
    BY <2>2 DEF ToPost
  <2>4. SameButFor(A, B, BqProducers, MaxBulk, p)
    BY <1>2, <2>2, <2>3 DEF ToPost, SameButFor
  <2>5. Column(A, MaxBulk, p, 0, b)
    BY <2>1, <2>2 DEF ToPost, Column
  <2>6. Column(B, MaxBulk, p, 0, e)
    BY <1>2, <2>1, <2>2 DEF ToPost, Column
  <2>7. 0 \in Nat /\ b \in Nat /\ e \in Nat /\ 0 <= b /\ b <= MaxBulk /\ 0 <= e /\ e <= MaxBulk
    BY <1>3, <1>4, <2>1
  <2>8. /\ Cardinality(A) \in Nat /\ Cardinality(B) \in Nat
        /\ Cardinality(B) = Cardinality(A) - (b - 0) + (e - 0)
    BY <1>3, <2>3, <2>4, <2>5, <2>6, <2>7, OneColumn
  <2>. QED
    BY <2>1, <2>2, <2>7, <2>8
<1>7. Owed' = Owed /\ Sleeping' = Sleeping
  BY <1>1 DEF Owed, Sleeping
<1>8. Cardinality(Owed) \in Nat /\ Cardinality(Sleeping) \in Nat
  <2>1. Owed \subseteq BqConsumers \X (1..MaxBulk) /\ Sleeping \subseteq BqConsumers
    BY DEF Owed, Sleeping
  <2>. QED
    BY <1>3, <2>1, PairsCounted, FS_Subset, FS_CardinalityType
<1>9. BqKinds'
  BY <1>0, <1>1, <1>2 DEF BqKinds
<1>10. \A k \in BqProducers : PutOK(put'[k])
  BY <1>0, <1>2
<1>11. \A k \in BqConsumers : GetOK(get'[k])
  BY <1>0, <1>1
<1>12. inner \in Int /\ m_count \in Int /\ m_sema \in Int
  BY <1>0 DEF BqKinds
<1>13. Below(m_count) \in Int /\ Below(m_count') \in Int
  BY <1>1, <1>12 DEF Below
<1>14. ItemsAccounted'
  <2>1. inner = Cardinality(ToSignal) + Cardinality(Owed) + m_count + Cardinality(Sleeping)
    BY <1>0 DEF ItemsAccounted
  <2>2. inner' = Cardinality(ToSignal') + Cardinality(Owed) + m_count' + Cardinality(Sleeping)
    BY <1>1, <1>4, <1>5, <1>8, <1>12, <2>1
  <2>. QED
    BY <1>7, <2>2 DEF ItemsAccounted
<1>15. SleepersAccounted'
  <2>1. Cardinality(Sleeping) = m_sema + Cardinality(ToPost) + Below(m_count)
    BY <1>0 DEF SleepersAccounted, Below
  <2>2. Cardinality(Sleeping) = m_sema' + Cardinality(ToPost') + Below(m_count')
    BY <1>1, <1>4, <1>6, <1>8, <1>12, <1>13, <2>1
  <2>. QED
    BY <1>7, <2>2 DEF SleepersAccounted, Below
<1>. QED
  BY <1>9, <1>10, <1>11, <1>14, <1>15 DEF BqIInv

-----------------------------------------------------------------------------
(* What the counts are                                                     *)

(* The balances bound every count.                                         *)
LEMMA BqBounds == BqIInv => BqInv
<1>. SUFFICES ASSUME BqIInv PROVE BqInv
  OBVIOUS
<1>0. /\ BqKinds /\ ItemsAccounted /\ SleepersAccounted
  BY DEF BqIInv
<1>1. /\ MaxBulk \in Nat /\ IsFiniteSet(BqConsumers) /\ IsFiniteSet(BqProducers) /\ BqItems \in Nat
  BY BqAssumption
<1>2. /\ Owed \subseteq BqConsumers \X (1..MaxBulk) /\ Sleeping \subseteq BqConsumers
      /\ ToSignal \subseteq BqProducers \X (1..MaxBulk)
      /\ ToPost \subseteq BqProducers \X (1..MaxBulk)
  BY DEF Owed, Sleeping, ToSignal, ToPost
<1>3. /\ Cardinality(Owed) \in Nat /\ Cardinality(ToSignal) \in Nat
      /\ Cardinality(ToPost) \in Nat
  BY <1>1, <1>2, PairsCounted
<1>4. /\ Cardinality(Sleeping) \in Nat /\ Cardinality(BqConsumers) \in Nat
      /\ Cardinality(Sleeping) <= Cardinality(BqConsumers)
  BY <1>1, <1>2, FS_Subset, FS_CardinalityType
<1>5. /\ inner \in Nat /\ produced \in Nat /\ inner <= produced /\ produced <= BqItems
      /\ m_count \in Int /\ m_sema \in Nat
  BY <1>0 DEF BqKinds
<1>6. /\ inner = Cardinality(ToSignal) + Cardinality(Owed) + m_count + Cardinality(Sleeping)
      /\ Cardinality(Sleeping) = m_sema + Cardinality(ToPost) + Below(m_count)
  BY <1>0 DEF ItemsAccounted, SleepersAccounted, Below
<1>7. Below(m_count) \in Nat /\ Below(m_count) >= -m_count
  BY <1>5 DEF Below
<1>8. /\ m_count + Cardinality(Sleeping) >= 0
      /\ m_count \in -Cardinality(BqConsumers)..BqItems
      /\ m_sema \in 0..Cardinality(BqConsumers)
      /\ inner \in 0..BqItems /\ produced \in 0..BqItems
  BY <1>1, <1>3, <1>4, <1>5, <1>6, <1>7
<1>9. TokensHaveItems
  BY <1>3, <1>4, <1>5, <1>6, <1>8 DEF TokensHaveItems
<1>10. BqTypeOK
  BY <1>0, <1>8 DEF BqTypeOK, BqKinds, PutRec, GetRec
<1>. QED
  BY <1>0, <1>9, <1>10 DEF BqInv

-----------------------------------------------------------------------------
(* The actions                                                             *)

LEMMA BqInitOK == BqInit => BqIInv
<1>. SUFFICES ASSUME BqInit PROVE BqIInv
  OBVIOUS
<1>1. /\ MaxBulk \in Nat /\ IsFiniteSet(BqConsumers) /\ BqItems \in Nat
      /\ m_maxSpins \in Nat /\ BqCalls \in Nat /\ Cardinality(BqConsumers) \in Nat
  BY BqAssumption, FS_CardinalityType
<1>2. /\ inner = 0 /\ m_count = 0 /\ m_sema = 0 /\ produced = 0
      /\ put = [p \in BqProducers |-> [pc |-> "idle", count |-> 0, posts |-> 0]]
      /\ get = [c \in BqConsumers |-> GetIdle(0)]
  BY DEF BqInit
<1>3. GetIdle(0) \in GetRec /\ GetOK(GetIdle(0)) /\ GetIdle(0).pc = "idle"
      /\ GetIdle(0).got = 0 /\ GetIdle(0).tokens = 0
  BY <1>1 DEF GetIdle, Locals, GetRec, GetOK, Modes
<1>4. BqKinds
  BY <1>1, <1>2, <1>3 DEF BqKinds, PutRec
<1>5. (\A p \in BqProducers : PutOK(put[p])) /\ \A c \in BqConsumers : GetOK(get[c])
  BY <1>2, <1>3 DEF PutOK
<1>6. ToSignal = {} /\ ToPost = {} /\ Owed = {} /\ Sleeping = {}
  <2>1. ToSignal = {} /\ ToPost = {}
    BY <1>2 DEF ToSignal, ToPost
  <2>2. \A c \in BqConsumers : get[c].got = 0 /\ get[c].tokens = 0 /\ get[c].pc = "idle"
    BY <1>2, <1>3
  <2>3. Owed = {}
    BY <2>2 DEF Owed
  <2>4. Sleeping = {}
    BY <2>2 DEF Sleeping
  <2>. QED
    BY <2>1, <2>3, <2>4
<1>7. ItemsAccounted /\ SleepersAccounted
  BY <1>2, <1>6, FS_EmptySet DEF ItemsAccounted, SleepersAccounted
<1>. QED
  BY <1>4, <1>5, <1>7 DEF BqIInv

LEMMA PutStepOK ==
  ASSUME BqIInv, NEW p \in BqProducers,
         \/ Enqueue(p) \/ EnqueueBulk(p) \/ TryEnqueue(p) \/ TryEnqueueBulk(p)
         \/ Signal(p) \/ Post(p)
  PROVE  BqIInv'
<1>0. /\ BqKinds /\ PutOK(put[p])
  BY DEF BqIInv
<1>1. /\ inner \in Nat /\ produced \in Nat /\ inner <= produced /\ produced <= BqItems
      /\ m_count \in Int /\ m_sema \in Nat /\ MaxBulk \in Nat \ {0} /\ BqItems \in Nat
      /\ put \in [BqProducers -> PutRec] /\ put[p] \in PutRec
  BY <1>0, BqAssumption DEF BqKinds
<1>2. /\ put[p].pc \in {"idle", "signal", "post"}
      /\ put[p].count \in 0..MaxBulk /\ put[p].posts \in 0..MaxBulk
  BY <1>1 DEF PutRec
<1>3. ASSUME NEW n \in 1..MaxBulk, PutItems(p, n) PROVE BqIInv'
  <2>1. /\ put[p].pc = "idle" /\ produced + n <= BqItems /\ produced' = produced + n
        /\ m_count' = m_count /\ m_sema' = m_sema /\ get' = get
    BY <1>3 DEF PutItems
  <2>2. PICK ok \in BOOLEAN :
           /\ inner' = IF ok THEN inner + n ELSE inner
           /\ put' = [put EXCEPT ![p] = [pc |-> IF ok THEN "signal" ELSE "idle",
                                         count |-> IF ok THEN n ELSE 0, posts |-> 0]]
    BY <1>3 DEF PutItems
  <2>3. PICK q : q = [pc |-> IF ok THEN "signal" ELSE "idle",
                      count |-> IF ok THEN n ELSE 0, posts |-> 0]
    OBVIOUS
  <2>4. /\ q \in PutRec /\ PutOK(q) /\ q.posts = 0 /\ q.count = IF ok THEN n ELSE 0
    BY <1>1, <2>3 DEF PutRec, PutOK
  <2>5. put[p].count = 0 /\ put[p].posts = 0
    BY <1>0, <2>1 DEF PutOK
  <2>6. /\ inner' \in Nat /\ produced' \in Nat /\ inner' <= produced' /\ produced' <= BqItems
        /\ inner' - q.count - m_count' = inner - put[p].count - m_count
    BY <1>1, <2>1, <2>2, <2>4, <2>5
  <2>7. m_sema' + q.posts + Below(m_count') = m_sema + put[p].posts + Below(m_count)
    BY <1>1, <2>1, <2>4, <2>5 DEF Below
  <2>8. put' = [put EXCEPT ![p] = q]
    BY <2>2, <2>3
  <2>. QED
    BY <1>1, <2>1, <2>4, <2>6, <2>7, <2>8, ProducerStep
<1>4. CASE Enqueue(p) \/ TryEnqueue(p)
  <2>1. 1 \in 1..MaxBulk /\ PutItems(p, 1)
    BY <1>1, <1>4 DEF Enqueue, TryEnqueue
  <2>. QED
    BY <1>3, <2>1
<1>5. CASE EnqueueBulk(p) \/ TryEnqueueBulk(p)
  <2>1. PICK n \in 2..MaxBulk : PutItems(p, n)
    BY <1>5 DEF EnqueueBulk, TryEnqueueBulk
  <2>2. n \in 1..MaxBulk
    BY <1>1, <2>1
  <2>. QED
    BY <1>3, <2>1, <2>2
<1>6. CASE Signal(p)
  <2>1. PICK r : r = ToRelease(m_count, put[p].count)
    OBVIOUS
  <2>2. /\ put[p].pc = "signal" /\ m_count' = m_count + put[p].count
        /\ put' = [put EXCEPT ![p] = [pc |-> IF r > 0 THEN "post" ELSE "idle",
                                      count |-> 0, posts |-> r]]
        /\ inner' = inner /\ m_sema' = m_sema /\ get' = get /\ produced' = produced
    BY <1>6, <2>1 DEF Signal
  <2>3. /\ r \in 0..MaxBulk
        /\ r + Below(m_count + put[p].count) = Below(m_count)
    BY <1>1, <1>2, <2>1 DEF ToRelease, Fewer, Below
  <2>4. PICK q : q = [pc |-> IF r > 0 THEN "post" ELSE "idle", count |-> 0, posts |-> r]
    OBVIOUS
  <2>5. /\ q \in PutRec /\ PutOK(q) /\ q.posts = r /\ q.count = 0
    BY <1>1, <2>3, <2>4 DEF PutRec, PutOK
  <2>6. put[p].posts = 0
    BY <1>0, <2>2 DEF PutOK
  <2>7. /\ inner' \in Nat /\ produced' \in Nat /\ inner' <= produced' /\ produced' <= BqItems
        /\ m_count' \in Int
        /\ inner' - q.count - m_count' = inner - put[p].count - m_count
    BY <1>1, <1>2, <2>2, <2>5
  <2>8. Below(m_count) \in Int /\ Below(m_count') \in Int
    BY <1>1, <2>7 DEF Below
  <2>9. m_sema' + q.posts + Below(m_count') = m_sema + put[p].posts + Below(m_count)
    BY <1>1, <2>2, <2>3, <2>5, <2>6, <2>8
  <2>10. put' = [put EXCEPT ![p] = q] /\ m_sema' \in Nat
    BY <1>1, <2>2, <2>4
  <2>. QED
    BY <2>2, <2>5, <2>7, <2>9, <2>10, ProducerStep
<1>7. CASE Post(p)
  <2>1. /\ put[p].pc = "post" /\ m_sema' = m_sema + 1
        /\ put' = [put EXCEPT ![p] = [pc |-> IF put[p].posts = 1 THEN "idle" ELSE "post",
                                      count |-> 0, posts |-> put[p].posts - 1]]
        /\ inner' = inner /\ m_count' = m_count /\ get' = get /\ produced' = produced
    BY <1>7 DEF Post
  <2>2. put[p].posts >= 1 /\ put[p].count = 0
    BY <1>0, <2>1 DEF PutOK
  <2>3. PICK q : q = [pc |-> IF put[p].posts = 1 THEN "idle" ELSE "post", count |-> 0,
                      posts |-> put[p].posts - 1]
    OBVIOUS
  <2>4. /\ q \in PutRec /\ PutOK(q) /\ q.posts = put[p].posts - 1 /\ q.count = 0
    BY <1>1, <1>2, <2>2, <2>3 DEF PutRec, PutOK
  <2>5. put' = [put EXCEPT ![p] = q]
    BY <2>1, <2>3
  <2>6. /\ inner' \in Nat /\ produced' \in Nat /\ inner' <= produced' /\ produced' <= BqItems
        /\ m_count' \in Int /\ m_sema' \in Nat
        /\ inner' - q.count - m_count' = inner - put[p].count - m_count
    BY <1>1, <1>2, <2>1, <2>2, <2>4
  <2>7. Below(m_count) \in Int
    BY <1>1 DEF Below
  <2>8. m_sema' + q.posts + Below(m_count') = m_sema + put[p].posts + Below(m_count)
    BY <1>1, <1>2, <2>1, <2>4, <2>7
  <2>. QED
    BY <2>1, <2>4, <2>5, <2>6, <2>8, ProducerStep
<1>. QED
  BY <1>4, <1>5, <1>6, <1>7

LEMMA GetIdleOK ==
  ASSUME NEW n \in 0..BqCalls
  PROVE  /\ GetIdle(n) \in GetRec /\ GetOK(GetIdle(n)) /\ GetIdle(n).pc = "idle"
         /\ GetIdle(n).mode = "try" /\ GetIdle(n).calls = n
         /\ GetIdle(n).got = 0 /\ GetIdle(n).tokens = 0
<1>1. /\ MaxBulk \in Nat /\ BqItems \in Nat /\ m_maxSpins \in Nat /\ BqCalls \in Nat
      /\ Cardinality(BqConsumers) \in Nat
  BY BqAssumption, FS_CardinalityType
<1>. QED
  BY <1>1 DEF GetIdle, Locals, GetRec, GetOK, Modes

LEMMA CallOK ==
  ASSUME BqIInv, NEW c \in BqConsumers, NEW mode \in Modes, NEW max \in 1..MaxBulk,
         Call(c, mode, max)
  PROVE  BqIInv'
<1>0. BqKinds /\ GetOK(get[c])
  BY DEF BqIInv
<1>1. /\ inner \in Nat /\ m_count \in Int /\ m_sema \in Nat /\ MaxBulk \in Nat
      /\ BqItems \in Nat /\ m_maxSpins \in Nat /\ BqCalls \in Nat
      /\ Cardinality(BqConsumers) \in Nat /\ get[c] \in GetRec
  BY <1>0, BqAssumption, FS_CardinalityType DEF BqKinds
<1>2. get[c].calls \in 0..BqCalls
  BY <1>1 DEF GetRec
<1>3. PICK g : g = Locals("load", mode, max, get[c].calls + 1)
  OBVIOUS
<1>4. /\ get[c].pc = "idle" /\ get[c].calls < BqCalls /\ Moves(c, g)
      /\ inner' = inner /\ put' = put /\ produced' = produced
      /\ m_count' = m_count /\ m_sema' = m_sema
  BY <1>3 DEF Call, At, Quiet
<1>5. g \in GetRec /\ GetOK(g) /\ g.pc = "load" /\ g.tokens = 0 /\ g.got = 0
  <2>1. get[c].calls + 1 \in 0..BqCalls /\ max \in 0..MaxBulk
    BY <1>1, <1>2, <1>4
  <2>2. /\ g.pc = "load" /\ g.max = max /\ g.got = 0 /\ g.tokens = 0
    BY <1>3 DEF Locals
  <2>3. g \in GetRec
    BY <1>1, <1>3, <2>1 DEF GetRec, Locals
  <2>. QED
    BY <1>1, <2>2, <2>3 DEF GetOK
<1>6. get[c].tokens = 0 /\ get[c].got = 0
  BY <1>0, <1>4 DEF GetOK
<1>7. Sleeps(g) = 0 /\ Sleeps(get[c]) = 0
  BY <1>4, <1>5 DEF Sleeps, SleepPcs
<1>8. inner' - (g.tokens - g.got) - m_count' - Sleeps(g)
        = inner - (get[c].tokens - get[c].got) - m_count - Sleeps(get[c])
  BY <1>1, <1>4, <1>5, <1>6, <1>7
<1>9. Sleeps(g) - m_sema' - Below(m_count') = Sleeps(get[c]) - m_sema - Below(m_count)
  BY <1>4, <1>7
<1>. QED
  BY <1>1, <1>4, <1>5, <1>8, <1>9, ConsumerStep

(* A step that changes the locals of one consumer only.                    *)
LEMMA LocalStep ==
  ASSUME BqIInv, NEW c \in BqConsumers, NEW g \in GetRec, GetOK(g), Moves(c, g),
         Quiet, m_count' = m_count, m_sema' = m_sema,
         g.tokens = get[c].tokens, g.got = get[c].got, Sleeps(g) = Sleeps(get[c])
  PROVE  BqIInv'
<1>1. BqKinds
  BY DEF BqIInv
<1>2. /\ inner' = inner /\ put' = put /\ produced' = produced
      /\ inner \in Nat /\ m_count \in Int /\ m_sema \in Nat
  BY <1>1 DEF Quiet, BqKinds
<1>3. /\ inner' \in Nat /\ inner' <= inner /\ m_count' \in Int /\ m_sema' \in Nat
  BY <1>2
<1>4. /\ inner' - (g.tokens - g.got) - m_count' - Sleeps(g)
           = inner - (get[c].tokens - get[c].got) - m_count - Sleeps(get[c])
      /\ Sleeps(g) - m_sema' - Below(m_count') = Sleeps(get[c]) - m_sema - Below(m_count)
  BY <1>2
<1>. QED
  BY <1>2, <1>3, <1>4, ConsumerStep

LEMMA LeavesOK ==
  ASSUME BqIInv, NEW c \in BqConsumers, Leaves(c)
  PROVE  \E g \in GetRec : /\ GetOK(g) /\ Moves(c, g) /\ g.tokens = 0 /\ g.got = 0
                           /\ Sleeps(g) = 0
<1>0. BqKinds /\ GetOK(get[c])
  BY DEF BqIInv
<1>1. /\ MaxBulk \in Nat /\ BqItems \in Nat /\ m_maxSpins \in Nat
      /\ BqCalls \in Nat /\ Cardinality(BqConsumers) \in Nat /\ get[c] \in GetRec
  BY <1>0, BqAssumption, FS_CardinalityType DEF BqKinds
<1>2. /\ get[c].mode \in Modes /\ get[c].max \in 0..MaxBulk /\ get[c].spin \in 0..m_maxSpins
      /\ get[c].old \in Int /\ get[c].tokens \in 0..MaxBulk /\ get[c].got \in 0..MaxBulk
      /\ get[c].calls \in 0..BqCalls
  BY <1>1 DEF GetRec
<1>3. PICK g : g = GetIdle(get[c].calls)
  OBVIOUS
<1>4. g \in GetRec /\ GetOK(g) /\ g.pc = "idle" /\ g.tokens = 0 /\ g.got = 0
  BY <1>2, <1>3, GetIdleOK
<1>5. Sleeps(g) = 0
  BY <1>4 DEF Sleeps, SleepPcs
<1>6. Moves(c, g)
  BY <1>3 DEF Leaves
<1>. QED
  BY <1>4, <1>5, <1>6

LEMMA AcquiredOK ==
  ASSUME BqIInv, NEW c \in BqConsumers, get[c].pc \in {"spin", "sleep", "undotry"}, Acquired(c)
  PROVE  \E g \in GetRec : /\ GetOK(g) /\ Moves(c, g) /\ g.tokens = 1 /\ g.got = 0
                           /\ Sleeps(g) = 0
<1>0. BqKinds /\ GetOK(get[c])
  BY DEF BqIInv
<1>1. /\ MaxBulk \in Nat /\ BqItems \in Nat /\ m_maxSpins \in Nat
      /\ BqCalls \in Nat /\ Cardinality(BqConsumers) \in Nat /\ get[c] \in GetRec
  BY <1>0, BqAssumption, FS_CardinalityType DEF BqKinds
<1>2. /\ get[c].mode \in Modes /\ get[c].max \in 0..MaxBulk /\ get[c].spin \in 0..m_maxSpins
      /\ get[c].old \in Int /\ get[c].tokens \in 0..MaxBulk /\ get[c].got \in 0..MaxBulk
      /\ get[c].calls \in 0..BqCalls
  BY <1>1 DEF GetRec
<1>3. get[c].max >= 1 /\ get[c].got = 0
  BY <1>0 DEF GetOK
<1>4. CASE get[c].max > 1
  <2>1. PICK g : g = [get[c] EXCEPT !.pc = "load", !.tokens = 1, !.max = @ - 1]
    OBVIOUS
  <2>2. Moves(c, g)
    BY <1>4, <2>1 DEF Acquired
  <2>3. g.pc = "load" /\ g.tokens = 1 /\ g.got = 0 /\ g.max = get[c].max - 1
    BY <1>1, <1>3, <2>1 DEF GetRec
  <2>4. g \in GetRec
    <3>1. PICK h : h = [get[c] EXCEPT !.pc = "load"]
      OBVIOUS
    <3>2. PICK i : i = [h EXCEPT !.tokens = 1]
      OBVIOUS
    <3>3. g = [i EXCEPT !.max = get[c].max - 1]
      BY <1>1, <2>1, <3>1, <3>2 DEF GetRec
    <3>4. h \in GetRec
      BY <1>1, <3>1 DEF GetRec
    <3>5. i \in GetRec
      BY <1>1, <1>2, <1>4, <3>2, <3>4 DEF GetRec
    <3>. QED
      BY <1>1, <1>2, <1>4, <3>3, <3>5 DEF GetRec
  <2>5. GetOK(g)
    BY <1>1, <1>2, <1>4, <2>3 DEF GetOK
  <2>6. Sleeps(g) = 0
    BY <2>3 DEF Sleeps, SleepPcs
  <2>. QED
    BY <2>2, <2>3, <2>4, <2>5, <2>6
<1>5. CASE ~(get[c].max > 1)
  <2>1. PICK g : g = [get[c] EXCEPT !.pc = "take", !.tokens = 1]
    OBVIOUS
  <2>2. Moves(c, g)
    BY <1>5, <2>1 DEF Acquired
  <2>3. g.pc = "take" /\ g.tokens = 1 /\ g.got = 0 /\ g.max = get[c].max
    BY <1>1, <1>3, <2>1 DEF GetRec
  <2>4. g \in GetRec
    <3>1. PICK h : h = [get[c] EXCEPT !.pc = "take"]
      OBVIOUS
    <3>2. g = [h EXCEPT !.tokens = 1]
      BY <2>1, <3>1
    <3>3. h \in GetRec
      BY <1>1, <3>1 DEF GetRec
    <3>. QED
      BY <1>1, <1>2, <1>3, <3>2, <3>3 DEF GetRec
  <2>5. GetOK(g)
    BY <1>1, <1>2, <1>3, <2>3 DEF GetOK
  <2>6. Sleeps(g) = 0
    BY <2>3 DEF Sleeps, SleepPcs
  <2>. QED
    BY <2>2, <2>3, <2>4, <2>5, <2>6
<1>. QED
  BY <1>4, <1>5

LEMMA GiveUpOK ==
  ASSUME BqIInv, NEW c \in BqConsumers, get[c].pc \in {"load", "cas"}, GiveUp(c)
  PROVE  \E g \in GetRec : /\ GetOK(g) /\ Moves(c, g) /\ g.tokens = get[c].tokens
                           /\ g.got = get[c].got /\ Sleeps(g) = Sleeps(get[c])
<1>0. BqKinds /\ GetOK(get[c])
  BY DEF BqIInv
<1>1. /\ MaxBulk \in Nat /\ BqItems \in Nat /\ m_maxSpins \in Nat
      /\ BqCalls \in Nat /\ Cardinality(BqConsumers) \in Nat /\ get[c] \in GetRec
  BY <1>0, BqAssumption, FS_CardinalityType DEF BqKinds
<1>2. /\ get[c].mode \in Modes /\ get[c].max \in 0..MaxBulk /\ get[c].spin \in 0..m_maxSpins
      /\ get[c].old \in Int /\ get[c].tokens \in 0..MaxBulk /\ get[c].got \in 0..MaxBulk
      /\ get[c].calls \in 0..BqCalls
  BY <1>1 DEF GetRec
<1>3. get[c].max >= 1 /\ get[c].got = 0 /\ Sleeps(get[c]) = 0
  BY <1>0 DEF GetOK, Sleeps, SleepPcs
<1>4. CASE get[c].tokens > 0 /\ Moves(c, [get[c] EXCEPT !.pc = "take"])
  <2>1. PICK g : g = [get[c] EXCEPT !.pc = "take"]
    OBVIOUS
  <2>2. g.pc = "take" /\ g.tokens = get[c].tokens /\ g.got = get[c].got /\ g.max = get[c].max
    BY <1>1, <2>1 DEF GetRec
  <2>3. g \in GetRec
    BY <1>1, <2>1 DEF GetRec
  <2>4. GetOK(g)
    BY <1>2, <1>3, <1>4, <2>2 DEF GetOK
  <2>5. Sleeps(g) = 0
    BY <2>2 DEF Sleeps, SleepPcs
  <2>. QED
    BY <1>3, <1>4, <2>1, <2>2, <2>3, <2>4, <2>5
<1>5. CASE get[c].tokens = 0 /\ Leaves(c)
  BY <1>3, <1>5, LeavesOK
<1>6. CASE get[c].tokens = 0 /\ Moves(c, [get[c] EXCEPT !.pc = "spin", !.spin = m_maxSpins])
  <2>1. PICK g : g = [get[c] EXCEPT !.pc = "spin", !.spin = m_maxSpins]
    OBVIOUS
  <2>2. g.pc = "spin" /\ g.tokens = get[c].tokens /\ g.got = get[c].got /\ g.max = get[c].max
    BY <1>1, <2>1 DEF GetRec
  <2>3. g \in GetRec
    <3>1. PICK h : h = [get[c] EXCEPT !.pc = "spin"]
      OBVIOUS
    <3>2. g = [h EXCEPT !.spin = m_maxSpins]
      BY <2>1, <3>1
    <3>3. h \in GetRec
      BY <1>1, <3>1 DEF GetRec
    <3>. QED
      BY <1>1, <3>2, <3>3 DEF GetRec
  <2>4. GetOK(g)
    BY <1>2, <1>3, <1>6, <2>2 DEF GetOK
  <2>5. Sleeps(g) = 0
    BY <2>2 DEF Sleeps, SleepPcs
  <2>. QED
    BY <1>3, <1>6, <2>1, <2>2, <2>3, <2>4, <2>5
<1>. QED
  BY <1>4, <1>5, <1>6 DEF GiveUp

LEMMA LoadOK ==
  ASSUME BqIInv, NEW c \in BqConsumers, Load(c)
  PROVE  BqIInv'
<1>0. BqKinds /\ GetOK(get[c])
  BY DEF BqIInv
<1>1. /\ MaxBulk \in Nat /\ BqItems \in Nat /\ m_maxSpins \in Nat
      /\ BqCalls \in Nat /\ Cardinality(BqConsumers) \in Nat /\ get[c] \in GetRec
  BY <1>0, BqAssumption, FS_CardinalityType DEF BqKinds
<1>2. /\ get[c].mode \in Modes /\ get[c].max \in 0..MaxBulk /\ get[c].spin \in 0..m_maxSpins
      /\ get[c].old \in Int /\ get[c].tokens \in 0..MaxBulk /\ get[c].got \in 0..MaxBulk
      /\ get[c].calls \in 0..BqCalls
      /\ inner \in Nat /\ m_count \in Int /\ m_sema \in Nat
  BY <1>0, <1>1 DEF BqKinds, GetRec
<1>3. m_count \in -Cardinality(BqConsumers)..BqItems
  BY BqBounds DEF BqInv, BqTypeOK
<1>4. get[c].pc = "load" /\ Quiet /\ m_count' = m_count /\ m_sema' = m_sema
  BY DEF Load, At
<1>5. CASE m_count > 0 /\ Moves(c, [get[c] EXCEPT !.pc = "cas", !.old = m_count])
  <2>1. PICK g : g = [get[c] EXCEPT !.pc = "cas", !.old = m_count]
    OBVIOUS
  <2>2. g.pc = "cas" /\ g.old = m_count /\ g.tokens = get[c].tokens /\ g.got = get[c].got /\ g.max = get[c].max
    BY <1>1, <2>1 DEF GetRec
  <2>3. g \in GetRec
    <3>1. PICK h : h = [get[c] EXCEPT !.pc = "cas"]
      OBVIOUS
    <3>2. g = [h EXCEPT !.old = m_count]
      BY <1>1, <2>1, <3>1 DEF GetRec
    <3>3. h \in GetRec
      BY <1>1, <1>2, <1>3, <1>4, <1>5, <3>1 DEF GetRec
    <3>. QED
      BY <1>1, <1>2, <1>3, <1>4, <1>5, <3>2, <3>3 DEF GetRec
  <2>4. GetOK(g)
    BY <1>0, <1>1, <1>2, <1>3, <1>4, <1>5, <2>2 DEF GetOK
  <2>5. Sleeps(g) = Sleeps(get[c])
    BY <1>4, <1>5, <2>2 DEF Sleeps, SleepPcs
  <2>. QED
    BY <1>4, <1>5, <2>1, <2>2, <2>3, <2>4, <2>5, LocalStep
<1>6. CASE GiveUp(c)
  BY <1>4, <1>6, GiveUpOK, LocalStep
<1>. QED
  BY <1>5, <1>6 DEF Load

LEMMA SpinLoadOK ==
  ASSUME BqIInv, NEW c \in BqConsumers, SpinLoad(c)
  PROVE  BqIInv'
<1>0. BqKinds /\ GetOK(get[c])
  BY DEF BqIInv
<1>1. /\ MaxBulk \in Nat /\ BqItems \in Nat /\ m_maxSpins \in Nat
      /\ BqCalls \in Nat /\ Cardinality(BqConsumers) \in Nat /\ get[c] \in GetRec
  BY <1>0, BqAssumption, FS_CardinalityType DEF BqKinds
<1>2. /\ get[c].mode \in Modes /\ get[c].max \in 0..MaxBulk /\ get[c].spin \in 0..m_maxSpins
      /\ get[c].old \in Int /\ get[c].tokens \in 0..MaxBulk /\ get[c].got \in 0..MaxBulk
      /\ get[c].calls \in 0..BqCalls
      /\ inner \in Nat /\ m_count \in Int /\ m_sema \in Nat
  BY <1>0, <1>1 DEF BqKinds, GetRec
<1>3. m_count \in -Cardinality(BqConsumers)..BqItems
  BY BqBounds DEF BqInv, BqTypeOK
<1>4. get[c].pc = "spin" /\ get[c].spin > 0 /\ Quiet /\ m_count' = m_count /\ m_sema' = m_sema
  BY DEF SpinLoad, At, SpinsOn
<1>5. CASE /\ m_count > 0
           /\ Moves(c, [get[c] EXCEPT !.pc = "spincas", !.spin = @ - 1, !.old = m_count])
  <2>1. PICK g : g = [get[c] EXCEPT !.pc = "spincas", !.spin = @ - 1, !.old = m_count]
    OBVIOUS
  <2>2. g.pc = "spincas" /\ g.old = m_count /\ g.tokens = get[c].tokens /\ g.got = get[c].got /\ g.max = get[c].max
    BY <1>1, <2>1 DEF GetRec
  <2>3. g \in GetRec
    <3>1. PICK h : h = [get[c] EXCEPT !.pc = "spincas"]
      OBVIOUS
    <3>2. PICK i : i = [h EXCEPT !.spin = get[c].spin - 1]
      OBVIOUS
    <3>3. g = [i EXCEPT !.old = m_count]
      BY <1>1, <2>1, <3>1, <3>2 DEF GetRec
    <3>4. h \in GetRec
      BY <1>1, <1>2, <1>3, <1>4, <1>5, <3>1 DEF GetRec
    <3>5. i \in GetRec
      BY <1>1, <1>2, <1>3, <1>4, <1>5, <3>2, <3>4 DEF GetRec
    <3>. QED
      BY <1>1, <1>2, <1>3, <1>4, <1>5, <3>3, <3>5 DEF GetRec
  <2>4. GetOK(g)
    BY <1>0, <1>1, <1>2, <1>3, <1>4, <1>5, <2>2 DEF GetOK
  <2>5. Sleeps(g) = Sleeps(get[c])
    BY <1>4, <1>5, <2>2 DEF Sleeps, SleepPcs
  <2>. QED
    BY <1>4, <1>5, <2>1, <2>2, <2>3, <2>4, <2>5, LocalStep
<1>6. CASE Moves(c, [get[c] EXCEPT !.spin = @ - 1])
  <2>1. PICK g : g = [get[c] EXCEPT !.spin = @ - 1]
    OBVIOUS
  <2>2. g.pc = "spin" /\ g.tokens = get[c].tokens /\ g.got = get[c].got /\ g.max = get[c].max /\ g.old = get[c].old
    BY <1>1, <1>4, <2>1 DEF GetRec
  <2>3. g \in GetRec
    BY <1>1, <1>2, <1>4, <2>1 DEF GetRec
  <2>4. GetOK(g)
    BY <1>0, <1>1, <1>2, <1>4, <2>2 DEF GetOK
  <2>5. Sleeps(g) = Sleeps(get[c])
    BY <1>4, <1>6, <2>2 DEF Sleeps, SleepPcs
  <2>. QED
    BY <1>4, <1>6, <2>1, <2>2, <2>3, <2>4, <2>5, LocalStep
<1>. QED
  BY <1>5, <1>6 DEF SpinLoad

LEMMA TimedOutOK ==
  ASSUME BqIInv, NEW c \in BqConsumers, TimedOut(c)
  PROVE  BqIInv'
<1>0. BqKinds /\ GetOK(get[c])
  BY DEF BqIInv
<1>1. /\ MaxBulk \in Nat /\ BqItems \in Nat /\ m_maxSpins \in Nat
      /\ BqCalls \in Nat /\ Cardinality(BqConsumers) \in Nat /\ get[c] \in GetRec
  BY <1>0, BqAssumption, FS_CardinalityType DEF BqKinds
<1>2. /\ get[c].mode \in Modes /\ get[c].max \in 0..MaxBulk /\ get[c].spin \in 0..m_maxSpins
      /\ get[c].old \in Int /\ get[c].tokens \in 0..MaxBulk /\ get[c].got \in 0..MaxBulk
      /\ get[c].calls \in 0..BqCalls
      /\ inner \in Nat /\ m_count \in Int /\ m_sema \in Nat
  BY <1>0, <1>1 DEF BqKinds, GetRec
<1>3. get[c].pc = "sleep" /\ Quiet /\ m_count' = m_count /\ m_sema' = m_sema
      /\ Moves(c, [get[c] EXCEPT !.pc = "undo"])
  BY DEF TimedOut, At
<1>4. PICK g : g = [get[c] EXCEPT !.pc = "undo"]
  OBVIOUS
<1>5. g.pc = "undo" /\ g.tokens = get[c].tokens /\ g.got = get[c].got /\ g.max = get[c].max /\ g.old = get[c].old
  BY <1>1, <1>4 DEF GetRec
<1>6. g \in GetRec
  BY <1>1, <1>2, <1>3, <1>4 DEF GetRec
<1>7. GetOK(g)
  BY <1>0, <1>1, <1>2, <1>3, <1>5 DEF GetOK
<1>8. Sleeps(g) = Sleeps(get[c])
  BY <1>3, <1>5 DEF Sleeps, SleepPcs
<1>. QED
  BY <1>3, <1>4, <1>5, <1>6, <1>7, <1>8, LocalStep

LEMMA UndoLoadOK ==
  ASSUME BqIInv, NEW c \in BqConsumers, UndoLoad(c)
  PROVE  BqIInv'
<1>0. BqKinds /\ GetOK(get[c])
  BY DEF BqIInv
<1>1. /\ MaxBulk \in Nat /\ BqItems \in Nat /\ m_maxSpins \in Nat
      /\ BqCalls \in Nat /\ Cardinality(BqConsumers) \in Nat /\ get[c] \in GetRec
  BY <1>0, BqAssumption, FS_CardinalityType DEF BqKinds
<1>2. /\ get[c].mode \in Modes /\ get[c].max \in 0..MaxBulk /\ get[c].spin \in 0..m_maxSpins
      /\ get[c].old \in Int /\ get[c].tokens \in 0..MaxBulk /\ get[c].got \in 0..MaxBulk
      /\ get[c].calls \in 0..BqCalls
      /\ inner \in Nat /\ m_count \in Int /\ m_sema \in Nat
  BY <1>0, <1>1 DEF BqKinds, GetRec
<1>3. m_count \in -Cardinality(BqConsumers)..BqItems
  BY BqBounds DEF BqInv, BqTypeOK
<1>4. /\ get[c].pc = "undo" /\ Quiet /\ m_count' = m_count /\ m_sema' = m_sema
      /\ Moves(c, [get[c] EXCEPT !.old = m_count,
                                 !.pc = IF m_count >= 0 THEN "undotry" ELSE "undocas"])
  BY DEF UndoLoad, At
<1>5. CASE m_count >= 0
  <2>1. Moves(c, [get[c] EXCEPT !.old = m_count, !.pc = "undotry"])
    BY <1>4, <1>5
  <2>2. PICK g : g = [get[c] EXCEPT !.old = m_count, !.pc = "undotry"]
    OBVIOUS
  <2>3. g.pc = "undotry" /\ g.old = m_count /\ g.tokens = get[c].tokens /\ g.got = get[c].got /\ g.max = get[c].max
    BY <1>1, <2>2 DEF GetRec
  <2>4. g \in GetRec
    <3>1. PICK h : h = [get[c] EXCEPT !.old = m_count]
      OBVIOUS
    <3>2. g = [h EXCEPT !.pc = "undotry"]
      BY <1>1, <2>2, <3>1 DEF GetRec
    <3>3. h \in GetRec
      BY <1>1, <1>2, <1>3, <1>4, <1>5, <3>1 DEF GetRec
    <3>. QED
      BY <1>1, <1>2, <1>3, <1>4, <1>5, <3>2, <3>3 DEF GetRec
  <2>5. GetOK(g)
    BY <1>0, <1>1, <1>2, <1>3, <1>4, <1>5, <2>3 DEF GetOK
  <2>6. Sleeps(g) = Sleeps(get[c])
    BY <1>4, <2>1, <2>3 DEF Sleeps, SleepPcs
  <2>. QED
    BY <1>4, <2>1, <2>2, <2>3, <2>4, <2>5, <2>6, LocalStep
<1>6. CASE ~(m_count >= 0)
  <2>1. Moves(c, [get[c] EXCEPT !.old = m_count, !.pc = "undocas"])
    BY <1>4, <1>6
  <2>2. PICK g : g = [get[c] EXCEPT !.old = m_count, !.pc = "undocas"]
    OBVIOUS
  <2>3. g.pc = "undocas" /\ g.old = m_count /\ g.tokens = get[c].tokens /\ g.got = get[c].got /\ g.max = get[c].max
    BY <1>1, <2>2 DEF GetRec
  <2>4. g \in GetRec
    <3>1. PICK h : h = [get[c] EXCEPT !.old = m_count]
      OBVIOUS
    <3>2. g = [h EXCEPT !.pc = "undocas"]
      BY <1>1, <2>2, <3>1 DEF GetRec
    <3>3. h \in GetRec
      BY <1>1, <1>2, <1>3, <1>4, <1>6, <3>1 DEF GetRec
    <3>. QED
      BY <1>1, <1>2, <1>3, <1>4, <1>6, <3>2, <3>3 DEF GetRec
  <2>5. GetOK(g)
    BY <1>0, <1>1, <1>2, <1>3, <1>4, <1>6, <2>3 DEF GetOK
  <2>6. Sleeps(g) = Sleeps(get[c])
    BY <1>4, <2>1, <2>3 DEF Sleeps, SleepPcs
  <2>. QED
    BY <1>4, <2>1, <2>2, <2>3, <2>4, <2>5, <2>6, LocalStep
<1>. QED
  BY <1>2, <1>5, <1>6

LEMMA TryWaitManyOK ==
  ASSUME BqIInv, NEW c \in BqConsumers, TryWaitMany(c)
  PROVE  BqIInv'
<1>0. BqKinds /\ GetOK(get[c])
  BY DEF BqIInv
<1>1. /\ MaxBulk \in Nat /\ BqItems \in Nat /\ m_maxSpins \in Nat
      /\ BqCalls \in Nat /\ Cardinality(BqConsumers) \in Nat /\ get[c] \in GetRec
  BY <1>0, BqAssumption, FS_CardinalityType DEF BqKinds
<1>2. /\ get[c].mode \in Modes /\ get[c].max \in 0..MaxBulk /\ get[c].spin \in 0..m_maxSpins
      /\ get[c].old \in Int /\ get[c].tokens \in 0..MaxBulk /\ get[c].got \in 0..MaxBulk
      /\ get[c].calls \in 0..BqCalls
      /\ inner \in Nat /\ m_count \in Int /\ m_sema \in Nat
  BY <1>0, <1>1 DEF BqKinds, GetRec
<1>3. m_count \in -Cardinality(BqConsumers)..BqItems
  BY BqBounds DEF BqInv, BqTypeOK
<1>4. get[c].pc = "cas" /\ Quiet /\ m_sema' = m_sema
  BY DEF TryWaitMany, At
<1>5. PICK n : n = Fewer(get[c].old, get[c].max)
  OBVIOUS
<1>6. /\ get[c].old > 0 /\ get[c].max >= 1 /\ get[c].got = 0
      /\ get[c].tokens + get[c].max <= MaxBulk
  BY <1>0, <1>4 DEF GetOK
<1>7. n \in Int /\ n >= 1 /\ n <= get[c].max /\ n <= get[c].old
  BY <1>2, <1>5, <1>6 DEF Fewer
<1>8. CASE /\ m_count = get[c].old /\ m_count' = m_count - n
           /\ Moves(c, [get[c] EXCEPT !.pc = "take", !.tokens = @ + n])
  <2>1. PICK g : g = [get[c] EXCEPT !.pc = "take", !.tokens = @ + n]
    OBVIOUS
  <2>2. g.pc = "take" /\ g.tokens = get[c].tokens + n /\ g.got = 0 /\ g.max = get[c].max
    BY <1>1, <1>6, <2>1 DEF GetRec
  <2>3. g \in GetRec
    <3>1. PICK h : h = [get[c] EXCEPT !.pc = "take"]
      OBVIOUS
    <3>2. g = [h EXCEPT !.tokens = get[c].tokens + n]
      BY <1>1, <2>1, <3>1 DEF GetRec
    <3>3. h \in GetRec
      BY <1>1, <1>2, <1>6, <1>7, <3>1 DEF GetRec
    <3>. QED
      BY <1>1, <1>2, <1>6, <1>7, <3>2, <3>3 DEF GetRec
  <2>4. GetOK(g)
    BY <1>2, <1>6, <1>7, <2>2 DEF GetOK
  <2>5. Sleeps(g) = 0 /\ Sleeps(get[c]) = 0
    BY <1>4, <2>2 DEF Sleeps, SleepPcs
  <2>6. inner' = inner /\ put' = put /\ produced' = produced
    BY <1>4 DEF Quiet
  <2>7. Below(m_count') = Below(m_count) /\ m_count' \in Int
    BY <1>2, <1>6, <1>7, <1>8 DEF Below
  <2>8. inner' - (g.tokens - g.got) - m_count' - Sleeps(g)
          = inner - (get[c].tokens - get[c].got) - m_count - Sleeps(get[c])
    BY <1>2, <1>6, <1>7, <1>8, <2>2, <2>5, <2>6
  <2>9. Sleeps(g) - m_sema' - Below(m_count') = Sleeps(get[c]) - m_sema - Below(m_count)
    BY <1>4, <2>5, <2>7
  <2>10. inner' \in Nat /\ inner' <= inner /\ m_sema' \in Nat /\ Moves(c, g)
    BY <1>2, <1>4, <1>8, <2>1, <2>6
  <2>. QED
    BY <2>3, <2>4, <2>6, <2>7, <2>8, <2>9, <2>10, ConsumerStep
<1>9. CASE m_count' = m_count /\ m_count > 0 /\ Moves(c, [get[c] EXCEPT !.old = m_count])
  <2>1. PICK g : g = [get[c] EXCEPT !.old = m_count]
    OBVIOUS
  <2>2. g.pc = "cas" /\ g.old = m_count /\ g.tokens = get[c].tokens /\ g.got = get[c].got /\ g.max = get[c].max
    BY <1>1, <1>4, <2>1 DEF GetRec
  <2>3. g \in GetRec
    BY <1>1, <1>2, <1>3, <1>4, <1>6, <1>9, <2>1 DEF GetRec
  <2>4. GetOK(g)
    BY <1>0, <1>1, <1>2, <1>3, <1>4, <1>6, <1>9, <2>2 DEF GetOK
  <2>5. Sleeps(g) = Sleeps(get[c])
    BY <1>4, <1>9, <2>2 DEF Sleeps, SleepPcs
  <2>. QED
    BY <1>4, <1>9, <2>1, <2>2, <2>3, <2>4, <2>5, LocalStep
<1>10. CASE m_count' = m_count /\ GiveUp(c)
  BY <1>4, <1>10, GiveUpOK, LocalStep
<1>. QED
  BY <1>5, <1>8, <1>9, <1>10 DEF TryWaitMany

LEMMA SpinCasOK ==
  ASSUME BqIInv, NEW c \in BqConsumers, SpinCas(c)
  PROVE  BqIInv'
<1>0. BqKinds /\ GetOK(get[c])
  BY DEF BqIInv
<1>1. /\ MaxBulk \in Nat /\ BqItems \in Nat /\ m_maxSpins \in Nat
      /\ BqCalls \in Nat /\ Cardinality(BqConsumers) \in Nat /\ get[c] \in GetRec
  BY <1>0, BqAssumption, FS_CardinalityType DEF BqKinds
<1>2. /\ get[c].mode \in Modes /\ get[c].max \in 0..MaxBulk /\ get[c].spin \in 0..m_maxSpins
      /\ get[c].old \in Int /\ get[c].tokens \in 0..MaxBulk /\ get[c].got \in 0..MaxBulk
      /\ get[c].calls \in 0..BqCalls
      /\ inner \in Nat /\ m_count \in Int /\ m_sema \in Nat
  BY <1>0, <1>1 DEF BqKinds, GetRec
<1>3. get[c].pc = "spincas" /\ Quiet /\ m_sema' = m_sema
  BY DEF SpinCas, At
<1>4. PICK n : n = Fewer(get[c].old, get[c].max)
  OBVIOUS
<1>5. get[c].old > 0 /\ get[c].max >= 1 /\ get[c].got = 0 /\ get[c].tokens = 0
  BY <1>0, <1>3 DEF GetOK
<1>6. n \in Int /\ n >= 1 /\ n <= get[c].max /\ n <= get[c].old
  BY <1>2, <1>4, <1>5 DEF Fewer
<1>7. CASE /\ m_count = get[c].old /\ m_count' = m_count - n
           /\ Moves(c, [get[c] EXCEPT !.pc = "take", !.tokens = n])
  <2>1. PICK g : g = [get[c] EXCEPT !.pc = "take", !.tokens = n]
    OBVIOUS
  <2>2. g.pc = "take" /\ g.tokens = n /\ g.got = 0 /\ g.max = get[c].max
    BY <1>1, <1>5, <2>1 DEF GetRec
  <2>3. g \in GetRec
    <3>1. PICK h : h = [get[c] EXCEPT !.pc = "take"]
      OBVIOUS
    <3>2. g = [h EXCEPT !.tokens = n]
      BY <1>1, <2>1, <3>1 DEF GetRec
    <3>3. h \in GetRec
      BY <1>1, <1>2, <1>5, <1>6, <3>1 DEF GetRec
    <3>. QED
      BY <1>1, <1>2, <1>5, <1>6, <3>2, <3>3 DEF GetRec
  <2>4. GetOK(g)
    BY <1>2, <1>5, <1>6, <2>2 DEF GetOK
  <2>5. Sleeps(g) = 0 /\ Sleeps(get[c]) = 0
    BY <1>3, <2>2 DEF Sleeps, SleepPcs
  <2>6. inner' = inner /\ put' = put /\ produced' = produced
    BY <1>3 DEF Quiet
  <2>7. Below(m_count') = Below(m_count) /\ m_count' \in Int
    BY <1>2, <1>5, <1>6, <1>7 DEF Below
  <2>8. inner' - (g.tokens - g.got) - m_count' - Sleeps(g)
          = inner - (get[c].tokens - get[c].got) - m_count - Sleeps(get[c])
    BY <1>2, <1>5, <1>6, <1>7, <2>2, <2>5, <2>6
  <2>9. Sleeps(g) - m_sema' - Below(m_count') = Sleeps(get[c]) - m_sema - Below(m_count)
    BY <1>3, <2>5, <2>7
  <2>10. inner' \in Nat /\ inner' <= inner /\ m_sema' \in Nat /\ Moves(c, g)
    BY <1>2, <1>3, <1>7, <2>1, <2>6
  <2>. QED
    BY <2>3, <2>4, <2>6, <2>7, <2>8, <2>9, <2>10, ConsumerStep
<1>8. CASE m_count' = m_count /\ Moves(c, [get[c] EXCEPT !.pc = "spin"])
  <2>1. PICK g : g = [get[c] EXCEPT !.pc = "spin"]
    OBVIOUS
  <2>2. g.pc = "spin" /\ g.tokens = get[c].tokens /\ g.got = get[c].got /\ g.max = get[c].max /\ g.old = get[c].old
    BY <1>1, <2>1 DEF GetRec
  <2>3. g \in GetRec
    BY <1>1, <1>2, <1>3, <1>5, <2>1 DEF GetRec
  <2>4. GetOK(g)
    BY <1>0, <1>1, <1>2, <1>3, <1>5, <2>2 DEF GetOK
  <2>5. Sleeps(g) = Sleeps(get[c])
    BY <1>3, <1>8, <2>2 DEF Sleeps, SleepPcs
  <2>. QED
    BY <1>3, <1>8, <2>1, <2>2, <2>3, <2>4, <2>5, LocalStep
<1>. QED
  BY <1>4, <1>7, <1>8 DEF SpinCas

LEMMA FetchSubOK ==
  ASSUME BqIInv, NEW c \in BqConsumers, FetchSub(c)
  PROVE  BqIInv'
<1>0. BqKinds /\ GetOK(get[c])
  BY DEF BqIInv
<1>1. /\ MaxBulk \in Nat /\ BqItems \in Nat /\ m_maxSpins \in Nat
      /\ BqCalls \in Nat /\ Cardinality(BqConsumers) \in Nat /\ get[c] \in GetRec
  BY <1>0, BqAssumption, FS_CardinalityType DEF BqKinds
<1>2. /\ get[c].mode \in Modes /\ get[c].max \in 0..MaxBulk /\ get[c].spin \in 0..m_maxSpins
      /\ get[c].old \in Int /\ get[c].tokens \in 0..MaxBulk /\ get[c].got \in 0..MaxBulk
      /\ get[c].calls \in 0..BqCalls
      /\ inner \in Nat /\ m_count \in Int /\ m_sema \in Nat
  BY <1>0, <1>1 DEF BqKinds, GetRec
<1>3. get[c].pc = "spin" /\ m_count' = m_count - 1 /\ Quiet /\ m_sema' = m_sema
  BY DEF FetchSub, At
<1>4. CASE m_count > 0 /\ Acquired(c)
  <2>1. PICK g \in GetRec : /\ GetOK(g) /\ Moves(c, g) /\ g.tokens = 1 /\ g.got = 0
                            /\ Sleeps(g) = 0
    BY <1>3, <1>4, AcquiredOK
  <2>2. get[c].tokens = 0 /\ get[c].got = 0 /\ Sleeps(get[c]) = 0
    BY <1>0, <1>3, <1>4 DEF GetOK, Sleeps, SleepPcs
  <2>3. inner' = inner /\ put' = put /\ produced' = produced
    BY <1>3, <1>4 DEF Quiet
  <2>4. m_count' \in Int /\ m_sema' \in Nat /\ inner' \in Nat /\ inner' <= inner
    BY <1>2, <1>3, <1>4, <2>3
  <2>5. Below(m_count') = Below(m_count) /\ Below(m_count) \in Int
    BY <1>2, <1>3, <1>4 DEF Below
  <2>6. inner' - (g.tokens - g.got) - m_count' - Sleeps(g)
          = inner - (get[c].tokens - get[c].got) - m_count - Sleeps(get[c])
    BY <1>2, <1>3, <1>4, <2>1, <2>2, <2>3
  <2>7. Sleeps(g) - m_sema' - Below(m_count') = Sleeps(get[c]) - m_sema - Below(m_count)
    BY <1>2, <1>3, <1>4, <2>1, <2>2, <2>5
  <2>. QED
    BY <2>1, <2>3, <2>4, <2>6, <2>7, ConsumerStep
<1>5. CASE ~(m_count > 0) /\ Moves(c, [get[c] EXCEPT !.pc = "undo"])
  <2>1. PICK g : g = [get[c] EXCEPT !.pc = "undo"]
    OBVIOUS
  <2>2. g.pc = "undo" /\ g.tokens = get[c].tokens /\ g.got = get[c].got /\ g.max = get[c].max
    BY <1>1, <2>1 DEF GetRec
  <2>3. g \in GetRec
    BY <1>1, <2>1 DEF GetRec
  <2>4. GetOK(g)
    BY <1>0, <1>3, <2>2 DEF GetOK
  <2>5. Sleeps(g) = 1 /\ Sleeps(get[c]) = 0
    BY <1>3, <2>2 DEF Sleeps, SleepPcs
  <2>6. inner' = inner /\ put' = put /\ produced' = produced
    BY <1>3 DEF Quiet
  <2>7. /\ m_count' \in Int /\ Below(m_count') = Below(m_count) + 1 /\ Below(m_count) \in Int
    BY <1>2, <1>3, <1>5 DEF Below
  <2>8. inner' - (g.tokens - g.got) - m_count' - Sleeps(g)
          = inner - (get[c].tokens - get[c].got) - m_count - Sleeps(get[c])
    BY <1>2, <1>3, <2>2, <2>5, <2>6
  <2>9. Sleeps(g) - m_sema' - Below(m_count') = Sleeps(get[c]) - m_sema - Below(m_count)
    BY <1>2, <1>3, <2>5, <2>7
  <2>10. inner' \in Nat /\ inner' <= inner /\ m_sema' \in Nat /\ Moves(c, g)
    BY <1>2, <1>3, <1>5, <2>1, <2>6
  <2>. QED
    BY <2>3, <2>4, <2>6, <2>7, <2>8, <2>9, <2>10, ConsumerStep
<1>6. CASE ~(m_count > 0) /\ Moves(c, [get[c] EXCEPT !.pc = "sleep"])
  <2>1. PICK g : g = [get[c] EXCEPT !.pc = "sleep"]
    OBVIOUS
  <2>2. g.pc = "sleep" /\ g.tokens = get[c].tokens /\ g.got = get[c].got /\ g.max = get[c].max
    BY <1>1, <2>1 DEF GetRec
  <2>3. g \in GetRec
    BY <1>1, <2>1 DEF GetRec
  <2>4. GetOK(g)
    BY <1>0, <1>3, <2>2 DEF GetOK
  <2>5. Sleeps(g) = 1 /\ Sleeps(get[c]) = 0
    BY <1>3, <2>2 DEF Sleeps, SleepPcs
  <2>6. inner' = inner /\ put' = put /\ produced' = produced
    BY <1>3 DEF Quiet
  <2>7. /\ m_count' \in Int /\ Below(m_count') = Below(m_count) + 1 /\ Below(m_count) \in Int
    BY <1>2, <1>3, <1>6 DEF Below
  <2>8. inner' - (g.tokens - g.got) - m_count' - Sleeps(g)
          = inner - (get[c].tokens - get[c].got) - m_count - Sleeps(get[c])
    BY <1>2, <1>3, <2>2, <2>5, <2>6
  <2>9. Sleeps(g) - m_sema' - Below(m_count') = Sleeps(get[c]) - m_sema - Below(m_count)
    BY <1>2, <1>3, <2>5, <2>7
  <2>10. inner' \in Nat /\ inner' <= inner /\ m_sema' \in Nat /\ Moves(c, g)
    BY <1>2, <1>3, <1>6, <2>1, <2>6
  <2>. QED
    BY <2>3, <2>4, <2>6, <2>7, <2>8, <2>9, <2>10, ConsumerStep
<1>. QED
  BY <1>4, <1>5, <1>6 DEF FetchSub

LEMMA SemaWaitOK ==
  ASSUME BqIInv, NEW c \in BqConsumers, SemaWait(c)
  PROVE  BqIInv'
<1>0. BqKinds /\ GetOK(get[c])
  BY DEF BqIInv
<1>1. /\ MaxBulk \in Nat /\ BqItems \in Nat /\ m_maxSpins \in Nat
      /\ BqCalls \in Nat /\ Cardinality(BqConsumers) \in Nat /\ get[c] \in GetRec
  BY <1>0, BqAssumption, FS_CardinalityType DEF BqKinds
<1>2. /\ get[c].mode \in Modes /\ get[c].max \in 0..MaxBulk /\ get[c].spin \in 0..m_maxSpins
      /\ get[c].old \in Int /\ get[c].tokens \in 0..MaxBulk /\ get[c].got \in 0..MaxBulk
      /\ get[c].calls \in 0..BqCalls
      /\ inner \in Nat /\ m_count \in Int /\ m_sema \in Nat
  BY <1>0, <1>1 DEF BqKinds, GetRec
<1>3. /\ get[c].pc = "sleep" /\ m_sema > 0 /\ m_sema' = m_sema - 1 /\ Acquired(c)
      /\ Quiet /\ m_count' = m_count
  BY DEF SemaWait, At
<1>4. PICK g \in GetRec : /\ GetOK(g) /\ Moves(c, g) /\ g.tokens = 1 /\ g.got = 0
                          /\ Sleeps(g) = 0
  BY <1>3, AcquiredOK
<1>5. get[c].tokens = 0 /\ get[c].got = 0 /\ Sleeps(get[c]) = 1
  BY <1>0, <1>3 DEF GetOK, Sleeps, SleepPcs
<1>6. inner' = inner /\ put' = put /\ produced' = produced
  BY <1>3 DEF Quiet
<1>7. m_count' \in Int /\ m_sema' \in Nat /\ inner' \in Nat /\ inner' <= inner
  BY <1>2, <1>3, <1>6
<1>8. Below(m_count') = Below(m_count) /\ Below(m_count) \in Int
  BY <1>2, <1>3 DEF Below
<1>9. inner' - (g.tokens - g.got) - m_count' - Sleeps(g)
        = inner - (get[c].tokens - get[c].got) - m_count - Sleeps(get[c])
  BY <1>2, <1>3, <1>4, <1>5, <1>6
<1>10. Sleeps(g) - m_sema' - Below(m_count') = Sleeps(get[c]) - m_sema - Below(m_count)
  BY <1>2, <1>3, <1>4, <1>5, <1>8
<1>. QED
  BY <1>4, <1>6, <1>7, <1>9, <1>10, ConsumerStep

LEMMA UndoTryWaitOK ==
  ASSUME BqIInv, NEW c \in BqConsumers, UndoTryWait(c)
  PROVE  BqIInv'
<1>0. BqKinds /\ GetOK(get[c])
  BY DEF BqIInv
<1>1. /\ MaxBulk \in Nat /\ BqItems \in Nat /\ m_maxSpins \in Nat
      /\ BqCalls \in Nat /\ Cardinality(BqConsumers) \in Nat /\ get[c] \in GetRec
  BY <1>0, BqAssumption, FS_CardinalityType DEF BqKinds
<1>2. /\ get[c].mode \in Modes /\ get[c].max \in 0..MaxBulk /\ get[c].spin \in 0..m_maxSpins
      /\ get[c].old \in Int /\ get[c].tokens \in 0..MaxBulk /\ get[c].got \in 0..MaxBulk
      /\ get[c].calls \in 0..BqCalls
      /\ inner \in Nat /\ m_count \in Int /\ m_sema \in Nat
  BY <1>0, <1>1 DEF BqKinds, GetRec
<1>3. get[c].pc = "undotry" /\ Quiet /\ m_count' = m_count
  BY DEF UndoTryWait, At
<1>4. CASE m_sema > 0 /\ m_sema' = m_sema - 1 /\ Acquired(c)
  <2>1. PICK g \in GetRec : /\ GetOK(g) /\ Moves(c, g) /\ g.tokens = 1 /\ g.got = 0
                            /\ Sleeps(g) = 0
    BY <1>3, <1>4, AcquiredOK
  <2>2. get[c].tokens = 0 /\ get[c].got = 0 /\ Sleeps(get[c]) = 1
    BY <1>0, <1>3, <1>4 DEF GetOK, Sleeps, SleepPcs
  <2>3. inner' = inner /\ put' = put /\ produced' = produced
    BY <1>3, <1>4 DEF Quiet
  <2>4. m_count' \in Int /\ m_sema' \in Nat /\ inner' \in Nat /\ inner' <= inner
    BY <1>2, <1>3, <1>4, <2>3
  <2>5. Below(m_count') = Below(m_count) /\ Below(m_count) \in Int
    BY <1>2, <1>3, <1>4 DEF Below
  <2>6. inner' - (g.tokens - g.got) - m_count' - Sleeps(g)
          = inner - (get[c].tokens - get[c].got) - m_count - Sleeps(get[c])
    BY <1>2, <1>3, <1>4, <2>1, <2>2, <2>3
  <2>7. Sleeps(g) - m_sema' - Below(m_count') = Sleeps(get[c]) - m_sema - Below(m_count)
    BY <1>2, <1>3, <1>4, <2>1, <2>2, <2>5
  <2>. QED
    BY <2>1, <2>3, <2>4, <2>6, <2>7, ConsumerStep
<1>5. CASE m_sema' = m_sema /\ Moves(c, [get[c] EXCEPT !.pc = "undo"])
  <2>1. PICK g : g = [get[c] EXCEPT !.pc = "undo"]
    OBVIOUS
  <2>2. g.pc = "undo" /\ g.tokens = get[c].tokens /\ g.got = get[c].got /\ g.max = get[c].max /\ g.old = get[c].old
    BY <1>1, <2>1 DEF GetRec
  <2>3. g \in GetRec
    BY <1>1, <1>2, <1>3, <2>1 DEF GetRec
  <2>4. GetOK(g)
    BY <1>0, <1>1, <1>2, <1>3, <2>2 DEF GetOK
  <2>5. Sleeps(g) = Sleeps(get[c])
    BY <1>3, <1>5, <2>2 DEF Sleeps, SleepPcs
  <2>. QED
    BY <1>3, <1>5, <2>1, <2>2, <2>3, <2>4, <2>5, LocalStep
<1>. QED
  BY <1>4, <1>5 DEF UndoTryWait

LEMMA UndoCasOK ==
  ASSUME BqIInv, NEW c \in BqConsumers, UndoCas(c)
  PROVE  BqIInv'
<1>0. BqKinds /\ GetOK(get[c])
  BY DEF BqIInv
<1>1. /\ MaxBulk \in Nat /\ BqItems \in Nat /\ m_maxSpins \in Nat
      /\ BqCalls \in Nat /\ Cardinality(BqConsumers) \in Nat /\ get[c] \in GetRec
  BY <1>0, BqAssumption, FS_CardinalityType DEF BqKinds
<1>2. /\ get[c].mode \in Modes /\ get[c].max \in 0..MaxBulk /\ get[c].spin \in 0..m_maxSpins
      /\ get[c].old \in Int /\ get[c].tokens \in 0..MaxBulk /\ get[c].got \in 0..MaxBulk
      /\ get[c].calls \in 0..BqCalls
      /\ inner \in Nat /\ m_count \in Int /\ m_sema \in Nat
  BY <1>0, <1>1 DEF BqKinds, GetRec
<1>3. get[c].pc = "undocas" /\ Quiet /\ m_sema' = m_sema
  BY DEF UndoCas, At
<1>4. /\ get[c].old < 0 /\ get[c].tokens = 0 /\ get[c].got = 0 /\ Sleeps(get[c]) = 1
  BY <1>0, <1>3 DEF GetOK, Sleeps, SleepPcs
<1>5. CASE m_count = get[c].old /\ m_count' = m_count + 1 /\ Leaves(c)
  <2>1. PICK g \in GetRec : /\ GetOK(g) /\ Moves(c, g) /\ g.tokens = 0 /\ g.got = 0
                            /\ Sleeps(g) = 0
    BY <1>5, LeavesOK
  <2>2. inner' = inner /\ put' = put /\ produced' = produced
    BY <1>3 DEF Quiet
  <2>3. /\ m_count' \in Int /\ Below(m_count') = Below(m_count) - 1 /\ Below(m_count) \in Int
    BY <1>2, <1>4, <1>5 DEF Below
  <2>4. inner' - (g.tokens - g.got) - m_count' - Sleeps(g)
          = inner - (get[c].tokens - get[c].got) - m_count - Sleeps(get[c])
    BY <1>2, <1>4, <1>5, <2>1, <2>2
  <2>5. Sleeps(g) - m_sema' - Below(m_count') = Sleeps(get[c]) - m_sema - Below(m_count)
    BY <1>2, <1>3, <1>4, <2>1, <2>3
  <2>6. inner' \in Nat /\ inner' <= inner /\ m_sema' \in Nat
    BY <1>2, <1>3, <2>2
  <2>. QED
    BY <2>1, <2>2, <2>3, <2>4, <2>5, <2>6, ConsumerStep
<1>6. CASE m_count' = m_count /\ Moves(c, [get[c] EXCEPT !.pc = "undo"])
  <2>1. PICK g : g = [get[c] EXCEPT !.pc = "undo"]
    OBVIOUS
  <2>2. g.pc = "undo" /\ g.tokens = get[c].tokens /\ g.got = get[c].got /\ g.max = get[c].max /\ g.old = get[c].old
    BY <1>1, <2>1 DEF GetRec
  <2>3. g \in GetRec
    BY <1>1, <1>2, <1>3, <1>4, <2>1 DEF GetRec
  <2>4. GetOK(g)
    BY <1>0, <1>1, <1>2, <1>3, <1>4, <2>2 DEF GetOK
  <2>5. Sleeps(g) = Sleeps(get[c])
    BY <1>3, <1>6, <2>2 DEF Sleeps, SleepPcs
  <2>. QED
    BY <1>3, <1>6, <2>1, <2>2, <2>3, <2>4, <2>5, LocalStep
<1>. QED
  BY <1>5, <1>6 DEF UndoCas

LEMMA TakeItemsOK ==
  ASSUME BqIInv, NEW c \in BqConsumers, TakeItems(c)
  PROVE  BqIInv'
<1>0. BqKinds /\ GetOK(get[c])
  BY DEF BqIInv
<1>1. /\ MaxBulk \in Nat /\ BqItems \in Nat /\ m_maxSpins \in Nat
      /\ BqCalls \in Nat /\ Cardinality(BqConsumers) \in Nat /\ get[c] \in GetRec
  BY <1>0, BqAssumption, FS_CardinalityType DEF BqKinds
<1>2. /\ get[c].mode \in Modes /\ get[c].max \in 0..MaxBulk /\ get[c].spin \in 0..m_maxSpins
      /\ get[c].old \in Int /\ get[c].tokens \in 0..MaxBulk /\ get[c].got \in 0..MaxBulk
      /\ get[c].calls \in 0..BqCalls
      /\ inner \in Nat /\ m_count \in Int /\ m_sema \in Nat
  BY <1>0, <1>1 DEF BqKinds, GetRec
<1>3. get[c].pc = "take" /\ m_count' = m_count /\ m_sema' = m_sema /\ put' = put /\ produced' = produced
  BY DEF TakeItems, At
<1>4. PICK k \in 1..Fewer(get[c].tokens - get[c].got, inner) :
         /\ inner' = inner - k
         /\ IF get[c].got + k = get[c].tokens THEN Leaves(c)
            ELSE Moves(c, [get[c] EXCEPT !.got = @ + k])
  BY DEF TakeItems
<1>5. /\ get[c].got < get[c].tokens /\ get[c].max >= 1 /\ Sleeps(get[c]) = 0
      /\ k \in Nat /\ k >= 1 /\ k <= get[c].tokens - get[c].got /\ k <= inner
  BY <1>0, <1>2, <1>3, <1>4 DEF GetOK, Sleeps, SleepPcs, Fewer
<1>6. CASE get[c].got + k = get[c].tokens /\ Leaves(c)
  <2>1. PICK g \in GetRec : /\ GetOK(g) /\ Moves(c, g) /\ g.tokens = 0 /\ g.got = 0
                            /\ Sleeps(g) = 0
    BY <1>6, LeavesOK
  <2>2. inner' \in Nat /\ inner' <= inner /\ m_count' \in Int /\ m_sema' \in Nat
    BY <1>2, <1>3, <1>4, <1>5
  <2>3. inner' - (g.tokens - g.got) - m_count' - Sleeps(g)
          = inner - (get[c].tokens - get[c].got) - m_count - Sleeps(get[c])
    BY <1>2, <1>3, <1>4, <1>5, <1>6, <2>1
  <2>4. Sleeps(g) - m_sema' - Below(m_count') = Sleeps(get[c]) - m_sema - Below(m_count)
    BY <1>3, <1>5, <2>1
  <2>. QED
    BY <1>3, <1>4, <2>1, <2>2, <2>3, <2>4, ConsumerStep
<1>7. CASE get[c].got + k # get[c].tokens /\ Moves(c, [get[c] EXCEPT !.got = @ + k])
  <2>1. PICK g : g = [get[c] EXCEPT !.got = @ + k]
    OBVIOUS
  <2>2. g.pc = "take" /\ g.tokens = get[c].tokens /\ g.got = get[c].got + k /\ g.max = get[c].max
    BY <1>1, <1>3, <2>1 DEF GetRec
  <2>3. g \in GetRec
    BY <1>1, <1>2, <1>5, <2>1 DEF GetRec
  <2>4. GetOK(g) /\ Moves(c, g)
    BY <1>2, <1>5, <1>7, <2>1, <2>2 DEF GetOK
  <2>5. Sleeps(g) = 0
    BY <2>2 DEF Sleeps, SleepPcs
  <2>6. inner' \in Nat /\ inner' <= inner /\ m_count' \in Int /\ m_sema' \in Nat
    BY <1>2, <1>3, <1>4, <1>5
  <2>7. inner' - (g.tokens - g.got) - m_count' - Sleeps(g)
          = inner - (get[c].tokens - get[c].got) - m_count - Sleeps(get[c])
    BY <1>2, <1>3, <1>4, <1>5, <2>2, <2>5
  <2>8. Sleeps(g) - m_sema' - Below(m_count') = Sleeps(get[c]) - m_sema - Below(m_count)
    BY <1>3, <1>5, <2>5
  <2>. QED
    BY <1>3, <1>4, <2>3, <2>4, <2>6, <2>7, <2>8, ConsumerStep
<1>. QED
  BY <1>4, <1>6, <1>7

-----------------------------------------------------------------------------
(* The theorem                                                             *)

LEMMA BqStep == BqIInv /\ [BqNext]_bqVars => BqIInv'
<1>. SUFFICES ASSUME BqIInv, [BqNext]_bqVars PROVE BqIInv'
  OBVIOUS
<1>1. ASSUME NEW p \in BqProducers,
             Enqueue(p) \/ EnqueueBulk(p) \/ TryEnqueue(p) \/ TryEnqueueBulk(p) \/ BqPutStep(p)
      PROVE  BqIInv'
  BY <1>1, PutStepOK DEF BqPutStep
<1>2. ASSUME NEW c \in BqConsumers,
             \/ TryDequeue(c) \/ TryDequeueBulk(c) \/ WaitDequeue(c) \/ WaitDequeueTimed(c)
             \/ WaitDequeueBulk(c) \/ WaitDequeueBulkTimed(c)
      PROVE  BqIInv'
  <2>1. MaxBulk \in Nat \ {0}
    BY BqAssumption
  <2>2. \E mode \in Modes, max \in 1..MaxBulk : Call(c, mode, max)
    BY <1>2, <2>1
    DEF TryDequeue, TryDequeueBulk, WaitDequeue, WaitDequeueTimed, WaitDequeueBulk,
        WaitDequeueBulkTimed, Modes
  <2>. QED
    BY <2>2, CallOK
<1>3. ASSUME NEW c \in BqConsumers, BqGetStep(c) PROVE BqIInv'
  BY <1>3, LoadOK, TryWaitManyOK, SpinLoadOK, SpinCasOK, FetchSubOK, SemaWaitOK, TimedOutOK,
     UndoLoadOK, UndoTryWaitOK, UndoCasOK, TakeItemsOK DEF BqGetStep
<1>4. CASE UNCHANGED bqVars
  <2>1. /\ inner' = inner /\ m_count' = m_count /\ m_sema' = m_sema /\ put' = put
        /\ get' = get /\ produced' = produced
    BY <1>4 DEF bqVars
  <2>2. BqKinds' /\ ItemsAccounted' /\ SleepersAccounted'
    BY <2>1 DEF BqIInv, BqKinds, ItemsAccounted, SleepersAccounted, ToSignal, Owed, Sleeping, ToPost
  <2>3. (\A p \in BqProducers : PutOK(put'[p])) /\ \A c \in BqConsumers : GetOK(get'[c])
    BY <2>1 DEF BqIInv
  <2>. QED
    BY <2>2, <2>3 DEF BqIInv
<1>. QED
  BY <1>1, <1>2, <1>3, <1>4 DEF BqNext

(* The semaphore in front of the queue keeps its books, however many       *)
(* threads signal, wait and time out in whatever order: every token that   *)
(* was granted has its item, every sleeper is paid for exactly once, and   *)
(* no count leaves its range.                                              *)
THEOREM BqInvHolds == BqSpec => []BqInv
<1>1. BqInit /\ [][BqNext]_bqVars => []BqIInv
  BY BqInitOK, BqStep, PTL
<1>. QED
  BY <1>1, BqBounds, PTL DEF BqSpec

-----------------------------------------------------------------------------
(* ProducerTable                                                           *)
-----------------------------------------------------------------------------
(* The inductive invariant.  T stands for the tables.                      *)

PtKeys == PtThreads \cup {EmptyKey, TombKey}
TableOK(tb) ==
  /\ tb.cap \in Nat \ {0}
  /\ tb.key \in [0..(tb.cap - 1) -> PtKeys]
  /\ tb.val \in [0..(tb.cap - 1) -> Nat]
PtTables ==
  UNION {[cap : {c}, key : [0..(c - 1) -> PtKeys], val : [0..(c - 1) -> Nat]] : c \in Nat \ {0}}
TablesOK(T) == T \in Seq(PtTables) /\ Len(T) >= 1

PtCall == [pc : {"idle", "probe", "lazy", "count", "grow", "resize", "fit", "recycle",
                 "insert", "exit", "recyclable"},
           m : Nat, tbl : Nat, i : Nat, n : Int, p : Nat]
PtKinds ==
  /\ TablesOK(tables) /\ hashCount \in Int
  /\ inactive \in Seq(BOOLEAN)
  /\ th \in [PtThreads -> [x : PtCall, mine : Nat]]

Has(T, t, n) == \E i \in 0..(T[n].cap - 1) : T[n].key[i] = t
\* The slots below i of table n have other keys, and were never empty since.
Passed(T, t, n, i) == \A j \in 0..(i - 1) : T[n].key[j] # t /\ T[n].key[j] # EmptyKey
CameTo(T, t, n, i) == n \in 1..Len(T) /\ i \in 0..(T[n].cap - 1) /\ Passed(T, t, n, i)
NotAbove(T, t, k) == \A n \in (k + 1)..Len(T) : ~Has(T, t, n)

(* Where a call is: a search has not met its id, neither in the table it   *)
(* is in nor in the tables that were added after it.                       *)
PlaceOK(T, t, x, mine) ==
  /\ x.pc \in {"probe", "exit"} => CameTo(T, t, x.tbl, x.i) /\ NotAbove(T, t, x.tbl)
  /\ x.pc = "probe" => x.tbl <= x.m /\ x.m <= Len(T)
  /\ x.pc = "lazy" => CameTo(T, t, x.m, x.i) /\ ~Has(T, t, x.m) /\ x.p = mine /\ mine # NoProducer
  /\ x.pc \in {"count", "grow", "resize", "fit", "recycle"} =>
       x.m \in 1..Len(T) /\ mine = NoProducer
  /\ x.pc = "insert" => CameTo(T, t, x.m, x.i) /\ mine = NoProducer /\ x.p # NoProducer
  /\ x.pc \in {"exit", "recyclable"} => mine # NoProducer
  /\ x.pc = "recyclable" => NotAbove(T, t, 0)

\* The entries of a thread lead to its producer, and a search comes to them.
EntriesOK(T, t, mine) ==
  \A n \in 1..Len(T) : \A i \in 0..(T[n].cap - 1) :
    T[n].key[i] = t => mine # NoProducer /\ T[n].val[i] = mine /\ Passed(T, t, n, i)
\* Unless it exits, a thread with a producer has an entry.
EntryLeft(T, t, x, mine) ==
  mine # NoProducer /\ x.pc \notin {"exit", "recyclable"} => \E n \in 1..Len(T) : Has(T, t, n)

ThreadOK(T, t, r) ==
  PlaceOK(T, t, r.x, r.mine) /\ EntriesOK(T, t, r.mine) /\ EntryLeft(T, t, r.x, r.mine)

\* the producer that a thread has, or has taken and not entered yet
Own(r) == IF r.x.pc = "insert" THEN r.x.p ELSE r.mine
OwnedOnce ==
  /\ \A t \in PtThreads : Own(th[t]) # NoProducer =>
       Own(th[t]) \in 1..Len(inactive) /\ ~inactive[Own(th[t])]
  /\ \A t, u \in PtThreads : t # u /\ Own(th[t]) # NoProducer => Own(th[t]) # Own(th[u])

PtIInv ==
  /\ PtKinds
  /\ \A t \in PtThreads : ThreadOK(tables, t, th[t])
  /\ OwnedOnce

-----------------------------------------------------------------------------
(* Slots                                                                   *)

LEMMA SlotIsIndex ==
  ASSUME NEW c \in Nat \ {0}, NEW i \in 0..(c - 1)
  PROVE  i % c = i /\ (i + 1) % c \in 0..(c - 1) /\ (i + 1 < c => (i + 1) % c = i + 1)
                   /\ (i + 1 = c => (i + 1) % c = 0)
  OBVIOUS

(* How the tables may change for t: others put ids and tombs in, and add   *)
(* tables.                                                                 *)
SameFor(T, S, t) ==
  /\ Len(T) <= Len(S)
  /\ \A n \in 1..Len(T) : S[n].cap = T[n].cap
  /\ \A n \in 1..Len(T) : \A i \in 0..(T[n].cap - 1) :
       /\ T[n].key[i] = t <=> S[n].key[i] = t
       /\ T[n].key[i] = t => S[n].val[i] = T[n].val[i]
       /\ T[n].key[i] # EmptyKey => S[n].key[i] # EmptyKey
  /\ \A n \in (Len(T) + 1)..Len(S) : ~Has(S, t, n)

LEMMA TableKind ==
  ASSUME NEW tb \in PtTables
  PROVE  TableOK(tb)
<1>1. PICK c \in Nat \ {0} :
        tb \in [cap : {c}, key : [0..(c - 1) -> PtKeys], val : [0..(c - 1) -> Nat]]
  BY DEF PtTables
<1> QED  BY <1>1 DEF TableOK

LEMMA TableMade ==
  ASSUME NEW c \in Nat \ {0}, NEW key \in [0..(c - 1) -> PtKeys], NEW val \in [0..(c - 1) -> Nat]
  PROVE  [cap |-> c, key |-> key, val |-> val] \in PtTables
<1>1. [cap |-> c, key |-> key, val |-> val]
        \in [cap : {c}, key : [0..(c - 1) -> PtKeys], val : [0..(c - 1) -> Nat]]
  OBVIOUS
<1> QED  BY <1>1, Zenon DEF PtTables

LEMMA TablesFacts ==
  ASSUME NEW T, TablesOK(T)
  PROVE  /\ Len(T) \in Nat /\ Len(T) >= 1 /\ DOMAIN T = 1..Len(T)
         /\ \A n \in 1..Len(T) : T[n] \in PtTables /\ T[n].cap \in Nat \ {0}
  BY TableKind DEF TablesOK, TableOK

LEMMA PassedKept ==
  ASSUME NEW T, NEW S, NEW t, TablesOK(T), TablesOK(S), SameFor(T, S, t),
         NEW n \in 1..Len(T), NEW i \in 0..(T[n].cap - 1)
  PROVE  Passed(T, t, n, i) => Passed(S, t, n, i)
<1> SUFFICES ASSUME Passed(T, t, n, i), NEW j \in 0..(i - 1)
             PROVE  S[n].key[j] # t /\ S[n].key[j] # EmptyKey
  BY DEF Passed
<1>1. T[n].cap \in Nat  BY TablesFacts
<1>2. j \in 0..(T[n].cap - 1)  BY <1>1
<1>3. T[n].key[j] # t /\ T[n].key[j] # EmptyKey  BY DEF Passed
<1> QED  BY <1>2, <1>3 DEF SameFor

LEMMA HasKept ==
  ASSUME NEW T, NEW S, NEW t, TablesOK(T), TablesOK(S), SameFor(T, S, t),
         NEW n \in 1..Len(T)
  PROVE  Has(T, t, n) <=> Has(S, t, n)
  BY DEF SameFor, Has

LEMMA CameToKept ==
  ASSUME NEW T, NEW S, NEW t, TablesOK(T), TablesOK(S), SameFor(T, S, t), NEW n, NEW i,
         CameTo(T, t, n, i)
  PROVE  CameTo(S, t, n, i)
<1>1. n \in 1..Len(T) /\ i \in 0..(T[n].cap - 1) /\ Passed(T, t, n, i)  BY DEF CameTo
<1>2. Passed(S, t, n, i)  BY <1>1, PassedKept
<1>3. n \in 1..Len(S) /\ S[n].cap = T[n].cap  BY <1>1 DEF SameFor, TablesOK
<1> QED  BY <1>1, <1>2, <1>3 DEF CameTo

LEMMA NotAboveKept ==
  ASSUME NEW T, NEW S, NEW t, TablesOK(T), TablesOK(S), SameFor(T, S, t), NEW k \in Nat,
         NotAbove(T, t, k)
  PROVE  NotAbove(S, t, k)
<1> SUFFICES ASSUME NEW n \in (k + 1)..Len(S) PROVE ~Has(S, t, n)  BY DEF NotAbove
<1>1. CASE n \in 1..Len(T)
  <2>1. ~Has(T, t, n)  BY <1>1 DEF NotAbove, TablesOK
  <2> QED  BY <2>1, <1>1, HasKept
<1>2. CASE n \in (Len(T) + 1)..Len(S)  BY <1>2 DEF SameFor
<1> QED  BY <1>1, <1>2 DEF TablesOK

\* What others do leaves a thread where it was.
LEMMA ThreadKept ==
  ASSUME NEW T, NEW S, NEW t \in PtThreads, TablesOK(T), TablesOK(S), SameFor(T, S, t),
         NEW r \in [x : PtCall, mine : Nat], ThreadOK(T, t, r)
  PROVE  ThreadOK(S, t, r)
<1> DEFINE x == r.x
           mine == r.mine
<1>0. x \in PtCall /\ mine \in Nat  OBVIOUS
<1>l. Len(T) \in Nat /\ Len(S) \in Nat /\ Len(T) <= Len(S)  BY DEF TablesOK, SameFor
<1>1. PlaceOK(S, t, x, mine)
  <2>0. PlaceOK(T, t, x, mine)  BY DEF ThreadOK
  <2>t. x.tbl \in Nat /\ x.m \in Nat  BY <1>0 DEF PtCall
  <2>1. x.pc \in {"probe", "exit"} => CameTo(S, t, x.tbl, x.i) /\ NotAbove(S, t, x.tbl)
    BY <2>0, <2>t, CameToKept, NotAboveKept DEF PlaceOK
  <2>2. x.pc = "probe" => x.tbl <= x.m /\ x.m <= Len(S)
    BY <2>0, <2>t, <1>l DEF PlaceOK
  <2>3. x.pc = "lazy" => CameTo(S, t, x.m, x.i) /\ ~Has(S, t, x.m) /\ x.p = mine /\ mine # NoProducer
    <3> SUFFICES ASSUME x.pc = "lazy"
                 PROVE  CameTo(S, t, x.m, x.i) /\ ~Has(S, t, x.m) /\ x.p = mine /\ mine # NoProducer
      OBVIOUS
    <3>1. CameTo(T, t, x.m, x.i) /\ ~Has(T, t, x.m) /\ x.p = mine /\ mine # NoProducer
      BY <2>0 DEF PlaceOK
    <3>2. x.m \in 1..Len(T)  BY <3>1 DEF CameTo
    <3>3. ~Has(S, t, x.m)  BY <3>1, <3>2, HasKept
    <3>4. CameTo(S, t, x.m, x.i)  BY <3>1, CameToKept
    <3> QED  BY <3>1, <3>3, <3>4
  <2>4. x.pc \in {"count", "grow", "resize", "fit", "recycle"} =>
          x.m \in 1..Len(S) /\ mine = NoProducer
    BY <2>0, <2>t, <1>l DEF PlaceOK
  <2>5. x.pc = "insert" => CameTo(S, t, x.m, x.i) /\ mine = NoProducer /\ x.p # NoProducer
    BY <2>0, CameToKept DEF PlaceOK
  <2>6. x.pc \in {"exit", "recyclable"} => mine # NoProducer  BY <2>0 DEF PlaceOK
  <2>7. x.pc = "recyclable" => NotAbove(S, t, 0)  BY <2>0, NotAboveKept DEF PlaceOK
  <2> QED  BY <2>1, <2>2, <2>3, <2>4, <2>5, <2>6, <2>7 DEF PlaceOK
<1>2. EntriesOK(S, t, mine)
  <2> SUFFICES ASSUME NEW n \in 1..Len(S), NEW i \in 0..(S[n].cap - 1), S[n].key[i] = t
               PROVE  mine # NoProducer /\ S[n].val[i] = mine /\ Passed(S, t, n, i)
    BY DEF EntriesOK
  <2>1. Has(S, t, n)  BY DEF Has
  <2>2. n \in 1..Len(T)  BY <2>1, <1>l DEF SameFor
  <2>3. i \in 0..(T[n].cap - 1) /\ T[n].key[i] = t /\ S[n].val[i] = T[n].val[i]
    BY <2>2 DEF SameFor
  <2>4. mine # NoProducer /\ T[n].val[i] = mine /\ Passed(T, t, n, i)
    BY <2>2, <2>3 DEF ThreadOK, EntriesOK
  <2> QED  BY <2>2, <2>3, <2>4, PassedKept
<1>3. EntryLeft(S, t, x, mine)
  <2> SUFFICES ASSUME mine # NoProducer, x.pc \notin {"exit", "recyclable"}
               PROVE  \E n \in 1..Len(S) : Has(S, t, n)
    BY DEF EntryLeft
  <2>1. PICK n \in 1..Len(T) : Has(T, t, n)  BY DEF ThreadOK, EntryLeft
  <2>2. Has(S, t, n) /\ n \in 1..Len(S)  BY <2>1, HasKept, <1>l
  <2> QED  BY <2>2
<1> QED  BY <1>1, <1>2, <1>3 DEF ThreadOK

-----------------------------------------------------------------------------
(* What is written                                                         *)

Filled(T, n, i, k, p) ==
  [T EXCEPT ![n] = [cap |-> @.cap, key |-> [@.key EXCEPT ![i] = k],
                    val |-> [@.val EXCEPT ![i] = p]]]

LEMMA FilledIs ==
  ASSUME NEW T, TablesOK(T), NEW n \in 1..Len(T), NEW i \in 0..(T[n].cap - 1),
         NEW k \in PtKeys, NEW p \in Nat, NEW S, S = Filled(T, n, i, k, p)
  PROVE  /\ TablesOK(S) /\ Len(S) = Len(T)
         /\ \A a \in 1..Len(T) : a # n => S[a] = T[a]
         /\ S[n].cap = T[n].cap
         /\ S[n].key[i] = k /\ S[n].val[i] = p
         /\ \A j \in 0..(T[n].cap - 1) : j # i => S[n].key[j] = T[n].key[j]
                                               /\ S[n].val[j] = T[n].val[j]
<1> DEFINE c == T[n].cap
           tb == [cap |-> c, key |-> [T[n].key EXCEPT ![i] = k], val |-> [T[n].val EXCEPT ![i] = p]]
<1>1. TableOK(T[n]) /\ Len(T) \in Nat /\ DOMAIN T = 1..Len(T) /\ T \in Seq(PtTables)
  BY TablesFacts, TableKind DEF TablesOK
<1>2. /\ c \in Nat \ {0} /\ T[n].key \in [0..(c - 1) -> PtKeys] /\ T[n].val \in [0..(c - 1) -> Nat]
  BY <1>1 DEF TableOK
<1>3. tb \in PtTables
  <2>1. /\ [T[n].key EXCEPT ![i] = k] \in [0..(c - 1) -> PtKeys]
        /\ [T[n].val EXCEPT ![i] = p] \in [0..(c - 1) -> Nat]
    BY <1>2
  <2> QED  BY <2>1, <1>2, TableMade
<1>4. S = [T EXCEPT ![n] = tb]  BY DEF Filled
<1>5. S \in Seq(PtTables) /\ Len(S) = Len(T)
  <2> HIDE DEF tb
  <2> QED  BY <1>1, <1>3, <1>4
<1>6. S[n] = tb /\ \A a \in 1..Len(T) : a # n => S[a] = T[a]
  <2> HIDE DEF tb
  <2> QED  BY <1>1, <1>4
<1>7. TablesOK(S)  BY <1>5 DEF TablesOK
<1>8. S[n].cap = c /\ S[n].key = [T[n].key EXCEPT ![i] = k] /\ S[n].val = [T[n].val EXCEPT ![i] = p]
  BY <1>6
<1>9. /\ S[n].key[i] = k /\ S[n].val[i] = p
      /\ \A j \in 0..(c - 1) : j # i => S[n].key[j] = T[n].key[j] /\ S[n].val[j] = T[n].val[j]
  BY <1>2, <1>8
<1> QED  BY <1>5, <1>6, <1>7, <1>8, <1>9

\* What thread t writes, u takes no notice of.
LEMMA FilledSame ==
  ASSUME NEW T, TablesOK(T), NEW n \in 1..Len(T), NEW i \in 0..(T[n].cap - 1),
         NEW k \in PtKeys, NEW p \in Nat, NEW S, S = Filled(T, n, i, k, p),
         NEW u \in PtThreads, k # u, k # EmptyKey, T[n].key[i] # u
  PROVE  SameFor(T, S, u)
<1>1. /\ TablesOK(S) /\ Len(S) = Len(T)
      /\ \A a \in 1..Len(T) : a # n => S[a] = T[a]
      /\ S[n].cap = T[n].cap
      /\ S[n].key[i] = k /\ S[n].val[i] = p
      /\ \A j \in 0..(T[n].cap - 1) : j # i => S[n].key[j] = T[n].key[j]
                                            /\ S[n].val[j] = T[n].val[j]
  BY FilledIs
<1>l. Len(T) \in Nat  BY TablesFacts
<1>2. \A a \in 1..Len(T) : S[a].cap = T[a].cap  BY <1>1
<1>3. ASSUME NEW a \in 1..Len(T), NEW j \in 0..(T[a].cap - 1)
      PROVE  /\ T[a].key[j] = u <=> S[a].key[j] = u
             /\ T[a].key[j] = u => S[a].val[j] = T[a].val[j]
             /\ T[a].key[j] # EmptyKey => S[a].key[j] # EmptyKey
  <2>1. CASE a # n  BY <2>1, <1>1
  <2>2. CASE a = n /\ j # i  BY <2>2, <1>1
  <2>3. CASE a = n /\ j = i  BY <2>3, <1>1
  <2> QED  BY <2>1, <2>2, <2>3
<1> QED  BY <1>1, <1>2, <1>3, <1>l DEF SameFor

LEMMA AppendedSame ==
  ASSUME NEW T, TablesOK(T), NEW c \in Nat \ {0}, NEW S, S = Append(T, NewTable(c))
  PROVE  TablesOK(S) /\ Len(S) = Len(T) + 1 /\ \A u \in PtThreads : SameFor(T, S, u)
<1>1. NewTable(c) \in PtTables
  <2>1. /\ [i \in 0..(c - 1) |-> EmptyKey] \in [0..(c - 1) -> PtKeys]
        /\ [i \in 0..(c - 1) |-> NoProducer] \in [0..(c - 1) -> Nat]
    BY DEF PtKeys, NoProducer
  <2> QED  BY <2>1, TableMade DEF NewTable
<1>2. T \in Seq(PtTables) /\ Len(T) \in Nat /\ Len(T) >= 1  BY TablesFacts DEF TablesOK
<1>3. /\ S \in Seq(PtTables) /\ Len(S) = Len(T) + 1
      /\ \A n \in 1..Len(T) : S[n] = T[n]
      /\ S[Len(T) + 1] = NewTable(c)
  BY <1>1, <1>2
<1>4. TablesOK(S)  BY <1>2, <1>3 DEF TablesOK
<1>5. ASSUME NEW u \in PtThreads PROVE SameFor(T, S, u)
  <2>1. ~Has(S, u, Len(T) + 1)
    <3>1. ASSUME NEW i \in 0..(c - 1) PROVE NewTable(c).key[i] = EmptyKey
      BY DEF NewTable
    <3>2. NewTable(c).cap = c  BY DEF NewTable
    <3>3. EmptyKey # u  BY PtAssumption
    <3> QED  BY <3>1, <3>2, <3>3, <1>3 DEF Has
  <2>2. \A n \in (Len(T) + 1)..Len(S) : n = Len(T) + 1  BY <1>2, <1>3
  <2> QED  BY <1>2, <1>3, <2>1, <2>2 DEF SameFor
<1> QED  BY <1>3, <1>4, <1>5

LEMMA SameTables ==
  ASSUME NEW T, TablesOK(T), NEW u
  PROVE  SameFor(T, T, u)
<1>1. Len(T) \in Nat  BY TablesFacts
<1> QED  BY <1>1 DEF SameFor

-----------------------------------------------------------------------------
(* Searching                                                               *)

LEMMA StartAt ==
  ASSUME NEW T, TablesOK(T), NEW t, NEW n \in 1..Len(T)
  PROVE  CameTo(T, t, n, 0)
<1>1. T[n].cap \in Nat \ {0}  BY TablesFacts
<1> QED  BY <1>1 DEF CameTo, Passed

LEMMA GoOn ==
  ASSUME NEW T, TablesOK(T), NEW t, NEW n, NEW i, CameTo(T, t, n, i),
         T[n].key[i] # t, T[n].key[i] # EmptyKey
  PROVE  CameTo(T, t, n, (i + 1) % T[n].cap)
<1> DEFINE c == T[n].cap
           j == (i + 1) % c
<1>1. n \in 1..Len(T) /\ i \in 0..(c - 1) /\ Passed(T, t, n, i)  BY DEF CameTo
<1>2. c \in Nat \ {0}  BY <1>1, TablesFacts
<1>3. j \in 0..(c - 1) /\ (j = i + 1 \/ j = 0)
  <2>1. i + 1 < c \/ i + 1 = c  BY <1>1, <1>2
  <2>2. /\ (i + 1) % c \in 0..(c - 1) /\ (i + 1 < c => (i + 1) % c = i + 1)
        /\ (i + 1 = c => (i + 1) % c = 0)
    <3> HIDE DEF c
    <3> QED  BY <1>1, <1>2, SlotIsIndex
  <2> QED  BY <2>1, <2>2
<1>4. Passed(T, t, n, j)
  <2> HIDE DEF j, c
  <2> SUFFICES ASSUME NEW h \in 0..(j - 1) PROVE T[n].key[h] # t /\ T[n].key[h] # EmptyKey
    BY DEF Passed
  <2>1. h \in 0..(i - 1) \/ h = i  BY <1>1, <1>2, <1>3
  <2> QED  BY <2>1, <1>1 DEF Passed
<1> QED  BY <1>1, <1>3, <1>4 DEF CameTo

\* A search that comes to an empty slot has found that its id is not there.
LEMMA NotHere ==
  ASSUME NEW T, TablesOK(T), NEW t \in PtThreads, NEW n, NEW i, NEW mine, CameTo(T, t, n, i),
         EntriesOK(T, t, mine), T[n].key[i] = EmptyKey
  PROVE  ~Has(T, t, n)
<1> SUFFICES ASSUME NEW j \in 0..(T[n].cap - 1), T[n].key[j] = t PROVE FALSE  BY DEF Has
<1>1. n \in 1..Len(T) /\ i \in 0..(T[n].cap - 1) /\ Passed(T, t, n, i)  BY DEF CameTo
<1>2. Passed(T, t, n, j)  BY <1>1 DEF EntriesOK
<1>3. j \notin 0..(i - 1)  BY <1>1 DEF Passed
<1>4. i \notin 0..(j - 1)  BY <1>2 DEF Passed
<1>5. i = j  BY <1>1, <1>3, <1>4
<1>6. EmptyKey # t  BY PtAssumption
<1> QED  BY <1>5, <1>6

LEMMA OneDown ==
  ASSUME NEW T, TablesOK(T), NEW t, NEW k \in Nat \ {0}, NotAbove(T, t, k), ~Has(T, t, k)
  PROVE  NotAbove(T, t, k - 1)
<1>1. \A n \in ((k - 1) + 1)..Len(T) : n = k \/ n \in (k + 1)..Len(T)  BY TablesFacts
<1> QED  BY <1>1 DEF NotAbove

\* Its id goes into the first slot that is free, in a table that has it not.
LEMMA IdFilled ==
  ASSUME NEW T, TablesOK(T), NEW t \in PtThreads, NEW n, NEW i, CameTo(T, t, n, i), ~Has(T, t, n),
         NEW mine \in Nat, EntriesOK(T, t, mine), NEW p \in Nat \ {0}, mine = p \/ mine = NoProducer,
         NEW S, S = Filled(T, n, i, t, p)
  PROVE  EntriesOK(S, t, p) /\ Has(S, t, n) /\ n \in 1..Len(S)
<1>1. n \in 1..Len(T) /\ i \in 0..(T[n].cap - 1) /\ Passed(T, t, n, i)  BY DEF CameTo
<1>t. t \in PtKeys  BY DEF PtKeys
<1>2. /\ TablesOK(S) /\ Len(S) = Len(T)
      /\ \A a \in 1..Len(T) : a # n => S[a] = T[a]
      /\ S[n].cap = T[n].cap
      /\ S[n].key[i] = t /\ S[n].val[i] = p
      /\ \A j \in 0..(T[n].cap - 1) : j # i => S[n].key[j] = T[n].key[j]
                                            /\ S[n].val[j] = T[n].val[j]
  BY <1>1, <1>t, FilledIs
<1>3. Has(S, t, n)  BY <1>1, <1>2 DEF Has
<1>4. ASSUME NEW a \in 1..Len(S), NEW j \in 0..(S[a].cap - 1), S[a].key[j] = t
      PROVE  p # NoProducer /\ S[a].val[j] = p /\ Passed(S, t, a, j)
  <2>0. p # NoProducer  BY DEF NoProducer
  <2>1. CASE a # n
    <3>1. S[a] = T[a]  BY <2>1, <1>2
    <3>2. mine # NoProducer /\ T[a].val[j] = mine /\ Passed(T, t, a, j)
      BY <3>1, <1>4, <1>2 DEF EntriesOK
    <3>3. Passed(S, t, a, j)  BY <3>1, <3>2 DEF Passed
    <3> QED  BY <3>1, <3>2, <3>3
  <2>2. CASE a = n
    <3>1. j = i  BY <2>2, <1>2, <1>4 DEF Has
    <3>2. T[n].cap \in Nat  BY <1>1, TablesFacts
    <3>3. ASSUME NEW h \in 0..(i - 1) PROVE S[n].key[h] # t /\ S[n].key[h] # EmptyKey
      <4>1. h \in 0..(T[n].cap - 1) /\ h # i  BY <1>1, <3>2
      <4>2. T[n].key[h] # t /\ T[n].key[h] # EmptyKey  BY <1>1 DEF Passed
      <4> QED  BY <4>1, <4>2, <1>2
    <3>4. Passed(S, t, n, i)  BY <3>3 DEF Passed
    <3> QED  BY <2>0, <2>2, <3>1, <3>4, <1>2
  <2> QED  BY <2>1, <2>2
<1>5. EntriesOK(S, t, p)  BY <1>4 DEF EntriesOK
<1> QED  BY <1>1, <1>2, <1>3, <1>5

\* A tomb in place of the one entry that a table has of a thread.
LEMMA TombFilled ==
  ASSUME NEW T, TablesOK(T), NEW t \in PtThreads, NEW n \in Nat, NEW i, CameTo(T, t, n, i),
         T[n].key[i] = t, NEW mine \in Nat, EntriesOK(T, t, mine), NotAbove(T, t, n), NEW p \in Nat,
         NEW S, S = Filled(T, n, i, TombKey, p)
  PROVE  EntriesOK(S, t, mine) /\ NotAbove(S, t, n - 1) /\ TablesOK(S) /\ Len(S) = Len(T)
<1>1. n \in 1..Len(T) /\ i \in 0..(T[n].cap - 1) /\ Passed(T, t, n, i)  BY DEF CameTo
<1>t. TombKey \in PtKeys /\ TombKey # t  BY PtAssumption DEF PtKeys
<1>2. /\ TablesOK(S) /\ Len(S) = Len(T)
      /\ \A a \in 1..Len(T) : a # n => S[a] = T[a]
      /\ S[n].cap = T[n].cap
      /\ S[n].key[i] = TombKey
      /\ \A j \in 0..(T[n].cap - 1) : j # i => S[n].key[j] = T[n].key[j]
                                            /\ S[n].val[j] = T[n].val[j]
  BY <1>1, <1>t, FilledIs
<1>3. ~Has(S, t, n)
  <2> SUFFICES ASSUME NEW j \in 0..(S[n].cap - 1), S[n].key[j] = t PROVE FALSE  BY DEF Has
  <2>1. j # i /\ j \in 0..(T[n].cap - 1) /\ T[n].key[j] = t  BY <1>2, <1>t
  <2>2. Passed(T, t, n, j)  BY <2>1, <1>1 DEF EntriesOK
  <2>3. i \notin 0..(j - 1)  BY <2>2 DEF Passed
  <2>4. j \notin 0..(i - 1)  BY <2>1, <1>1 DEF Passed
  <2> QED  BY <2>1, <2>3, <2>4, <1>1
<1>4. ASSUME NEW a \in 1..Len(T), a # n, Has(S, t, a) PROVE Has(T, t, a)
  BY <1>4, <1>2 DEF Has
<1>5. NotAbove(S, t, n)
  <2> SUFFICES ASSUME NEW a \in (n + 1)..Len(S), Has(S, t, a) PROVE FALSE  BY DEF NotAbove
  <2>1. a \in 1..Len(T) /\ a # n  BY <1>1, <1>2, TablesFacts
  <2>2. Has(T, t, a)  BY <2>1, <1>4
  <2> QED  BY <2>2, <1>2 DEF NotAbove
<1>6. NotAbove(S, t, n - 1)  BY <1>1, <1>2, <1>3, <1>5, OneDown
<1>7. ASSUME NEW a \in 1..Len(S), NEW j \in 0..(S[a].cap - 1), S[a].key[j] = t
      PROVE  mine # NoProducer /\ S[a].val[j] = mine /\ Passed(S, t, a, j)
  <2>1. Has(S, t, a)  BY <1>7 DEF Has
  <2>2. a # n  BY <2>1, <1>3
  <2>3. S[a] = T[a] /\ a \in 1..Len(T)  BY <2>2, <1>2
  <2>4. mine # NoProducer /\ T[a].val[j] = mine /\ Passed(T, t, a, j)
    BY <2>3, <1>7 DEF EntriesOK
  <2> QED  BY <2>3, <2>4 DEF Passed
<1>8. EntriesOK(S, t, mine)  BY <1>7 DEF EntriesOK
<1> QED  BY <1>2, <1>6, <1>8

-----------------------------------------------------------------------------
(* Steps                                                                   *)

LEMMA StepKeeps ==
  ASSUME PtIInv, NEW t \in PtThreads, NEW r \in [x : PtCall, mine : Nat],
         th' = [th EXCEPT ![t] = r], TablesOK(tables)',
         \A u \in PtThreads : u # t => SameFor(tables, tables', u),
         ThreadOK(tables', t, r), hashCount' \in Int, inactive' \in Seq(BOOLEAN), OwnedOnce'
  PROVE  PtIInv'
<1>0. PtKinds /\ \A u \in PtThreads : ThreadOK(tables, u, th[u])  BY DEF PtIInv
<1>1. TablesOK(tables) /\ th \in [PtThreads -> [x : PtCall, mine : Nat]]  BY <1>0 DEF PtKinds
<1>t. TablesOK(tables')  BY DEF TablesOK
<1>2. th' \in [PtThreads -> [x : PtCall, mine : Nat]]  BY <1>1
<1>3. PtKinds'  BY <1>2 DEF PtKinds
<1>4. ASSUME NEW u \in PtThreads PROVE ThreadOK(tables', u, th'[u])
  <2>1. CASE u = t
    <3>1. th'[u] = r  BY <2>1, <1>1
    <3> QED  BY <3>1, <2>1
  <2>2. CASE u # t
    <3>1. th'[u] = th[u] /\ th[u] \in [x : PtCall, mine : Nat]  BY <2>2, <1>1
    <3>2. SameFor(tables, tables', u) /\ ThreadOK(tables, u, th[u])  BY <2>2, <1>0
    <3>3. ThreadOK(tables', u, th[u])  BY <3>1, <3>2, <1>1, <1>t, ThreadKept
    <3> QED  BY <3>1, <3>3
  <2> QED  BY <2>1, <2>2
<1> QED  BY <1>3, <1>4 DEF PtIInv

LEMMA OwnKept ==
  ASSUME PtIInv, NEW t \in PtThreads, NEW r \in [x : PtCall, mine : Nat],
         th' = [th EXCEPT ![t] = r], inactive' = inactive,
         Own(r) = Own(th[t]) \/ Own(r) = NoProducer
  PROVE  OwnedOnce'
<1>1. OwnedOnce /\ th \in [PtThreads -> [x : PtCall, mine : Nat]]  BY DEF PtIInv, PtKinds
<1>2. th'[t] = r /\ \A u \in PtThreads : u # t => th'[u] = th[u]  BY <1>1
<1>3. \A u \in PtThreads : Own(th'[u]) = Own(th[u]) \/ Own(th'[u]) = NoProducer
  BY <1>2
<1> QED  BY <1>1, <1>3 DEF OwnedOnce

\* A step of t that writes to no table and changes no producer.
LEMMA OnlyMoves ==
  ASSUME PtIInv, NEW t \in PtThreads, NEW x \in PtCall,
         th' = [th EXCEPT ![t] = [x |-> x, mine |-> th[t].mine]],
         tables' = tables, inactive' = inactive, hashCount' \in Int,
         PlaceOK(tables, t, x, th[t].mine),
         x.pc \in {"exit", "recyclable"} \/ th[t].x.pc \notin {"exit", "recyclable"},
         (x.pc = "insert" /\ x.p = th[t].x.p /\ th[t].x.pc = "insert")
           \/ (x.pc # "insert" /\ (th[t].x.pc = "insert" => th[t].mine = NoProducer))
  PROVE  PtIInv'
<1> DEFINE r == [x |-> x, mine |-> th[t].mine]
<1>0. /\ TablesOK(tables) /\ th \in [PtThreads -> [x : PtCall, mine : Nat]]
      /\ ThreadOK(tables, t, th[t]) /\ inactive \in Seq(BOOLEAN)
  BY DEF PtIInv, PtKinds
<1>1. r \in [x : PtCall, mine : Nat] /\ r.x = x /\ r.mine = th[t].mine  BY <1>0
<1>2. th' = [th EXCEPT ![t] = r]  OBVIOUS
<1> HIDE DEF r
<1>3. EntriesOK(tables, t, r.mine)  BY <1>0, <1>1 DEF ThreadOK
<1>4. EntryLeft(tables, t, r.x, r.mine)  BY <1>0, <1>1 DEF ThreadOK, EntryLeft
<1>5. ThreadOK(tables', t, r)  BY <1>1, <1>3, <1>4 DEF ThreadOK
<1>6. \A u \in PtThreads : SameFor(tables, tables', u)  BY <1>0, SameTables
<1>7. TablesOK(tables)'  BY <1>0 DEF TablesOK
<1>8. Own(r) = Own(th[t]) \/ Own(r) = NoProducer
  BY <1>1 DEF Own
<1>9. OwnedOnce'  BY <1>1, <1>2, <1>8, OwnKept
<1>10. inactive' \in Seq(BOOLEAN)  BY <1>0
<1> QED  BY <1>1, <1>2, <1>5, <1>6, <1>7, <1>9, <1>10, StepKeeps

-----------------------------------------------------------------------------
(* One lemma per action                                                    *)

LEMMA PtInitOK == PtInit => PtIInv
<1> SUFFICES ASSUME PtInit PROVE PtIInv  OBVIOUS
<1> DEFINE tb == NewTable(InitialHashSize)
<1>1. tb \in PtTables
  <2>1. /\ InitialHashSize \in Nat \ {0}
        /\ [i \in 0..(InitialHashSize - 1) |-> EmptyKey] \in [0..(InitialHashSize - 1) -> PtKeys]
        /\ [i \in 0..(InitialHashSize - 1) |-> NoProducer] \in [0..(InitialHashSize - 1) -> Nat]
    BY PtAssumption DEF PtKeys, NoProducer
  <2> QED  BY <2>1, TableMade DEF NewTable
<1>2. TablesOK(tables) /\ Len(tables) = 1 /\ tables[1] = tb
  <2> HIDE DEF tb
  <2>1. tables = <<tb>>  BY DEF PtInit, tb
  <2> QED  BY <2>1, <1>1 DEF TablesOK
<1>3. NotInCall \in PtCall  BY DEF NotInCall, Growing, PtCall, NoProducer
<1>4. ASSUME NEW t \in PtThreads
      PROVE  /\ th[t] \in [x : PtCall, mine : Nat] /\ th[t].x.pc = "idle" /\ th[t].mine = NoProducer
  BY <1>3 DEF PtInit, NotInCall, Growing, NoProducer
<1>5. PtKinds
  <2>1. inactive \in Seq(BOOLEAN)  BY DEF PtInit
  <2>2. th \in [PtThreads -> [x : PtCall, mine : Nat]]  BY <1>3 DEF PtInit, NoProducer
  <2>3. hashCount \in Int  BY DEF PtInit
  <2> QED  BY <1>2, <2>1, <2>2, <2>3 DEF PtKinds
<1>6. ASSUME NEW t \in PtThreads PROVE ThreadOK(tables, t, th[t])
  <2>1. ASSUME NEW n \in 1..Len(tables), NEW i \in 0..(tables[n].cap - 1) PROVE tables[n].key[i] # t
    <3>1. tables[n] = tb  BY <1>2
    <3>2. tb.cap = InitialHashSize  BY DEF NewTable
    <3>3. tb.key[i] = EmptyKey  BY <3>1, <3>2 DEF NewTable
    <3> QED  BY <3>1, <3>3, PtAssumption
  <2>2. EntriesOK(tables, t, th[t].mine)  BY <2>1 DEF EntriesOK
  <2>3. PlaceOK(tables, t, th[t].x, th[t].mine)  BY <1>4 DEF PlaceOK
  <2>4. EntryLeft(tables, t, th[t].x, th[t].mine)  BY <1>4 DEF EntryLeft
  <2> QED  BY <2>2, <2>3, <2>4 DEF ThreadOK
<1>7. OwnedOnce  BY <1>4 DEF OwnedOnce, Own
<1> QED  BY <1>5, <1>6, <1>7 DEF PtIInv

\* What the invariant says of the thread that moves.
LEMMA Mover ==
  ASSUME PtIInv, NEW t \in PtThreads
  PROVE  /\ TablesOK(tables) /\ Len(tables) \in Nat \ {0} /\ hashCount \in Int
         /\ inactive \in Seq(BOOLEAN)
         /\ th \in [PtThreads -> [x : PtCall, mine : Nat]]
         /\ th[t].x \in PtCall /\ th[t].mine \in Nat
         /\ th[t].x.m \in Nat /\ th[t].x.tbl \in Nat /\ th[t].x.i \in Nat /\ th[t].x.n \in Int
         /\ th[t].x.p \in Nat
         /\ PlaceOK(tables, t, th[t].x, th[t].mine) /\ EntriesOK(tables, t, th[t].mine)
         /\ EntryLeft(tables, t, th[t].x, th[t].mine)
<1>1. PtKinds /\ ThreadOK(tables, t, th[t])  BY DEF PtIInv
<1>2. TablesOK(tables) /\ hashCount \in Int /\ inactive \in Seq(BOOLEAN)
      /\ th \in [PtThreads -> [x : PtCall, mine : Nat]]
  BY <1>1 DEF PtKinds
<1>3. th[t].x \in PtCall /\ th[t].mine \in Nat  BY <1>2
<1>4. /\ th[t].x.m \in Nat /\ th[t].x.tbl \in Nat /\ th[t].x.i \in Nat /\ th[t].x.n \in Int
      /\ th[t].x.p \in Nat
  BY <1>3 DEF PtCall
<1>5. Len(tables) \in Nat \ {0}  BY <1>2, TablesFacts
<1> QED  BY <1>1, <1>2, <1>3, <1>4, <1>5 DEF ThreadOK

LEMMA IdleIs == NotInCall \in PtCall /\ NotInCall.pc = "idle"
  BY DEF NotInCall, Growing, PtCall, NoProducer

\* In a search, the slot is the one that i says.
LEMMA SlotOf ==
  ASSUME PtIInv, NEW t \in PtThreads, NEW n, CameTo(tables, t, n, th[t].x.i)
  PROVE  /\ ProbedSlot(t, n) = th[t].x.i /\ NextSlot(t, n) \in Nat
         /\ KeyAt(t, n) = tables[n].key[th[t].x.i] /\ ValAt(t, n) = tables[n].val[th[t].x.i]
         /\ NextSlot(t, n) = (th[t].x.i + 1) % tables[n].cap
<1>1. n \in 1..Len(tables) /\ th[t].x.i \in 0..(tables[n].cap - 1)  BY DEF CameTo
<1>2. tables[n].cap \in Nat \ {0}  BY <1>1, Mover, TablesFacts
<1>3. ProbedSlot(t, n) = th[t].x.i  BY <1>1, <1>2, SlotIsIndex DEF ProbedSlot, Y
<1>4. NextSlot(t, n) = (th[t].x.i + 1) % tables[n].cap  BY DEF NextSlot, Y
<1>5. (th[t].x.i + 1) % tables[n].cap \in 0..(tables[n].cap - 1)  BY <1>1, <1>2, SlotIsIndex
<1>6. NextSlot(t, n) \in Nat  BY <1>2, <1>4, <1>5
<1> QED  BY <1>3, <1>4, <1>6 DEF KeyAt, ValAt

LEMMA GetOrAddOK ==
  ASSUME PtIInv, NEW t \in PtThreads, GetOrAdd(t)
  PROVE  PtIInv'
<1> DEFINE L == Len(tables)
           x == Looking("probe", L, L, 0, NoProducer)
<1>0. /\ TablesOK(tables) /\ L \in Nat \ {0} /\ hashCount \in Int
  BY Mover
<1>1. th[t].x.pc = "idle" /\ tables' = tables /\ inactive' = inactive /\ hashCount' \in Int
      /\ th' = [th EXCEPT ![t] = [x |-> x, mine |-> th[t].mine]]
  BY <1>0 DEF GetOrAdd, Sets, Y, Hash
<1>2. x \in PtCall /\ x.pc = "probe" /\ x.m = L /\ x.tbl = L /\ x.i = 0
  BY <1>0 DEF Looking, PtCall, NoProducer
<1>3. CameTo(tables, t, L, 0)  BY <1>0, StartAt
<1>4. NotAbove(tables, t, L)  BY <1>0 DEF NotAbove
<1> HIDE DEF x
<1>5. PlaceOK(tables, t, x, th[t].mine)  BY <1>0, <1>2, <1>3, <1>4 DEF PlaceOK
<1> QED  BY <1>1, <1>2, <1>5, OnlyMoves

LEMMA ProbeOK ==
  ASSUME PtIInv, NEW t \in PtThreads, Probe(t)
  PROVE  PtIInv' /\ th'[t].mine = th[t].mine
<1> DEFINE x == th[t].x
           mine == th[t].mine
           k == tables[x.tbl].key[x.i]
           v == tables[x.tbl].val[x.i]
<1>0. /\ TablesOK(tables) /\ Len(tables) \in Nat \ {0} /\ hashCount \in Int
      /\ th \in [PtThreads -> [x : PtCall, mine : Nat]]
      /\ x \in PtCall /\ x.m \in Nat /\ x.tbl \in Nat /\ x.i \in Nat /\ mine \in Nat
      /\ PlaceOK(tables, t, x, mine) /\ EntriesOK(tables, t, mine)
      /\ EntryLeft(tables, t, x, mine)
  BY Mover
<1>1. x.pc = "probe" /\ tables' = tables /\ inactive' = inactive /\ hashCount' \in Int
  BY <1>0 DEF Probe, Y
<1>2. CameTo(tables, t, x.tbl, x.i) /\ NotAbove(tables, t, x.tbl) /\ x.tbl <= x.m /\ x.m <= Len(tables)
  BY <1>0, <1>1 DEF PlaceOK
<1>3. x.tbl \in 1..Len(tables) /\ x.i \in 0..(tables[x.tbl].cap - 1)  BY <1>2 DEF CameTo
<1>4. /\ KeyAt(t, x.tbl) = k /\ ValAt(t, x.tbl) = v /\ NextSlot(t, x.tbl) \in Nat
      /\ NextSlot(t, x.tbl) = (x.i + 1) % tables[x.tbl].cap
  BY <1>2, SlotOf
<1>5. \/ k = t /\ x.tbl = x.m /\ Returns(t, v)
      \/ k = t /\ x.tbl # x.m /\ Sets(t, Looking("lazy", x.m, 0, 0, v))
      \/ k = EmptyKey /\ x.tbl > 1 /\ Sets(t, Looking("probe", x.m, x.tbl - 1, 0, NoProducer))
      \/ k = EmptyKey /\ x.tbl = 1 /\ Sets(t, Growing("count", x.m, 0))
      \/ k # t /\ k # EmptyKey
         /\ Sets(t, Looking("probe", x.m, x.tbl, NextSlot(t, x.tbl), NoProducer))
  BY <1>4 DEF Probe, Y, Hash
<1>v. k = t => mine # NoProducer /\ v = mine  BY <1>0, <1>3 DEF EntriesOK
<1>t. t # EmptyKey  BY PtAssumption
<1>n. x.m \in Nat /\ x.tbl \in Nat /\ mine \in Nat  BY <1>0
<1> HIDE DEF x, mine, k, v
<1>6. CASE k = t /\ x.tbl = x.m /\ Returns(t, v)
  <2>1. th' = [th EXCEPT ![t] = [x |-> NotInCall, mine |-> mine]]
    BY <1>6, <1>v DEF Returns, mine
  <2>2. PlaceOK(tables, t, NotInCall, mine)  BY IdleIs DEF PlaceOK
  <2>3. PtIInv'  BY <2>1, <2>2, <1>1, IdleIs, OnlyMoves DEF x, mine
  <2>4. th'[t].mine = mine  BY <2>1, <1>0
  <2> QED  BY <2>3, <2>4 DEF mine
<1>7. CASE k = t /\ x.tbl # x.m /\ Sets(t, Looking("lazy", x.m, 0, 0, v))
  <2> DEFINE y == Looking("lazy", x.m, 0, 0, v)
  <2>1. th' = [th EXCEPT ![t] = [x |-> y, mine |-> mine]]  BY <1>7 DEF Sets, mine
  <2>2. y \in PtCall /\ y.pc = "lazy" /\ y.m = x.m /\ y.i = 0 /\ y.p = mine
    BY <1>n, <1>7, <1>v DEF Looking, PtCall
  <2> HIDE DEF y
  <2>3. x.m \in 1..Len(tables) /\ x.m \in (x.tbl + 1)..Len(tables)  BY <1>0, <1>2, <1>3, <1>7
  <2>4. ~Has(tables, t, x.m)  BY <1>2, <2>3 DEF NotAbove
  <2>5. CameTo(tables, t, x.m, 0)  BY <1>0, <2>3, StartAt
  <2>6. PlaceOK(tables, t, y, mine)  BY <2>2, <2>4, <2>5, <1>7, <1>v DEF PlaceOK
  <2>7. PtIInv'  BY <2>1, <2>2, <2>6, <1>1, OnlyMoves DEF x, mine
  <2>8. th'[t].mine = mine  BY <2>1, <1>0
  <2> QED  BY <2>7, <2>8 DEF mine
<1>8. CASE k = EmptyKey /\ x.tbl > 1 /\ Sets(t, Looking("probe", x.m, x.tbl - 1, 0, NoProducer))
  <2> DEFINE y == Looking("probe", x.m, x.tbl - 1, 0, NoProducer)
  <2>1. th' = [th EXCEPT ![t] = [x |-> y, mine |-> mine]]  BY <1>8 DEF Sets, mine
  <2>b. x.tbl - 1 \in Nat /\ x.tbl - 1 \in 1..Len(tables) /\ x.tbl - 1 <= x.m /\ x.tbl \in Nat \ {0}
    BY <1>8, <1>0, <1>2, <1>3
  <2>2. y \in PtCall /\ y.pc = "probe" /\ y.m = x.m /\ y.tbl = x.tbl - 1 /\ y.i = 0
    BY <1>n, <2>b DEF Looking, PtCall, NoProducer
  <2> HIDE DEF y
  <2>3. ~Has(tables, t, x.tbl)  BY <1>0, <1>2, <1>8, NotHere DEF k
  <2>4. NotAbove(tables, t, x.tbl - 1)  BY <1>0, <1>2, <2>3, <2>b, OneDown
  <2>5. CameTo(tables, t, x.tbl - 1, 0)  BY <1>0, <2>b, StartAt
  <2>6. PlaceOK(tables, t, y, mine)  BY <1>2, <2>b, <2>2, <2>4, <2>5 DEF PlaceOK
  <2>7. PtIInv'  BY <2>1, <2>2, <2>6, <1>1, OnlyMoves DEF x, mine
  <2>8. th'[t].mine = mine  BY <2>1, <1>0
  <2> QED  BY <2>7, <2>8 DEF mine
<1>9. CASE k = EmptyKey /\ x.tbl = 1 /\ Sets(t, Growing("count", x.m, 0))
  <2> DEFINE y == Growing("count", x.m, 0)
  <2>1. th' = [th EXCEPT ![t] = [x |-> y, mine |-> mine]]  BY <1>9 DEF Sets, mine
  <2>2. y \in PtCall /\ y.pc = "count" /\ y.m = x.m  BY <1>n DEF Growing, PtCall, NoProducer
  <2> HIDE DEF y
  <2>3. ~Has(tables, t, x.tbl)  BY <1>0, <1>2, <1>9, NotHere DEF k
  <2>4. \A n \in 1..Len(tables) : ~Has(tables, t, n)
    <3> SUFFICES ASSUME NEW n \in 1..Len(tables) PROVE ~Has(tables, t, n)  OBVIOUS
    <3>1. n = x.tbl \/ n \in (x.tbl + 1)..Len(tables)  BY <1>9, <1>0
    <3> QED  BY <3>1, <2>3, <1>2 DEF NotAbove
  <2>5. mine = NoProducer  BY <2>4, <1>0, <1>1 DEF EntryLeft
  <2>6. x.m \in 1..Len(tables)  BY <1>0, <1>2, <1>3
  <2>7. PlaceOK(tables, t, y, mine)  BY <2>2, <2>5, <2>6 DEF PlaceOK
  <2>8. PtIInv'  BY <2>1, <2>2, <2>7, <1>1, OnlyMoves DEF x, mine
  <2>9. th'[t].mine = mine  BY <2>1, <1>0
  <2> QED  BY <2>8, <2>9 DEF mine
<1>10. CASE k # t /\ k # EmptyKey
            /\ Sets(t, Looking("probe", x.m, x.tbl, NextSlot(t, x.tbl), NoProducer))
  <2> DEFINE y == Looking("probe", x.m, x.tbl, NextSlot(t, x.tbl), NoProducer)
  <2>1. th' = [th EXCEPT ![t] = [x |-> y, mine |-> mine]]  BY <1>10 DEF Sets, mine
  <2>2. y \in PtCall /\ y.pc = "probe" /\ y.m = x.m /\ y.tbl = x.tbl /\ y.i = NextSlot(t, x.tbl)
    BY <1>n, <1>4 DEF Looking, PtCall, NoProducer
  <2> HIDE DEF y
  <2>3. CameTo(tables, t, x.tbl, NextSlot(t, x.tbl))  BY <1>0, <1>2, <1>4, <1>10, GoOn DEF k
  <2>4. PlaceOK(tables, t, y, mine)  BY <1>2, <2>2, <2>3 DEF PlaceOK
  <2>5. PtIInv'  BY <2>1, <2>2, <2>4, <1>1, OnlyMoves DEF x, mine
  <2>6. th'[t].mine = mine  BY <2>1, <1>0
  <2> QED  BY <2>5, <2>6 DEF mine
<1> QED  BY <1>5, <1>6, <1>7, <1>8, <1>9, <1>10

\* Both places at which a thread puts its id into a table.
LEMMA EntersOK ==
  ASSUME PtIInv, NEW t \in PtThreads, NEW n \in Nat, NEW p \in Nat \ {0},
         CameTo(tables, t, n, th[t].x.i), ~Has(tables, t, n),
         KeyAt(t, n) \in {EmptyKey, TombKey},
         \/ th[t].mine = p /\ th[t].x.pc # "insert"
         \/ th[t].mine = NoProducer /\ th[t].x.pc = "insert" /\ th[t].x.p = p,
         Fill(t, n, t, p), Returns(t, p), hashCount' \in Int, inactive' = inactive
  PROVE  PtIInv' /\ th'[t].mine = p
<1> DEFINE i == th[t].x.i
           r == [x |-> NotInCall, mine |-> p]
<1>0. /\ TablesOK(tables) /\ th \in [PtThreads -> [x : PtCall, mine : Nat]]
      /\ th[t].mine \in Nat /\ EntriesOK(tables, t, th[t].mine) /\ inactive \in Seq(BOOLEAN)
  BY Mover
<1>1. n \in 1..Len(tables) /\ i \in 0..(tables[n].cap - 1)  BY DEF CameTo
<1>2. ProbedSlot(t, n) = i /\ KeyAt(t, n) = tables[n].key[i]  BY SlotOf
<1>3. tables' = Filled(tables, n, i, t, p)  BY <1>2 DEF Fill, Filled
<1>4. th' = [th EXCEPT ![t] = r] /\ r \in [x : PtCall, mine : Nat] /\ r.x = NotInCall /\ r.mine = p
  BY <1>0, IdleIs DEF Returns, NoProducer
<1> HIDE DEF r
<1>t. t \in PtKeys /\ t # EmptyKey  BY PtAssumption DEF PtKeys
<1>5. EntriesOK(tables', t, p) /\ Has(tables', t, n) /\ n \in 1..Len(tables')
  BY <1>0, <1>3, IdFilled
<1>6. TablesOK(tables')  BY <1>0, <1>1, <1>3, <1>t, FilledIs
<1>7. ASSUME NEW u \in PtThreads, u # t PROVE SameFor(tables, tables', u)
  <2>1. tables[n].key[i] # u  BY <1>2, PtAssumption
  <2> QED  BY <2>1, <1>0, <1>1, <1>3, <1>7, <1>t, FilledSame
<1>8. PlaceOK(tables', t, r.x, r.mine)  BY <1>4, IdleIs DEF PlaceOK
<1>9. EntryLeft(tables', t, r.x, r.mine)  BY <1>5 DEF EntryLeft
<1>10. ThreadOK(tables', t, r)  BY <1>4, <1>5, <1>8, <1>9 DEF ThreadOK
<1>11. OwnedOnce'
  <2>1. Own(r) = Own(th[t])  BY <1>4, IdleIs DEF Own
  <2> QED  BY <2>1, <1>4, OwnKept
<1>12. TablesOK(tables)'  BY <1>6 DEF TablesOK
<1>13. PtIInv'  BY <1>0, <1>4, <1>7, <1>10, <1>11, <1>12, StepKeeps
<1>14. th'[t].mine = p  BY <1>0, <1>4
<1> QED  BY <1>13, <1>14

LEMMA LazyAddOK ==
  ASSUME PtIInv, NEW t \in PtThreads, LazyAdd(t)
  PROVE  PtIInv' /\ th'[t].mine = th[t].mine
<1> DEFINE x == th[t].x
           mine == th[t].mine
<1>0. /\ TablesOK(tables) /\ hashCount \in Int /\ th \in [PtThreads -> [x : PtCall, mine : Nat]]
      /\ x.m \in Nat /\ mine \in Nat /\ PlaceOK(tables, t, x, mine)
  BY Mover
<1>1. x.pc = "lazy" /\ inactive' = inactive /\ hashCount' \in Int  BY <1>0 DEF LazyAdd, Y
<1>2. CameTo(tables, t, x.m, x.i) /\ ~Has(tables, t, x.m) /\ x.p = mine /\ mine # NoProducer
  BY <1>0, <1>1 DEF PlaceOK
<1>3. CASE KeyAt(t, x.m) \in {EmptyKey, TombKey}
  <2>1. Fill(t, x.m, t, mine) /\ Returns(t, mine)  BY <1>2, <1>3 DEF LazyAdd, Y
  <2>2. mine \in Nat \ {0}  BY <1>0, <1>2 DEF NoProducer
  <2> QED  BY <2>1, <2>2, <1>0, <1>1, <1>2, <1>3, EntersOK
<1>4. CASE KeyAt(t, x.m) \notin {EmptyKey, TombKey}
  <2> DEFINE y == Looking("lazy", x.m, 0, NextSlot(t, x.m), x.p)
  <2>1. tables' = tables /\ th' = [th EXCEPT ![t] = [x |-> y, mine |-> mine]]
    BY <1>4 DEF LazyAdd, Y, Sets
  <2>2. /\ KeyAt(t, x.m) = tables[x.m].key[x.i] /\ NextSlot(t, x.m) \in Nat
        /\ NextSlot(t, x.m) = (x.i + 1) % tables[x.m].cap
    BY <1>2, SlotOf
  <2>3. x.m \in 1..Len(tables) /\ x.i \in 0..(tables[x.m].cap - 1)  BY <1>2 DEF CameTo
  <2>4. tables[x.m].key[x.i] # t  BY <1>2, <2>3 DEF Has
  <2>5. CameTo(tables, t, x.m, NextSlot(t, x.m))  BY <1>0, <1>2, <1>4, <2>2, <2>4, GoOn
  <2>p. x.m \in Nat /\ x.p \in Nat  BY <1>0, <1>2
  <2> HIDE DEF x, mine
  <2>6. y \in PtCall /\ y.pc = "lazy" /\ y.m = x.m /\ y.i = NextSlot(t, x.m) /\ y.p = x.p
    BY <2>2, <2>p DEF Looking, PtCall
  <2> HIDE DEF y
  <2>7. PlaceOK(tables, t, y, mine)  BY <1>2, <2>5, <2>6 DEF PlaceOK
  <2>8. PtIInv'  BY <2>1, <2>6, <2>7, <1>1, OnlyMoves DEF x, mine
  <2>9. th'[t].mine = mine  BY <2>1, <1>0
  <2> QED  BY <2>8, <2>9 DEF mine
<1> QED  BY <1>3, <1>4

\* Steps that only change the locals while the table may grow.
LEMMA GrowMoves ==
  ASSUME PtIInv, NEW t \in PtThreads, NEW pc \in {"grow", "resize", "fit", "recycle"},
         NEW m \in 1..Len(tables), NEW n \in Int,
         th[t].x.pc \in {"count", "grow", "resize", "fit"},
         Sets(t, Growing(pc, m, n)), tables' = tables, inactive' = inactive, hashCount' \in Int
  PROVE  PtIInv' /\ th'[t].mine = th[t].mine
<1> DEFINE y == Growing(pc, m, n)
<1>0. /\ th \in [PtThreads -> [x : PtCall, mine : Nat]] /\ PlaceOK(tables, t, th[t].x, th[t].mine)
      /\ Len(tables) \in Nat
  BY Mover
<1>1. th' = [th EXCEPT ![t] = [x |-> y, mine |-> th[t].mine]]  BY DEF Sets
<1>m. m \in Nat  BY <1>0
<1>2. y \in PtCall /\ y.pc = pc /\ y.m = m  BY <1>m DEF Growing, PtCall, NoProducer
<1> HIDE DEF y
<1>3. th[t].mine = NoProducer  BY <1>0 DEF PlaceOK
<1>4. PlaceOK(tables, t, y, th[t].mine)  BY <1>2, <1>3 DEF PlaceOK
<1>5. PtIInv'  BY <1>1, <1>2, <1>4, OnlyMoves
<1> QED  BY <1>0, <1>1, <1>5

\* The call returns nothing, for want of memory.
LEMMA ReturnsNothing ==
  ASSUME PtIInv, NEW t \in PtThreads, th[t].x.pc \in {"resize", "recycle"},
         Returns(t, NoProducer), tables' = tables, inactive' = inactive, hashCount' \in Int
  PROVE  PtIInv' /\ th'[t].mine = th[t].mine
<1>0. th \in [PtThreads -> [x : PtCall, mine : Nat]]  BY Mover
<1>1. th' = [th EXCEPT ![t] = [x |-> NotInCall, mine |-> th[t].mine]]  BY DEF Returns
<1>2. PlaceOK(tables, t, NotInCall, th[t].mine)  BY IdleIs DEF PlaceOK
<1>3. PtIInv'  BY <1>1, <1>2, IdleIs, OnlyMoves
<1> QED  BY <1>0, <1>1, <1>3

LEMMA CountLockFitOK ==
  ASSUME PtIInv, NEW t \in PtThreads, CountSlot(t) \/ LockResize(t) \/ Fit(t)
  PROVE  PtIInv' /\ th'[t].mine = th[t].mine
<1> DEFINE x == th[t].x
<1>0. /\ Len(tables) \in Nat \ {0} /\ hashCount \in Int /\ x.n \in Int
      /\ PlaceOK(tables, t, x, th[t].mine)
  BY Mover
<1>1. x.pc \in {"count", "grow", "fit"} => x.m \in 1..Len(tables)  BY <1>0 DEF PlaceOK
<1>2. CASE CountSlot(t)
  <2>1. x.pc = "count" /\ tables' = tables /\ inactive' = inactive /\ hashCount' \in Int
        /\ Sets(t, Growing("grow", x.m, hashCount + 1)) /\ hashCount + 1 \in Int
    BY <1>0, <1>2 DEF CountSlot, Y
  <2> QED  BY <2>1, <1>1, GrowMoves
<1>3. CASE LockResize(t)
  <2>1. x.pc = "grow" /\ tables' = tables /\ inactive' = inactive /\ hashCount' \in Int
        /\ \E pc \in {"resize", "fit"} : Sets(t, Growing(pc, x.m, x.n))
    BY <1>0, <1>3 DEF LockResize, Y
  <2>2. PICK pc \in {"resize", "fit"} : Sets(t, Growing(pc, x.m, x.n))  BY <2>1
  <2> QED  BY <2>1, <2>2, <1>0, <1>1, GrowMoves
<1>4. CASE Fit(t)
  <2>1. x.pc = "fit" /\ tables' = tables /\ inactive' = inactive /\ hashCount' \in Int
        /\ \/ Sets(t, Growing("recycle", x.m, x.n))
           \/ Sets(t, Growing("grow", Len(tables), x.n))
    BY <1>0, <1>4 DEF Fit, Y
  <2>2. Len(tables) \in 1..Len(tables)  BY <1>0
  <2>3. CASE Sets(t, Growing("recycle", x.m, x.n))  BY <2>1, <2>3, <1>0, <1>1, GrowMoves
  <2>4. CASE Sets(t, Growing("grow", Len(tables), x.n))  BY <2>1, <2>2, <2>4, <1>0, GrowMoves
  <2> QED  BY <2>1, <2>3, <2>4
<1> QED  BY <1>2, <1>3, <1>4

LEMMA ResizeOK ==
  ASSUME PtIInv, NEW t \in PtThreads, Resize(t)
  PROVE  PtIInv' /\ th'[t].mine = th[t].mine
<1> DEFINE x == th[t].x
           m == Len(tables)
           wanted == x.n >= tables[m].cap \div 2
<1>0. /\ TablesOK(tables) /\ m \in Nat \ {0} /\ hashCount \in Int /\ x.n \in Int
      /\ th \in [PtThreads -> [x : PtCall, mine : Nat]] /\ th[t].mine \in Nat
      /\ inactive \in Seq(BOOLEAN)
      /\ PlaceOK(tables, t, x, th[t].mine) /\ EntriesOK(tables, t, th[t].mine)
  BY Mover
<1>1. x.pc = "resize" /\ inactive' = inactive  BY DEF Resize, Y
<1>2. \/ /\ \E cap \in NewCapacity(tables[m].cap, x.n) : tables' = Append(tables, NewTable(cap))
         /\ Sets(t, Growing("fit", m + 1, x.n)) /\ hashCount' = hashCount
      \/ hashCount' = hashCount - 1 /\ Returns(t, NoProducer) /\ tables' = tables
      \/ Sets(t, Growing("fit", m, x.n)) /\ tables' = tables /\ hashCount' = hashCount
  BY DEF Resize, Y
<1>3. CASE /\ \E cap \in NewCapacity(tables[m].cap, x.n) : tables' = Append(tables, NewTable(cap))
           /\ Sets(t, Growing("fit", m + 1, x.n)) /\ hashCount' = hashCount
  <2> DEFINE y == Growing("fit", m + 1, x.n)
             r == [x |-> y, mine |-> th[t].mine]
  <2>1. PICK cap \in NewCapacity(tables[m].cap, x.n) : tables' = Append(tables, NewTable(cap))
    BY <1>3
  <2>2. cap \in Nat \ {0}
    <3>1. tables[m].cap \in Nat  BY <1>0, TablesFacts
    <3>2. cap \in 1..(2 * tables[m].cap + 4 * x.n)  BY <2>1 DEF NewCapacity
    <3> QED  BY <3>1, <3>2, <1>0
  <2>3. /\ TablesOK(tables') /\ Len(tables') = m + 1
        /\ \A u \in PtThreads : SameFor(tables, tables', u)
    BY <1>0, <2>1, <2>2, AppendedSame
  <2>4. th' = [th EXCEPT ![t] = r]  BY <1>3 DEF Sets
  <2>5. y \in PtCall /\ y.pc = "fit" /\ y.m = m + 1  BY <1>0 DEF Growing, PtCall, NoProducer
  <2> HIDE DEF y
  <2>6. r \in [x : PtCall, mine : Nat] /\ r.x = y /\ r.mine = th[t].mine  BY <1>0, <2>5
  <2> HIDE DEF r
  <2>7. th[t].mine = NoProducer  BY <1>0, <1>1 DEF PlaceOK
  <2>8. EntriesOK(tables', t, r.mine)
    <3>1. ThreadOK(tables, t, th[t]) /\ th[t] \in [x : PtCall, mine : Nat]  BY <1>0 DEF PtIInv
    <3>2. ThreadOK(tables', t, th[t])  BY <3>1, <1>0, <2>3, ThreadKept
    <3> QED  BY <3>2, <2>6 DEF ThreadOK
  <2>9. PlaceOK(tables', t, y, r.mine)  BY <1>0, <2>3, <2>5, <2>6, <2>7 DEF PlaceOK
  <2>10. EntryLeft(tables', t, y, r.mine)  BY <2>6, <2>7 DEF EntryLeft
  <2>11. ThreadOK(tables', t, r)  BY <2>6, <2>8, <2>9, <2>10 DEF ThreadOK
  <2>12. Own(r) = Own(th[t])  BY <1>1, <2>5, <2>6 DEF Own
  <2>13. OwnedOnce'  BY <1>1, <2>4, <2>6, <2>12, OwnKept
  <2>14. TablesOK(tables)'  BY <2>3 DEF TablesOK
  <2>15. inactive' \in Seq(BOOLEAN) /\ hashCount' \in Int  BY <1>0, <1>1, <1>3
  <2>16. PtIInv'  BY <2>3, <2>4, <2>6, <2>11, <2>13, <2>14, <2>15, StepKeeps
  <2>17. th'[t].mine = th[t].mine  BY <2>4, <2>6, <1>0
  <2> QED  BY <2>16, <2>17
<1>4. CASE hashCount' = hashCount - 1 /\ Returns(t, NoProducer) /\ tables' = tables
  <2>1. hashCount' \in Int  BY <1>0, <1>4
  <2> QED  BY <2>1, <1>1, <1>4, ReturnsNothing
<1>5. CASE Sets(t, Growing("fit", m, x.n)) /\ tables' = tables /\ hashCount' = hashCount
  <2>1. m \in 1..Len(tables) /\ hashCount' \in Int  BY <1>0, <1>5
  <2> QED  BY <2>1, <1>0, <1>1, <1>5, GrowMoves
<1> QED  BY <1>2, <1>3, <1>4, <1>5

\* A producer that nobody has becomes that of t.
LEMMA TakesOK ==
  ASSUME PtIInv, NEW t \in PtThreads, NEW p \in Nat \ {0}, th[t].x.pc = "recycle",
         Sets(t, Looking("insert", th[t].x.m, 0, 0, p)), tables' = tables, hashCount' \in Int,
         inactive' \in Seq(BOOLEAN), p \in 1..Len(inactive'), ~inactive'[p],
         \A q \in 1..Len(inactive) : ~inactive[q] => q # p /\ q \in 1..Len(inactive') /\ ~inactive'[q]
  PROVE  PtIInv' /\ th'[t].mine = th[t].mine
<1> DEFINE x == th[t].x
           mine == th[t].mine
           y == Looking("insert", x.m, 0, 0, p)
           r == [x |-> y, mine |-> mine]
<1>0. /\ TablesOK(tables) /\ x.m \in Nat /\ mine \in Nat
      /\ th \in [PtThreads -> [x : PtCall, mine : Nat]]
      /\ PlaceOK(tables, t, x, mine) /\ EntriesOK(tables, t, mine)
  BY Mover
<1>1. th' = [th EXCEPT ![t] = r]  BY DEF Sets
<1>2. x.m \in 1..Len(tables) /\ mine = NoProducer  BY <1>0 DEF PlaceOK
<1>3. CameTo(tables, t, x.m, 0)  BY <1>0, <1>2, StartAt
<1>n. x.m \in Nat /\ mine \in Nat  BY <1>0
<1> HIDE DEF x, mine
<1>4. y \in PtCall /\ y.pc = "insert" /\ y.m = x.m /\ y.i = 0 /\ y.p = p
  BY <1>n DEF Looking, PtCall
<1> HIDE DEF y
<1>5. r \in [x : PtCall, mine : Nat] /\ r.x = y /\ r.mine = mine  BY <1>n, <1>4
<1> HIDE DEF r
<1>6. PlaceOK(tables, t, y, mine)  BY <1>2, <1>3, <1>4 DEF PlaceOK, NoProducer
<1>7. EntryLeft(tables, t, y, mine)  BY <1>2 DEF EntryLeft
<1>8. ThreadOK(tables', t, r)  BY <1>0, <1>5, <1>6, <1>7 DEF ThreadOK
<1>9. OwnedOnce'
  <2>1. th'[t] = r /\ \A u \in PtThreads : u # t => th'[u] = th[u]  BY <1>0, <1>1
  <2>2. Own(th'[t]) = p  BY <2>1, <1>4, <1>5 DEF Own
  <2>3. OwnedOnce  BY DEF PtIInv
  <2>4. ASSUME NEW u \in PtThreads, u # t, Own(th[u]) # NoProducer
        PROVE  Own(th[u]) # p /\ Own(th[u]) \in 1..Len(inactive') /\ ~inactive'[Own(th[u])]
    <3>1. Own(th[u]) \in 1..Len(inactive) /\ ~inactive[Own(th[u])]  BY <2>3, <2>4 DEF OwnedOnce
    <3> QED  BY <3>1
  <2>5. ASSUME NEW u \in PtThreads, Own(th'[u]) # NoProducer
        PROVE  Own(th'[u]) \in 1..Len(inactive') /\ ~inactive'[Own(th'[u])]
    <3>1. CASE u = t  BY <3>1, <2>2
    <3>2. CASE u # t  BY <3>2, <2>1, <2>4, <2>5
    <3> QED  BY <3>1, <3>2
  <2>6. ASSUME NEW u \in PtThreads, NEW w \in PtThreads, u # w, Own(th'[u]) # NoProducer
        PROVE  Own(th'[u]) # Own(th'[w])
    <3>1. CASE u = t
      <4>1. w # t /\ th'[w] = th[w]  BY <3>1, <2>1, <2>6
      <4>2. CASE Own(th[w]) = NoProducer  BY <4>1, <4>2, <2>6
      <4>3. CASE Own(th[w]) # NoProducer  BY <4>1, <4>3, <3>1, <2>2, <2>4
      <4> QED  BY <4>2, <4>3
    <3>2. CASE w = t
      <4>1. u # t /\ th'[u] = th[u]  BY <3>2, <2>1, <2>6
      <4>2. Own(th[u]) # p  BY <4>1, <2>4, <2>6
      <4> QED  BY <4>1, <4>2, <3>2, <2>2
    <3>3. CASE u # t /\ w # t  BY <3>3, <2>1, <2>3, <2>6 DEF OwnedOnce
    <3> QED  BY <3>1, <3>2, <3>3
  <2> QED  BY <2>5, <2>6 DEF OwnedOnce
<1>10. \A u \in PtThreads : SameFor(tables, tables', u)  BY <1>0, SameTables
<1>11. TablesOK(tables)'  BY <1>0 DEF TablesOK
<1>12. PtIInv'  BY <1>1, <1>5, <1>8, <1>9, <1>10, <1>11, StepKeeps
<1>13. th'[t].mine = mine  BY <1>0, <1>1, <1>5
<1> QED  BY <1>12, <1>13 DEF mine

LEMMA RecycleOK ==
  ASSUME PtIInv, NEW t \in PtThreads, Recycle(t)
  PROVE  PtIInv' /\ th'[t].mine = th[t].mine
<1> DEFINE to(p) == Sets(t, Looking("insert", th[t].x.m, 0, 0, p))
<1>0. hashCount \in Int /\ inactive \in Seq(BOOLEAN) /\ Len(inactive) \in Nat  BY Mover
<1>1. th[t].x.pc = "recycle" /\ tables' = tables  BY DEF Recycle, Y
<1>2. \/ \E p \in DOMAIN inactive :
           inactive[p] /\ inactive' = [inactive EXCEPT ![p] = FALSE] /\ to(p) /\ hashCount' = hashCount
      \/ inactive' = Append(inactive, FALSE) /\ to(Len(inactive) + 1) /\ hashCount' = hashCount
      \/ hashCount' = hashCount - 1 /\ Returns(t, NoProducer) /\ inactive' = inactive
  BY DEF Recycle, Y, Hash
<1> HIDE DEF to
<1>3. CASE \E p \in DOMAIN inactive :
             inactive[p] /\ inactive' = [inactive EXCEPT ![p] = FALSE] /\ to(p) /\ hashCount' = hashCount
  <2>1. PICK p \in DOMAIN inactive :
          inactive[p] /\ inactive' = [inactive EXCEPT ![p] = FALSE] /\ to(p) /\ hashCount' = hashCount
    BY <1>3
  <2>2. p \in Nat \ {0} /\ p \in 1..Len(inactive)  BY <1>0
  <2>3. inactive' \in Seq(BOOLEAN) /\ Len(inactive') = Len(inactive)  BY <1>0, <2>1
  <2>4. ~inactive'[p] /\ \A q \in 1..Len(inactive) : q # p => (inactive'[q] <=> inactive[q])
    BY <1>0, <2>1, <2>2
  <2>5. \A q \in 1..Len(inactive) : ~inactive[q] => q # p /\ q \in 1..Len(inactive') /\ ~inactive'[q]
    BY <2>1, <2>3, <2>4
  <2> QED  BY <2>1, <2>2, <2>3, <2>4, <2>5, <1>0, <1>1, TakesOK DEF to
<1>4. CASE inactive' = Append(inactive, FALSE) /\ to(Len(inactive) + 1) /\ hashCount' = hashCount
  <2> DEFINE p == Len(inactive) + 1
  <2>1. p \in Nat \ {0}  BY <1>0
  <2>2. inactive' \in Seq(BOOLEAN) /\ Len(inactive') = p  BY <1>0, <1>4
  <2>3. inactive'[p] = FALSE /\ \A q \in 1..Len(inactive) : inactive'[q] = inactive[q]
    BY <1>0, <1>4
  <2>4. p \in 1..Len(inactive') /\ ~inactive'[p]  BY <2>1, <2>2, <2>3
  <2>5. \A q \in 1..Len(inactive) : ~inactive[q] => q # p /\ q \in 1..Len(inactive') /\ ~inactive'[q]
    BY <1>0, <2>2, <2>3
  <2> QED  BY <2>1, <2>2, <2>4, <2>5, <1>0, <1>1, <1>4, TakesOK DEF to
<1>5. CASE hashCount' = hashCount - 1 /\ Returns(t, NoProducer) /\ inactive' = inactive
  <2>1. hashCount' \in Int  BY <1>0, <1>5
  <2> QED  BY <2>1, <1>1, <1>5, ReturnsNothing
<1> QED  BY <1>2, <1>3, <1>4, <1>5

LEMMA InsertOK ==
  ASSUME PtIInv, NEW t \in PtThreads, Insert(t)
  PROVE  PtIInv' /\ th[t].mine = NoProducer
<1> DEFINE x == th[t].x
           mine == th[t].mine
<1>0. /\ TablesOK(tables) /\ hashCount \in Int
      /\ x.m \in Nat /\ x.p \in Nat /\ PlaceOK(tables, t, x, mine) /\ EntriesOK(tables, t, mine)
  BY Mover
<1>1. x.pc = "insert" /\ inactive' = inactive  BY DEF Insert, Y
<1>2. CameTo(tables, t, x.m, x.i) /\ mine = NoProducer /\ x.p # NoProducer
  BY <1>0, <1>1 DEF PlaceOK
<1>3. x.m \in 1..Len(tables) /\ x.i \in 0..(tables[x.m].cap - 1)  BY <1>2 DEF CameTo
<1>4. ~Has(tables, t, x.m)  BY <1>0, <1>2, <1>3 DEF Has, EntriesOK
<1>5. CASE KeyAt(t, x.m) \in {EmptyKey, TombKey}
  <2>1. Fill(t, x.m, t, x.p) /\ Returns(t, x.p)  BY <1>5 DEF Insert, Y
  <2>2. hashCount' \in Int  BY <1>0, <1>5 DEF Insert, Y
  <2>3. x.p \in Nat \ {0}  BY <1>0, <1>2 DEF NoProducer
  <2>4. PtIInv'  BY <2>1, <2>2, <2>3, <1>0, <1>1, <1>2, <1>4, <1>5, EntersOK
  <2> QED  BY <2>4, <1>2
<1>6. CASE KeyAt(t, x.m) \notin {EmptyKey, TombKey}
  <2> DEFINE y == Looking("insert", x.m, 0, NextSlot(t, x.m), x.p)
  <2>1. /\ tables' = tables /\ hashCount' = hashCount
        /\ th' = [th EXCEPT ![t] = [x |-> y, mine |-> mine]]
    BY <1>6 DEF Insert, Y, Sets
  <2>2. /\ KeyAt(t, x.m) = tables[x.m].key[x.i] /\ NextSlot(t, x.m) \in Nat
        /\ NextSlot(t, x.m) = (x.i + 1) % tables[x.m].cap
    BY <1>2, SlotOf
  <2>3. tables[x.m].key[x.i] # t  BY <1>4, <1>3 DEF Has
  <2>4. CameTo(tables, t, x.m, NextSlot(t, x.m))  BY <1>0, <1>2, <1>6, <2>2, <2>3, GoOn
  <2>p. x.m \in Nat /\ x.p \in Nat  BY <1>0
  <2> HIDE DEF x, mine
  <2>5. y \in PtCall /\ y.pc = "insert" /\ y.m = x.m /\ y.i = NextSlot(t, x.m) /\ y.p = x.p
    BY <2>2, <2>p DEF Looking, PtCall
  <2> HIDE DEF y
  <2>6. PlaceOK(tables, t, y, mine)  BY <1>2, <2>4, <2>5 DEF PlaceOK
  <2>7. PtIInv'  BY <2>1, <2>5, <2>6, <1>0, <1>1, OnlyMoves DEF x, mine
  <2> QED  BY <2>7, <1>2 DEF mine
<1> QED  BY <1>5, <1>6

LEMMA ExitOK ==
  ASSUME PtIInv, NEW t \in PtThreads, Exit(t)
  PROVE  PtIInv' /\ th'[t].mine = th[t].mine
<1> DEFINE L == Len(tables)
           x == Looking("exit", 0, L, 0, NoProducer)
<1>0. /\ TablesOK(tables) /\ L \in Nat \ {0} /\ hashCount \in Int
      /\ th \in [PtThreads -> [x : PtCall, mine : Nat]]
  BY Mover
<1>1. /\ th[t].x.pc = "idle" /\ th[t].mine # NoProducer
      /\ tables' = tables /\ inactive' = inactive /\ hashCount' \in Int
      /\ th' = [th EXCEPT ![t] = [x |-> x, mine |-> th[t].mine]]
  BY <1>0 DEF Exit, Sets, Y, Hash
<1>2. x \in PtCall /\ x.pc = "exit" /\ x.tbl = L /\ x.i = 0
  BY <1>0 DEF Looking, PtCall, NoProducer
<1>3. CameTo(tables, t, L, 0)  BY <1>0, StartAt
<1>4. NotAbove(tables, t, L)  BY <1>0 DEF NotAbove
<1> HIDE DEF x
<1>5. PlaceOK(tables, t, x, th[t].mine)  BY <1>1, <1>2, <1>3, <1>4 DEF PlaceOK
<1>6. PtIInv'  BY <1>1, <1>2, <1>5, OnlyMoves
<1> QED  BY <1>0, <1>1, <1>6

\* The places of a thread that has looked through all tables above k.
LEMMA ExitPlace ==
  ASSUME NEW T, TablesOK(T), NEW t \in PtThreads, NEW k \in Nat, k < Len(T), NotAbove(T, t, k),
         NEW mine \in Nat \ {0}, NEW y,
         \/ k = 0 /\ y = Growing("recyclable", 0, 0)
         \/ k > 0 /\ y = Looking("exit", 0, k, 0, NoProducer)
  PROVE  y \in PtCall /\ y.pc \in {"exit", "recyclable"} /\ PlaceOK(T, t, y, mine)
<1>0. Len(T) \in Nat  BY TablesFacts
<1>1. CASE k = 0 /\ y = Growing("recyclable", 0, 0)
  <2>1. y \in PtCall /\ y.pc = "recyclable"  BY <1>1 DEF Growing, PtCall, NoProducer
  <2>2. NotAbove(T, t, 0)  BY <1>1
  <2> QED  BY <2>1, <2>2 DEF PlaceOK, NoProducer
<1>2. CASE k > 0 /\ y = Looking("exit", 0, k, 0, NoProducer)
  <2>1. y \in PtCall /\ y.pc = "exit" /\ y.tbl = k /\ y.i = 0
    BY <1>2 DEF Looking, PtCall, NoProducer
  <2>2. CameTo(T, t, k, 0)  BY <1>0, <1>2, StartAt
  <2> QED  BY <2>1, <2>2 DEF PlaceOK, NoProducer
<1> QED  BY <1>1, <1>2

LEMMA ExitProbeOK ==
  ASSUME PtIInv, NEW t \in PtThreads, ExitProbe(t)
  PROVE  PtIInv' /\ th'[t].mine = th[t].mine
<1> DEFINE x == th[t].x
           mine == th[t].mine
           k == tables[x.tbl].key[x.i]
           v == tables[x.tbl].val[x.i]
<1>0. /\ TablesOK(tables) /\ Len(tables) \in Nat \ {0} /\ hashCount \in Int
      /\ inactive \in Seq(BOOLEAN) /\ th \in [PtThreads -> [x : PtCall, mine : Nat]]
      /\ x.tbl \in Nat /\ mine \in Nat
      /\ PlaceOK(tables, t, x, mine) /\ EntriesOK(tables, t, mine)
  BY Mover
<1>1. x.pc = "exit" /\ inactive' = inactive /\ hashCount' \in Int /\ inactive' \in Seq(BOOLEAN)
  BY <1>0 DEF ExitProbe, Y
<1>2. CameTo(tables, t, x.tbl, x.i) /\ NotAbove(tables, t, x.tbl) /\ mine # NoProducer
  BY <1>0, <1>1 DEF PlaceOK
<1>3. x.tbl \in 1..Len(tables) /\ x.i \in 0..(tables[x.tbl].cap - 1)  BY <1>2 DEF CameTo
<1>4. /\ ProbedSlot(t, x.tbl) = x.i
      /\ KeyAt(t, x.tbl) = k /\ ValAt(t, x.tbl) = v /\ NextSlot(t, x.tbl) \in Nat
      /\ NextSlot(t, x.tbl) = (x.i + 1) % tables[x.tbl].cap
  BY <1>2, SlotOf
<1>n. x.tbl \in Nat \ {0} /\ mine \in Nat \ {0} /\ x.tbl - 1 \in Nat /\ x.tbl - 1 < Len(tables)
  BY <1>0, <1>2, <1>3 DEF NoProducer
<1>t. t # EmptyKey /\ TombKey \in PtKeys /\ TombKey # EmptyKey
      /\ \A u \in PtThreads : u # TombKey
  BY PtAssumption DEF PtKeys
<1>5. CASE k \in {t, EmptyKey}
  <2>1. PICK y : /\ \/ x.tbl - 1 = 0 /\ y = Growing("recyclable", 0, 0)
                    \/ x.tbl - 1 > 0 /\ y = Looking("exit", 0, x.tbl - 1, 0, NoProducer)
                 /\ th' = [th EXCEPT ![t] = [x |-> y, mine |-> mine]]
    <3>1. \/ x.tbl = 1 /\ Sets(t, Growing("recyclable", 0, 0))
          \/ x.tbl > 1 /\ Sets(t, Looking("exit", 0, x.tbl - 1, 0, NoProducer))
      BY <1>4, <1>5 DEF ExitProbe, Y, Hash
    <3>2. CASE x.tbl = 1 /\ Sets(t, Growing("recyclable", 0, 0))
      <4>1. /\ x.tbl - 1 = 0
            /\ th' = [th EXCEPT ![t] = [x |-> Growing("recyclable", 0, 0), mine |-> mine]]
        BY <3>2 DEF Sets
      <4> QED  BY <4>1
    <3>3. CASE x.tbl > 1 /\ Sets(t, Looking("exit", 0, x.tbl - 1, 0, NoProducer))
      <4>1. /\ x.tbl - 1 > 0
            /\ th' = [th EXCEPT ![t] = [x |-> Looking("exit", 0, x.tbl - 1, 0, NoProducer),
                                        mine |-> mine]]
        BY <3>3, <1>n DEF Sets
      <4> QED  BY <4>1
    <3> QED  BY <3>1, <3>2, <3>3
  <2>2. CASE k = t
    <3>1. Fill(t, x.tbl, TombKey, v)  BY <1>4, <2>2 DEF ExitProbe, Y
    <3>2. tables' = Filled(tables, x.tbl, x.i, TombKey, v)  BY <3>1, <1>4 DEF Fill, Filled
    <3>v. v \in Nat  BY <1>0, <1>3, <2>2 DEF EntriesOK
    <3> HIDE DEF x, mine, k, v
    <3>3. /\ EntriesOK(tables', t, mine) /\ NotAbove(tables', t, x.tbl - 1) /\ TablesOK(tables')
          /\ Len(tables') = Len(tables)
      BY <1>0, <1>2, <1>n, <2>2, <3>2, <3>v, TombFilled DEF k
    <3>4. y \in PtCall /\ y.pc \in {"exit", "recyclable"} /\ PlaceOK(tables', t, y, mine)
      BY <1>n, <2>1, <3>3, ExitPlace
    <3> DEFINE r == [x |-> y, mine |-> mine]
    <3>5. r \in [x : PtCall, mine : Nat] /\ r.x = y /\ r.mine = mine /\ th' = [th EXCEPT ![t] = r]
      BY <1>n, <2>1, <3>4
    <3> HIDE DEF r
    <3>6. EntryLeft(tables', t, y, mine)  BY <3>4 DEF EntryLeft
    <3>7. ThreadOK(tables', t, r)  BY <3>3, <3>4, <3>5, <3>6 DEF ThreadOK
    <3>8. ASSUME NEW u \in PtThreads, u # t PROVE SameFor(tables, tables', u)
      <4>1. tables[x.tbl].key[x.i] # u  BY <2>2, <3>8 DEF k
      <4> QED  BY <4>1, <1>0, <1>3, <1>t, <3>2, <3>v, FilledSame
    <3>9. Own(r) = Own(th[t])  BY <1>1, <3>4, <3>5 DEF Own, x, mine
    <3>10. OwnedOnce'  BY <1>1, <3>5, <3>9, OwnKept
    <3>11. TablesOK(tables)'  BY <3>3 DEF TablesOK
    <3>12. PtIInv'  BY <1>1, <3>5, <3>7, <3>8, <3>10, <3>11, StepKeeps
    <3>13. th'[t].mine = mine  BY <1>0, <3>5
    <3> QED  BY <3>12, <3>13 DEF mine
  <2>3. CASE k = EmptyKey
    <3>1. tables' = tables  BY <1>4, <1>t, <2>3 DEF ExitProbe, Y
    <3> HIDE DEF x, mine, k, v
    <3>2. ~Has(tables, t, x.tbl)  BY <1>0, <1>2, <2>3, NotHere DEF k
    <3>3. NotAbove(tables, t, x.tbl - 1)  BY <1>0, <1>2, <1>n, <3>2, OneDown
    <3>4. y \in PtCall /\ y.pc \in {"exit", "recyclable"} /\ PlaceOK(tables, t, y, mine)
      BY <1>0, <1>n, <2>1, <3>3, ExitPlace
    <3>5. y.pc # "insert" /\ x.pc # "insert"  BY <1>1, <3>4
    <3>6. PtIInv'  BY <1>1, <2>1, <3>1, <3>4, <3>5, OnlyMoves DEF x, mine
    <3>7. th'[t].mine = mine  BY <1>0, <2>1
    <3> QED  BY <3>6, <3>7 DEF mine
  <2> QED  BY <1>5, <2>2, <2>3
<1>6. CASE k \notin {t, EmptyKey}
  <2> DEFINE y == Looking("exit", 0, x.tbl, NextSlot(t, x.tbl), NoProducer)
  <2>1. tables' = tables /\ th' = [th EXCEPT ![t] = [x |-> y, mine |-> mine]]
    BY <1>4, <1>6 DEF ExitProbe, Y, Sets
  <2>2. CameTo(tables, t, x.tbl, NextSlot(t, x.tbl))  BY <1>0, <1>2, <1>4, <1>6, GoOn
  <2> HIDE DEF x, mine, k, v
  <2>3. y \in PtCall /\ y.pc = "exit" /\ y.tbl = x.tbl /\ y.i = NextSlot(t, x.tbl)
    BY <1>n, <1>4 DEF Looking, PtCall, NoProducer
  <2> HIDE DEF y
  <2>4. PlaceOK(tables, t, y, mine)  BY <1>2, <2>2, <2>3 DEF PlaceOK
  <2>5. PtIInv'  BY <1>1, <2>1, <2>3, <2>4, OnlyMoves DEF x, mine
  <2>6. th'[t].mine = mine  BY <1>0, <2>1
  <2> QED  BY <2>5, <2>6 DEF mine
<1> QED  BY <1>5, <1>6

LEMMA MarkInactiveOK ==
  ASSUME PtIInv, NEW t \in PtThreads, MarkInactive(t)
  PROVE  PtIInv' /\ th'[t].mine = NoProducer
<1> DEFINE mine == th[t].mine
           r == [x |-> NotInCall, mine |-> NoProducer]
<1>0. /\ TablesOK(tables) /\ hashCount \in Int /\ inactive \in Seq(BOOLEAN)
      /\ th \in [PtThreads -> [x : PtCall, mine : Nat]]
      /\ PlaceOK(tables, t, th[t].x, mine) /\ OwnedOnce
  BY Mover DEF PtIInv
<1>1. /\ th[t].x.pc = "recyclable" /\ tables' = tables /\ hashCount' = hashCount
      /\ inactive' = [inactive EXCEPT ![mine] = TRUE] /\ th' = [th EXCEPT ![t] = r]
  BY DEF MarkInactive, Y
<1>2. mine # NoProducer /\ NotAbove(tables, t, 0)  BY <1>0, <1>1 DEF PlaceOK
<1>3. Own(th[t]) = mine  BY <1>1 DEF Own
<1>4. mine \in 1..Len(inactive)  BY <1>0, <1>2, <1>3 DEF OwnedOnce
<1>5. r \in [x : PtCall, mine : Nat] /\ r.x = NotInCall /\ r.mine = NoProducer
  BY IdleIs DEF NoProducer
<1> HIDE DEF r
<1>6. EntriesOK(tables, t, NoProducer)
  <2> SUFFICES ASSUME NEW n \in 1..Len(tables), NEW i \in 0..(tables[n].cap - 1), tables[n].key[i] = t
               PROVE  FALSE
    BY DEF EntriesOK
  <2>1. n \in (0 + 1)..Len(tables)  OBVIOUS
  <2> QED  BY <2>1, <1>2 DEF NotAbove, Has
<1>7. ThreadOK(tables', t, r)
  BY <1>1, <1>5, <1>6, IdleIs DEF ThreadOK, PlaceOK, EntryLeft
<1>8. inactive' \in Seq(BOOLEAN) /\ Len(inactive') = Len(inactive)
      /\ \A q \in 1..Len(inactive) : q # mine => (inactive'[q] <=> inactive[q])
  BY <1>0, <1>1, <1>4
<1>9. OwnedOnce'
  <2>1. th'[t] = r /\ \A u \in PtThreads : u # t => th'[u] = th[u]  BY <1>0, <1>1
  <2>2. Own(th'[t]) = NoProducer  BY <2>1, <1>5, IdleIs DEF Own
  <2>3. ASSUME NEW u \in PtThreads, Own(th'[u]) # NoProducer
        PROVE  u # t /\ Own(th'[u]) \in 1..Len(inactive') /\ ~inactive'[Own(th'[u])]
    <3>1. u # t /\ th'[u] = th[u]  BY <2>1, <2>2, <2>3
    <3>2. Own(th[u]) \in 1..Len(inactive) /\ ~inactive[Own(th[u])] /\ Own(th[u]) # mine
      BY <3>1, <2>3, <1>0, <1>2, <1>3 DEF OwnedOnce
    <3> QED  BY <3>1, <3>2, <1>8
  <2>4. ASSUME NEW u \in PtThreads, NEW w \in PtThreads, u # w, Own(th'[u]) # NoProducer
        PROVE  Own(th'[u]) # Own(th'[w])
    <3>1. u # t /\ th'[u] = th[u]  BY <2>1, <2>3, <2>4
    <3>2. CASE w = t  BY <3>2, <2>2, <2>4
    <3>3. CASE w # t  BY <3>1, <3>3, <2>1, <2>4, <1>0 DEF OwnedOnce
    <3> QED  BY <3>2, <3>3
  <2> QED  BY <2>3, <2>4 DEF OwnedOnce
<1>10. \A u \in PtThreads : SameFor(tables, tables', u)  BY <1>0, <1>1, SameTables
<1>11. TablesOK(tables)' /\ hashCount' \in Int  BY <1>0, <1>1 DEF TablesOK
<1>12. PtIInv'  BY <1>1, <1>5, <1>7, <1>8, <1>9, <1>10, <1>11, StepKeeps
<1>13. th'[t].mine = NoProducer  BY <1>0, <1>1, <1>5
<1> QED  BY <1>12, <1>13

-----------------------------------------------------------------------------
\* No step gives a thread that has a producer another one.
ProducerKept ==
  \A t \in PtThreads : th[t].mine # NoProducer => th'[t].mine \in {th[t].mine, NoProducer}

LEMMA PtStep ==
  ASSUME PtIInv, [PtNext]_ptVars
  PROVE  PtIInv' /\ ProducerKept
<1>1. ASSUME NEW t \in PtThreads,
             \/ GetOrAdd(t) \/ Probe(t) \/ LazyAdd(t) \/ CountSlot(t) \/ LockResize(t) \/ Resize(t)
             \/ Fit(t) \/ Recycle(t) \/ Insert(t) \/ Exit(t) \/ ExitProbe(t) \/ MarkInactive(t)
      PROVE  PtIInv' /\ ProducerKept
  <2>0. th \in [PtThreads -> [x : PtCall, mine : Nat]]  BY DEF PtIInv, PtKinds
  <2>1. PtIInv' /\ (\/ th'[t].mine = th[t].mine \/ th[t].mine = NoProducer
                    \/ th'[t].mine = NoProducer)
    <3>1. CASE GetOrAdd(t)
      <4>1. PtIInv'  BY <3>1, GetOrAddOK
      <4>2. th'[t].mine = th[t].mine  BY <3>1, <2>0 DEF GetOrAdd, Sets
      <4> QED  BY <4>1, <4>2
    <3>2. CASE Probe(t)  BY <3>2, ProbeOK
    <3>3. CASE LazyAdd(t)  BY <3>3, LazyAddOK
    <3>4. CASE CountSlot(t) \/ LockResize(t) \/ Fit(t)  BY <3>4, CountLockFitOK
    <3>5. CASE Resize(t)  BY <3>5, ResizeOK
    <3>6. CASE Recycle(t)  BY <3>6, RecycleOK
    <3>7. CASE Insert(t)  BY <3>7, InsertOK
    <3>8. CASE Exit(t)  BY <3>8, ExitOK
    <3>9. CASE ExitProbe(t)  BY <3>9, ExitProbeOK
    <3>10. CASE MarkInactive(t)  BY <3>10, MarkInactiveOK
    <3> QED  BY <1>1, <3>1, <3>2, <3>3, <3>4, <3>5, <3>6, <3>7, <3>8, <3>9, <3>10
  <2>2. \E r : th' = [th EXCEPT ![t] = r]
    BY <1>1 DEF GetOrAdd, Probe, LazyAdd, CountSlot, LockResize, Resize, Fit, Recycle, Insert, Exit,
                ExitProbe, MarkInactive, Sets, Returns
  <2>3. \A u \in PtThreads : u # t => th'[u] = th[u]  BY <2>0, <2>2
  <2>4. ProducerKept
    <3> SUFFICES ASSUME NEW u \in PtThreads, th[u].mine # NoProducer
                 PROVE  th'[u].mine = th[u].mine \/ th'[u].mine = NoProducer
      BY DEF ProducerKept
    <3>1. CASE u = t  BY <3>1, <2>1
    <3>2. CASE u # t  BY <3>2, <2>3
    <3> QED  BY <3>1, <3>2
  <2> QED  BY <2>1, <2>4
<1>2. CASE UNCHANGED ptVars
  <2>1. /\ tables' = tables /\ hashCount' = hashCount /\ inactive' = inactive /\ th' = th
    BY <1>2 DEF ptVars
  <2>2. PtIInv'
    BY <2>1 DEF PtIInv, PtKinds, TablesOK, OwnedOnce
  <2>3. ProducerKept  BY <2>1 DEF ProducerKept
  <2> QED  BY <2>2, <2>3
<1> QED  BY <1>1, <1>2 DEF PtNext

(* The entries that get_or_add_implicit_producer leaves in the tables lead *)
(* each thread to its own producer, for as long as it has not exited.      *)
THEOREM PtInvariance == PtSpec => []PtIInv
<1>1. PtIInv /\ [PtNext]_ptVars => PtIInv'  BY PtStep
<1> QED  BY <1>1, PtInitOK, PTL DEF PtSpec

(* A producer serves one thread at a time: the one that it was given to in *)
(* recycle_or_create_producer, until that thread has exited.               *)
THEOREM OneThreadPerProducerHolds == PtSpec => []OneThreadPerProducer
<1>1. PtIInv => OneThreadPerProducer
  <2> SUFFICES ASSUME PtIInv, NEW t \in PtThreads, NEW u \in PtThreads, t # u,
                      th[t].mine # NoProducer, th[t].mine = th[u].mine
               PROVE  FALSE
    BY DEF OneThreadPerProducer
  <2>1. th[t].x.pc # "insert" /\ th[u].x.pc # "insert"  BY Mover DEF PlaceOK
  <2>2. Own(th[t]) = th[t].mine /\ Own(th[u]) = th[u].mine  BY <2>1 DEF Own
  <2> QED  BY <2>2 DEF PtIInv, OwnedOnce
<1> QED  BY <1>1, PtInvariance, PTL

(* get_or_add_implicit_producer returns to a thread the producer it had,   *)
(* whatever tables were added and whatever other threads came and went.    *)
THEOREM SameProducerAgainHolds == PtSpec => SameProducerAgain
<1>1. PtIInv /\ [PtNext]_ptVars
        => [\A t \in PtThreads : th[t].mine # NoProducer
              => th'[t].mine \in {th[t].mine, NoProducer}]_ptVars
  BY PtStep DEF ProducerKept
<1> QED  BY <1>1, PtInvariance, PTL DEF PtSpec, SameProducerAgain
=============================================================================
