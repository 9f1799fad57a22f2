--------------------------- MODULE MutexQueueProofs ---------------------------
(***************************************************************************)
(* Proofs about ProducerConsumerQueue, and about DnsResolver, whose        *)
(* threads are fed through such queues: for any number of threads, items   *)
(* and requests, and any limits.                                           *)
(***************************************************************************)
EXTENDS ProducerConsumerQueue, DnsResolver, FiniteSetTheorems, SequenceTheorems, TLAPS

-----------------------------------------------------------------------------
(* Lemmas on sequences                                                     *)

(* What a concatenation holds, and when it holds nothing twice.            *)
LEMMA ConcatHolds ==
  ASSUME NEW S, NEW a \in Seq(S), NEW b \in Seq(S)
  PROVE  /\ ToSet(a \o b) = ToSet(a) \cup ToSet(b)
         /\ IsInjective(a \o b) <=>
              IsInjective(a) /\ IsInjective(b) /\ ToSet(a) \cap ToSet(b) = {}
<1> DEFINE c == a \o b
           m == Len(a)
           n == Len(b)
<1>1. /\ DOMAIN a = 1 .. m /\ DOMAIN b = 1 .. n /\ DOMAIN c = 1 .. m + n
      /\ m \in Nat /\ n \in Nat
      /\ \A i \in 1 .. m : c[i] = a[i]
      /\ \A i \in 1 .. m + n : i > m => c[i] = b[i - m]
  BY ConcatProperties
<1> HIDE DEF c, m, n
<1>2. \A i \in DOMAIN c : \/ i \in DOMAIN a /\ c[i] = a[i]
                          \/ i - m \in DOMAIN b /\ c[i] = b[i - m]
  BY <1>1
<1>3. \A i \in DOMAIN a : i \in DOMAIN c /\ c[i] = a[i]
  BY <1>1
<1>4. \A i \in DOMAIN b : i + m \in DOMAIN c /\ c[i + m] = b[i]
  <2>1. \A i \in 1 .. n : i + m \in 1 .. m + n /\ i + m > m /\ (i + m) - m = i
    BY <1>1
  <2>2. QED
    BY <1>1, <2>1
<1>5. ToSet(c) = ToSet(a) \cup ToSet(b)
  BY <1>2, <1>3, <1>4 DEF ToSet
<1>6. ASSUME IsInjective(c)
      PROVE  IsInjective(a) /\ IsInjective(b) /\ ToSet(a) \cap ToSet(b) = {}
  <2>1. IsInjective(a)
    BY <1>3, <1>6 DEF IsInjective
  <2>2. IsInjective(b)
    <3>1. ASSUME NEW i \in DOMAIN b, NEW j \in DOMAIN b, b[i] = b[j] PROVE i = j
      <4>1. i + m = j + m
        BY <1>4, <1>6, <3>1 DEF IsInjective
      <4>2. QED
        BY <1>1, <4>1
    <3>2. QED
      BY <3>1 DEF IsInjective
  <2>3. ASSUME NEW i \in DOMAIN a, NEW j \in DOMAIN b, a[i] = b[j] PROVE FALSE
    <3>1. i = j + m
      BY <1>3, <1>4, <1>6, <2>3 DEF IsInjective
    <3>2. QED
      BY <1>1, <3>1
  <2>4. QED
    BY <2>1, <2>2, <2>3 DEF ToSet
<1>7. ASSUME IsInjective(a), IsInjective(b), ToSet(a) \cap ToSet(b) = {}
      PROVE  IsInjective(c)
  <2>1. \A i \in DOMAIN a, j \in DOMAIN b : a[i] # b[j]
    BY <1>7 DEF ToSet
  <2>2. ASSUME NEW i \in DOMAIN c, NEW j \in DOMAIN c, c[i] = c[j] PROVE i = j
    <3>1. CASE i \in DOMAIN a /\ c[i] = a[i] /\ j \in DOMAIN a /\ c[j] = a[j]
      BY <1>7, <2>2, <3>1 DEF IsInjective
    <3>2. CASE i - m \in DOMAIN b /\ c[i] = b[i - m] /\ j - m \in DOMAIN b /\ c[j] = b[j - m]
      <4>1. i - m = j - m
        BY <1>7, <2>2, <3>2 DEF IsInjective
      <4>2. QED
        BY <1>1, <4>1
    <3>3. QED
      BY <1>2, <2>1, <2>2, <3>1, <3>2
  <2>3. QED
    BY <2>2 DEF IsInjective
<1>8. QED
  BY <1>5, <1>6, <1>7 DEF c

(* push_back and push_front of one item that is not there.                 *)
LEMMA OneMore ==
  ASSUME NEW S, NEW s \in Seq(S), NEW x \in S
  PROVE  /\ Append(s, x) \in Seq(S) /\ <<x>> \o s \in Seq(S)
         /\ Len(Append(s, x)) = Len(s) + 1 /\ Len(<<x>> \o s) = Len(s) + 1
         /\ ToSet(Append(s, x)) = ToSet(s) \cup {x}
         /\ ToSet(<<x>> \o s) = ToSet(s) \cup {x}
         /\ x \notin ToSet(s) /\ IsInjective(s) =>
              IsInjective(Append(s, x)) /\ IsInjective(<<x>> \o s)
<1>1. <<x>> \in Seq(S) /\ Len(<<x>>) = 1 /\ Append(s, x) = s \o <<x>>
  BY AppendIsConcat
<1>2. ToSet(<<x>>) = {x} /\ IsInjective(<<x>>)
  <2>1. DOMAIN <<x>> = {1} /\ <<x>>[1] = x
    OBVIOUS
  <2>2. QED
    BY <2>1 DEF ToSet, IsInjective
<1>3. /\ s \o <<x>> \in Seq(S) /\ <<x>> \o s \in Seq(S)
      /\ Len(s \o <<x>>) = Len(s) + 1 /\ Len(<<x>> \o s) = Len(s) + 1
  BY <1>1, ConcatProperties
<1>4. /\ ToSet(s \o <<x>>) = ToSet(s) \cup {x} /\ ToSet(<<x>> \o s) = ToSet(s) \cup {x}
      /\ x \notin ToSet(s) /\ IsInjective(s) =>
           IsInjective(s \o <<x>>) /\ IsInjective(<<x>> \o s)
  <2>1. /\ ToSet(s \o <<x>>) = ToSet(s) \cup {x}
        /\ IsInjective(s \o <<x>>) <=> IsInjective(s) /\ ToSet(s) \cap {x} = {}
    BY <1>1, <1>2, ConcatHolds
  <2>2. /\ ToSet(<<x>> \o s) = {x} \cup ToSet(s)
        /\ IsInjective(<<x>> \o s) <=> IsInjective(s) /\ {x} \cap ToSet(s) = {}
    BY <1>1, <1>2, ConcatHolds
  <2>3. QED
    BY <2>1, <2>2
<1>5. QED
  BY <1>1, <1>3, <1>4

(* push_back adds one item.                                                *)
LEMMA AppendHolds ==
  ASSUME NEW S, NEW s \in Seq(S), NEW x \in S
  PROVE  \A z : z \in ToSet(Append(s, x)) <=> z \in ToSet(s) \/ z = x
<1>1. /\ DOMAIN s = 1 .. Len(s) /\ DOMAIN Append(s, x) = 1 .. Len(s) + 1 /\ Len(s) \in Nat
      /\ \A i \in 1 .. Len(s) : Append(s, x)[i] = s[i]
      /\ Append(s, x)[Len(s) + 1] = x
  OBVIOUS
<1>2. DOMAIN Append(s, x) = DOMAIN s \cup {Len(s) + 1}
  BY <1>1
<1>3. QED
  BY <1>1, <1>2 DEF ToSet

(* pop_front.                                                              *)
LEMMA OneLess ==
  ASSUME NEW S, NEW s \in Seq(S), s # <<>>
  PROVE  /\ Head(s) \in S /\ Tail(s) \in Seq(S) /\ Len(Tail(s)) = Len(s) - 1
         /\ Len(s) \in Nat \ {0} /\ s = <<Head(s)>> \o Tail(s)
         /\ ToSet(s) = {Head(s)} \cup ToSet(Tail(s))
         /\ IsInjective(s) => IsInjective(Tail(s)) /\ Head(s) \notin ToSet(Tail(s))
<1>1. Head(s) \in S /\ Tail(s) \in Seq(S) /\ Len(Tail(s)) = Len(s) - 1 /\ Len(s) \in Nat \ {0}
  BY HeadTailProperties
<1>2. s = <<Head(s)>> \o Tail(s)
  BY <1>1
<1>3. <<Head(s)>> \in Seq(S) /\ ToSet(<<Head(s)>>) = {Head(s)}
  <2>1. DOMAIN <<Head(s)>> = {1} /\ <<Head(s)>>[1] = Head(s)
    OBVIOUS
  <2>2. QED
    BY <1>1, <2>1 DEF ToSet
<1>4. /\ ToSet(<<Head(s)>> \o Tail(s)) = {Head(s)} \cup ToSet(Tail(s))
      /\ IsInjective(<<Head(s)>> \o Tail(s)) =>
           IsInjective(Tail(s)) /\ Head(s) \notin ToSet(Tail(s))
  BY <1>1, <1>3, ConcatHolds
<1>5. QED
  BY <1>1, <1>2, <1>4

-----------------------------------------------------------------------------
(* ProducerConsumerQueue: the inductive invariant                          *)

(* A producer that waits for space holds an item of its own, which is      *)
(* neither in the queue's past nor given back.                             *)
WaitingItems ==
    \A p \in Producers : putting[p] # NoPut =>
        /\ putting[p].item \in Items /\ putting[p].at_front \in PutEnds
        /\ putting[p].item \notin ToSet(accepted) \cup returned
        /\ \A q \in Producers : putting[q].item = putting[p].item => q = p

(* Conserved, with what left the queue told apart from what is in it.      *)
Apart ==
    /\ IsInjective(accepted) /\ IsInjective(out) /\ IsInjective(data)
    /\ ToSet(out) \cap ToSet(data) = {}
    /\ ToSet(accepted) = ToSet(out) \cup ToSet(data)
    /\ ToSet(accepted) \cap returned = {}

PcqIInv == PcqTypeOK /\ Apart /\ FifoOrder /\ NeverOverfull /\ WaitingItems

(* Apart says of out and data what Conserved says of their concatenation.  *)
LEMMA ApartIsConserved == PcqTypeOK => (Apart <=> Conserved)
<1> SUFFICES ASSUME PcqTypeOK PROVE Apart <=> Conserved
  OBVIOUS
<1>1. out \in Seq(Items) /\ data \in Seq(Items)
  BY DEF PcqTypeOK
<1>2. /\ ToSet(out \o data) = ToSet(out) \cup ToSet(data)
      /\ IsInjective(out \o data) <=>
           IsInjective(out) /\ IsInjective(data) /\ ToSet(out) \cap ToSet(data) = {}
  BY <1>1, ConcatHolds
<1>3. QED
  BY <1>2 DEF Apart, Conserved

LEMMA PcqInitIInv == PcqInit => PcqIInv
<1> SUFFICES ASSUME PcqInit PROVE PcqIInv
  OBVIOUS
<1>1. /\ data = <<>> /\ accepted = <<>> /\ out = <<>> /\ returned = {}
      /\ putting = [p \in Producers |-> NoPut] /\ getting = [c \in Consumers |-> "no"]
  BY DEF PcqInit
<1>2. PcqTypeOK
  <2>1. NoPut \in [item : Items \cup {None}, at_front : BOOLEAN]
    BY DEF NoPut
  <2>2. QED
    BY <1>1, <2>1 DEF PcqTypeOK
<1>3. ToSet(<<>>) = {} /\ IsInjective(<<>>)
  BY DEF ToSet, IsInjective
<1>4. Apart
  BY <1>1, <1>3 DEF Apart
<1>5. FifoOrder
  BY <1>1 DEF FifoOrder
<1>6. NeverOverfull /\ WaitingItems
  BY <1>1, SizeAssumption DEF NeverOverfull, WaitingItems
<1>7. QED
  BY <1>2, <1>4, <1>5, <1>6 DEF PcqIInv

(* PutAt with space puts a new item at either end: nothing is doubled, and *)
(* at the back it is the last to leave.                                    *)
LEMMA PlaceKeeps ==
  ASSUME PcqIInv, NEW i \in Items, i \notin ToSet(accepted) \cup returned,
         NEW f \in PutEnds, Place(i, f), out' = out, returned' = returned
  PROVE  /\ data' \in Seq(Items) /\ accepted' \in Seq(Items)
         /\ Apart' /\ FifoOrder' /\ NeverOverfull'
         /\ ToSet(accepted') = ToSet(accepted) \cup {i}
<1>1. /\ data \in Seq(Items) /\ accepted \in Seq(Items) /\ out \in Seq(Items)
      /\ Apart /\ FifoOrder /\ NeverOverfull
  BY DEF PcqIInv, PcqTypeOK
<1>2. /\ max_size = 0 \/ Len(data) < max_size
      /\ data' = (IF f THEN <<i>> \o data ELSE Append(data, i))
      /\ accepted' = Append(accepted, i)
  BY DEF Place, HasEmptySpace, PutAt
<1>3. i \notin ToSet(accepted) /\ i \notin returned /\ i \notin ToSet(data) /\ i \notin ToSet(out)
  BY <1>1 DEF Apart
<1>4. /\ accepted' \in Seq(Items) /\ ToSet(accepted') = ToSet(accepted) \cup {i}
      /\ IsInjective(accepted')
  BY <1>1, <1>2, <1>3, OneMore DEF Apart
<1>5. /\ data' \in Seq(Items) /\ ToSet(data') = ToSet(data) \cup {i}
      /\ IsInjective(data') /\ Len(data') = Len(data) + 1
  <2>1. ASSUME data' = <<i>> \o data
        PROVE  /\ data' \in Seq(Items) /\ ToSet(data') = ToSet(data) \cup {i}
               /\ IsInjective(data') /\ Len(data') = Len(data) + 1
    BY <1>1, <1>3, <2>1, OneMore DEF Apart
  <2>2. ASSUME data' = Append(data, i)
        PROVE  /\ data' \in Seq(Items) /\ ToSet(data') = ToSet(data) \cup {i}
               /\ IsInjective(data') /\ Len(data') = Len(data) + 1
    <3>1. ToSet(data') = ToSet(data) \cup {i}
      BY <1>1, <2>2, AppendHolds
    <3>2. data' \in Seq(Items) /\ IsInjective(data') /\ Len(data') = Len(data) + 1
      BY <1>1, <1>3, <2>2, OneMore DEF Apart
    <3>3. QED
      BY <3>1, <3>2
  <2>3. QED
    BY <1>2, <2>1, <2>2
<1>6. Apart'
  BY <1>1, <1>3, <1>4, <1>5 DEF Apart
<1>7. NeverOverfull'
  BY <1>1, <1>2, <1>5, SizeAssumption DEF NeverOverfull
<1>8. FifoOrder'
  <2>1. ASSUME PutEnds = {FALSE} PROVE out' \o data' = accepted'
    <3>1. data' = Append(data, i) /\ out \o data = accepted
      BY <1>1, <1>2, <2>1 DEF FifoOrder
    <3>2. <<i>> \in Seq(Items) /\ data' = data \o <<i>> /\ accepted' = accepted \o <<i>>
      <4>1. <<i>> \in Seq(Items)
        OBVIOUS
      <4>2. Append(data, i) = data \o <<i>> /\ Append(accepted, i) = accepted \o <<i>>
        BY <1>1, AppendIsConcat
      <4>3. QED
        BY <1>2, <3>1, <4>1, <4>2
    <3>3. (out \o data) \o <<i>> = out \o (data \o <<i>>)
      BY <1>1, <3>2, ConcatAssociative
    <3>4. QED
      BY <3>1, <3>2, <3>3
  <2>2. QED
    BY <2>1 DEF FifoOrder, PutEnds
<1>9. QED
  BY <1>4, <1>5, <1>6, <1>7, <1>8

(* Get and TryGet with data take the first item.                           *)
LEMMA TakeFrontKeeps ==
  ASSUME PcqIInv, TakeFront, accepted' = accepted, returned' = returned
  PROVE  /\ data' \in Seq(Items) /\ out' \in Seq(Items)
         /\ Apart' /\ FifoOrder' /\ NeverOverfull'
<1> DEFINE x == Head(data)
<1>1. /\ data \in Seq(Items) /\ accepted \in Seq(Items) /\ out \in Seq(Items)
      /\ Apart /\ FifoOrder /\ NeverOverfull
  BY DEF PcqIInv, PcqTypeOK
<1>2. data # <<>> /\ data' = Tail(data) /\ out' = Append(out, x)
  BY DEF TakeFront, HasData
<1>3. /\ x \in Items /\ data' \in Seq(Items) /\ Len(data') = Len(data) - 1 /\ Len(data) \in Nat
      /\ data = <<x>> \o data' /\ ToSet(data) = {x} \cup ToSet(data')
      /\ IsInjective(data') /\ x \notin ToSet(data')
  BY <1>1, <1>2, OneLess DEF Apart
<1> HIDE DEF x
<1>4. x \notin ToSet(out)
  BY <1>1, <1>3 DEF Apart
<1>5. out' \in Seq(Items) /\ ToSet(out') = ToSet(out) \cup {x} /\ IsInjective(out')
  BY <1>1, <1>2, <1>3, <1>4, OneMore DEF Apart
<1>6. Apart'
  BY <1>1, <1>3, <1>4, <1>5 DEF Apart
<1>7. NeverOverfull'
  BY <1>1, <1>3, SizeAssumption DEF NeverOverfull
<1>8. out' \o data' = out \o data
  <2>1. <<x>> \in Seq(Items) /\ out' = out \o <<x>>
    BY <1>1, <1>2, <1>3, AppendIsConcat
  <2>2. (out \o <<x>>) \o data' = out \o (<<x>> \o data')
    BY <1>1, <1>3, <2>1, ConcatAssociative
  <2>3. QED
    BY <1>3, <2>1, <2>2
<1>9. FifoOrder'
  BY <1>1, <1>8 DEF FifoOrder, PutEnds
<1>10. QED
  BY <1>3, <1>5, <1>6, <1>7, <1>9

(* One step of a producer or a consumer.                                   *)
LEMMA PcqNextIInv == PcqIInv /\ [PcqNext]_pcqVars => PcqIInv'
<1> SUFFICES ASSUME PcqIInv, [PcqNext]_pcqVars PROVE PcqIInv'
  OBVIOUS
<1>0. /\ PcqTypeOK /\ Apart /\ FifoOrder /\ NeverOverfull /\ WaitingItems
      /\ NoPut.item = None /\ PutEnds \subseteq BOOLEAN
      /\ NoPut \in [item : Items \cup {None}, at_front : BOOLEAN]
  BY SizeAssumption DEF PcqIInv, NoPut, PutEnds
<1>1. ASSUME NEW p \in Producers, NEW i \in Items, NEW f \in PutEnds, Put(p, i, f)
      PROVE  PcqIInv'
  <2>1. /\ putting[p] = NoPut /\ i \notin ToSet(accepted) \cup returned
        /\ \A q \in Producers : putting[q].item # i
        /\ UNCHANGED <<getting, out, returned>>
    BY <1>1 DEF Put, Unused
  <2>2. CASE HasEmptySpace(data, max_size)
    <3>1. Place(i, f) /\ putting' = putting
      BY <1>1, <2>2 DEF Put
    <3>2. /\ data' \in Seq(Items) /\ accepted' \in Seq(Items)
          /\ Apart' /\ FifoOrder' /\ NeverOverfull'
          /\ ToSet(accepted') = ToSet(accepted) \cup {i}
      BY <2>1, <3>1, PlaceKeeps
    <3>3. PcqTypeOK'
      BY <1>0, <2>1, <3>1, <3>2 DEF PcqTypeOK
    <3>4. WaitingItems'
      BY <1>0, <2>1, <3>1, <3>2 DEF WaitingItems, PutEnds
    <3>5. QED
      BY <3>2, <3>3, <3>4 DEF PcqIInv
  <2>3. CASE ~HasEmptySpace(data, max_size)
    <3> DEFINE w == [item |-> i, at_front |-> f]
    <3>1. putting' = [putting EXCEPT ![p] = w] /\ data' = data /\ accepted' = accepted
      BY <1>1, <2>3 DEF Put
    <3>2. w \in [item : Items \cup {None}, at_front : BOOLEAN] /\ w.item = i /\ w.at_front = f
      BY <1>0
    <3> HIDE DEF w
    <3>3. PcqTypeOK'
      BY <1>0, <2>1, <3>1, <3>2 DEF PcqTypeOK
    <3>4. Apart' /\ FifoOrder' /\ NeverOverfull'
      BY <1>0, <2>1, <3>1 DEF Apart, FifoOrder, NeverOverfull, PutEnds
    <3>5. putting'[p] = w /\ \A q \in Producers : q # p => putting'[q] = putting[q]
      BY <1>0, <3>1 DEF PcqTypeOK
    <3>6. WaitingItems'
      BY <1>0, <2>1, <3>1, <3>2, <3>5 DEF WaitingItems, PutEnds
    <3>7. QED
      BY <3>3, <3>4, <3>6 DEF PcqIInv
  <2>4. QED
    BY <2>2, <2>3
<1>2. ASSUME NEW p \in Producers, PutWakes(p) PROVE PcqIInv'
  <2>1. /\ putting[p] # NoPut /\ Place(putting[p].item, putting[p].at_front)
        /\ putting' = [putting EXCEPT ![p] = NoPut] /\ UNCHANGED <<getting, out, returned>>
    BY <1>2 DEF PutWakes
  <2>2. /\ putting[p].item \in Items /\ putting[p].at_front \in PutEnds
        /\ putting[p].item \notin ToSet(accepted) \cup returned
        /\ \A q \in Producers : putting[q].item = putting[p].item => q = p
    BY <1>0, <2>1 DEF WaitingItems
  <2>3. /\ data' \in Seq(Items) /\ accepted' \in Seq(Items)
        /\ Apart' /\ FifoOrder' /\ NeverOverfull'
        /\ ToSet(accepted') = ToSet(accepted) \cup {putting[p].item}
    BY <2>1, <2>2, PlaceKeeps
  <2>4. PcqTypeOK'
    BY <1>0, <2>1, <2>3 DEF PcqTypeOK
  <2>5. putting'[p] = NoPut /\ \A q \in Producers : q # p => putting'[q] = putting[q]
    BY <1>0, <2>1 DEF PcqTypeOK
  <2>6. WaitingItems'
    BY <1>0, <2>1, <2>2, <2>3, <2>5, ItemsAssumption DEF WaitingItems, PutEnds
  <2>7. QED
    BY <2>3, <2>4, <2>6 DEF PcqIInv
<1>3. ASSUME NEW p \in Producers, PutTimesOut(p) PROVE PcqIInv'
  <2>1. /\ putting[p] # NoPut /\ returned' = returned \cup {putting[p].item}
        /\ putting' = [putting EXCEPT ![p] = NoPut]
        /\ UNCHANGED <<data, getting, accepted, out>>
    BY <1>3 DEF PutTimesOut
  <2>2. /\ putting[p].item \in Items /\ putting[p].item \notin ToSet(accepted)
        /\ \A q \in Producers : putting[q].item = putting[p].item => q = p
    BY <1>0, <2>1 DEF WaitingItems
  <2>3. PcqTypeOK' /\ Apart' /\ FifoOrder' /\ NeverOverfull'
    <3>1. PcqTypeOK'
      BY <1>0, <2>1, <2>2 DEF PcqTypeOK
    <3>2. Apart'
      BY <1>0, <2>1, <2>2 DEF Apart
    <3>3. FifoOrder' /\ NeverOverfull'
      BY <1>0, <2>1 DEF FifoOrder, NeverOverfull, PutEnds
    <3>4. QED
      BY <3>1, <3>2, <3>3
  <2>4. putting'[p] = NoPut /\ \A q \in Producers : q # p => putting'[q] = putting[q]
    BY <1>0, <2>1 DEF PcqTypeOK
  <2>5. WaitingItems'
    BY <1>0, <2>1, <2>2, <2>4, ItemsAssumption DEF WaitingItems, PutEnds
  <2>6. QED
    BY <2>3, <2>5 DEF PcqIInv
<1>4. ASSUME NEW c \in Consumers, NEW call \in {"Get", "TryGet"},
             Get(c, call) \/ GetWakes(c) \/ TryGetTimesOut(c)
      PROVE  PcqIInv'
  <2>1. UNCHANGED <<putting, accepted, returned>>
    BY <1>4 DEF Get, GetWakes, TryGetTimesOut
  <2>2. WaitingItems'
    BY <1>0, <2>1 DEF WaitingItems, PutEnds
  <2>3. getting' \in [Consumers -> {"no", "Get", "TryGet"}]
    BY <1>0, <1>4 DEF PcqTypeOK, Get, GetWakes, TryGetTimesOut
  <2>4. CASE TakeFront
    <3>1. /\ data' \in Seq(Items) /\ out' \in Seq(Items)
          /\ Apart' /\ FifoOrder' /\ NeverOverfull'
      BY <2>1, <2>4, TakeFrontKeeps
    <3>2. QED
      BY <1>0, <2>1, <2>2, <2>3, <3>1 DEF PcqIInv, PcqTypeOK
  <2>5. CASE UNCHANGED <<data, out>>
    <3>1. Apart' /\ FifoOrder' /\ NeverOverfull'
      BY <1>0, <2>1, <2>5 DEF Apart, FifoOrder, NeverOverfull, PutEnds
    <3>2. QED
      BY <1>0, <2>1, <2>2, <2>3, <2>5, <3>1 DEF PcqIInv, PcqTypeOK
  <2>6. QED
    BY <1>4, <2>4, <2>5 DEF Get, GetWakes, TryGetTimesOut
<1>5. ASSUME NEW c \in Consumers, GetAll(c) PROVE PcqIInv'
  <2>1. /\ data' = <<>> /\ out' = out \o data
        /\ UNCHANGED <<putting, getting, accepted, returned>>
        /\ out \in Seq(Items) /\ data \in Seq(Items)
    BY <1>0, <1>5 DEF GetAll, PcqTypeOK
  <2>2. out' \in Seq(Items) /\ out' \o data' = out \o data
    BY <2>1, ConcatProperties, ConcatEmptySeq
  <2>3. PcqTypeOK'
    BY <1>0, <2>1, <2>2 DEF PcqTypeOK
  <2>4. Apart'
    <3>1. Conserved
      BY <1>0, ApartIsConserved
    <3>2. ToSet(data') = {} /\ IsInjective(data')
      BY <2>1 DEF ToSet, IsInjective
    <3>3. QED
      BY <1>0, <2>1, <3>1, <3>2 DEF Apart, Conserved
  <2>5. FifoOrder' /\ NeverOverfull' /\ WaitingItems'
    <3>1. FifoOrder'
      BY <1>0, <2>1, <2>2 DEF FifoOrder, PutEnds
    <3>2. Len(data') = 0
      BY <2>1
    <3>3. NeverOverfull' /\ WaitingItems'
      BY <1>0, <2>1, <3>2, SizeAssumption DEF NeverOverfull, WaitingItems, PutEnds
    <3>4. QED
      BY <3>1, <3>3
  <2>6. QED
    BY <2>3, <2>4, <2>5 DEF PcqIInv
<1>6. CASE UNCHANGED pcqVars
  BY <1>0, <1>6 DEF pcqVars, PcqIInv, PcqTypeOK, Apart, FifoOrder, NeverOverfull,
     WaitingItems, PutEnds
<1>7. QED
  BY <1>1, <1>2, <1>3, <1>4, <1>5, <1>6 DEF PcqNext

(* ProducerConsumerQueue delivers each item it took once, in order, gives  *)
(* back only what it did not take, and holds max_size_ items at most.      *)
THEOREM PcqInvHolds == PcqSpec => []PcqInv
<1>1. PcqIInv => PcqInv
  BY ApartIsConserved DEF PcqIInv, PcqInv
<1>2. QED
  BY <1>1, PcqInitIInv, PcqNextIInv, PTL DEF PcqSpec

-----------------------------------------------------------------------------
(* DnsResolver: the inductive invariant                                    *)

Results(s) == Cardinality({i \in DOMAIN s : s[i] = "result"})

\* e is only the last item of s
LastOnly(s, e) == \A i \in DOMAIN s : s[i] = e => i = Len(s)

\* the destructor has put the empty request in the queue of thread w
Ended(w) == opc \in {"end", "join", "gone"} /\ w < num_threads - built

DnsKinds ==
    /\ DnsTypeOK
    /\ queues \in [ResolverThreads -> Seq(Requests \cup {End})]
    /\ calls \in [Requests -> Seq({"full", "result"})]

(* How far the constructor and the destructor are: nothing is taken before *)
(* all queues are built, and no thread is left when the destructor is.     *)
OwnerPlace ==
    /\ opc \in {"start", "build"} => built < num_threads /\ acceptedRequests = {}
    /\ opc = "use" => built = num_threads
    /\ opc = "end" => built > 0
    /\ opc \in {"join", "gone"} => built = 0
    /\ opc = "gone" => \A w \in ResolverThreads : wpc[w] = "done"

(* Calls to ResolveAsync happen during use, each with a request of its     *)
(* own, which is not taken before Put returns.                             *)
CallersPlace ==
    \A c \in Callers :
        /\ cpc[c] # "idle" => opc = "use" /\ creq[c] \in asked
        /\ cpc[c] = "put" => /\ creq[c] \notin acceptedRequests
                             /\ \A d \in Callers : cpc[d] = "put" /\ creq[d] = creq[c] => d = c

(* A request in a queue was taken, is in one place of one queue and is not *)
(* resolved yet; the empty request is behind all others.                   *)
QueuesHold ==
    \A w \in ResolverThreads :
        /\ IsInjective(queues[w]) /\ LastOnly(queues[w], End)
        /\ End \in ToSet(queues[w]) => Ended(w)
        /\ wpc[w] = "done" => queues[w] = <<>> /\ Ended(w)
        /\ \A r \in Requests : r \in ToSet(queues[w]) =>
             /\ r \in acceptedRequests /\ ResultsOf(r) = 0
             /\ \A v \in ResolverThreads : r \in ToSet(queues[v]) => v = w

(* So is a request that a thread has taken from its queue.                 *)
WorkersHold ==
    \A w \in ResolverThreads : wpc[w] = "resolve" =>
        /\ wreq[w] \in acceptedRequests /\ ResultsOf(wreq[w]) = 0
        /\ \A v \in ResolverThreads :
             /\ wreq[w] \notin ToSet(queues[v])
             /\ wpc[v] = "resolve" /\ wreq[v] = wreq[w] => v = w

(* A request that was taken is resolved, or on the way.                    *)
NoneLost ==
    \A r \in acceptedRequests :
        \/ ResultsOf(r) = 1
        \/ \E w \in ResolverThreads : \/ r \in ToSet(queues[w])
                                      \/ wpc[w] = "resolve" /\ wreq[w] = r

DnsIInv == DnsKinds /\ OwnerPlace /\ CallersPlace /\ QueuesHold /\ WorkersHold
           /\ ResolvedOnce /\ NoneLost

(* What a call to a callback adds.                                         *)
LEMMA ResultsCount ==
  ASSUME NEW s \in Seq({"full", "result"})
  PROVE  /\ Results(s) \in Nat /\ Results(<<>>) = 0
         /\ Results(Append(s, "full")) = Results(s)
         /\ Results(Append(s, "result")) = Results(s) + 1
<1> DEFINE P(q) == {i \in DOMAIN q : q[i] = "result"}
<1>1. /\ Len(s) \in Nat /\ DOMAIN s = 1 .. Len(s)
      /\ \A x \in {"full", "result"} :
           /\ DOMAIN Append(s, x) = 1 .. Len(s) + 1
           /\ \A i \in 1 .. Len(s) : Append(s, x)[i] = s[i]
           /\ Append(s, x)[Len(s) + 1] = x
  OBVIOUS
<1>2. IsFiniteSet(P(s)) /\ Len(s) + 1 \notin P(s)
  <2>1. IsFiniteSet(1 .. Len(s))
    <3>1. 1 \in Int /\ Len(s) \in Int
      BY <1>1
    <3>2. QED
      BY <3>1, FS_Interval
  <2>2. P(s) \subseteq 1 .. Len(s)
    BY <1>1
  <2>3. QED
    BY <1>1, <2>1, <2>2, FS_Subset
<1>3. P(Append(s, "full")) = P(s)
  BY <1>1
<1>4. P(Append(s, "result")) = P(s) \cup {Len(s) + 1}
  BY <1>1
<1>5. P(<<>>) = {}
  OBVIOUS
<1> HIDE DEF P
<1>6. Cardinality(P(s) \cup {Len(s) + 1}) = Cardinality(P(s)) + 1
  BY <1>2, FS_AddElement
<1>7. Cardinality(P(s)) \in Nat /\ Cardinality({}) = 0
  BY <1>2, FS_CardinalityType, FS_EmptySet
<1>8. \A q : Results(q) = Cardinality(P(q))
  BY DEF Results, P
<1>9. QED
  BY <1>3, <1>4, <1>5, <1>6, <1>7, <1>8

(* The empty request stays the last one.                                   *)
LEMMA LastOnlyKept ==
  ASSUME NEW S, NEW s \in Seq(S), NEW e \in S
  PROVE  /\ \A x \in S : e \notin ToSet(s) => LastOnly(Append(s, x), e)
         /\ s # <<>> /\ LastOnly(s, e) =>
              LastOnly(Tail(s), e) /\ (Head(s) = e => Tail(s) = <<>>)
<1>1. ASSUME NEW x \in S, e \notin ToSet(s) PROVE LastOnly(Append(s, x), e)
  <2>1. /\ Len(s) \in Nat /\ DOMAIN s = 1 .. Len(s) /\ Len(Append(s, x)) = Len(s) + 1
        /\ DOMAIN Append(s, x) = 1 .. Len(s) + 1
        /\ \A i \in 1 .. Len(s) : Append(s, x)[i] = s[i]
    OBVIOUS
  <2>2. \A i \in 1 .. Len(s) : s[i] # e
    BY <1>1, <2>1 DEF ToSet
  <2>3. QED
    BY <2>1, <2>2 DEF LastOnly
<1>2. ASSUME s # <<>>, LastOnly(s, e)
      PROVE  LastOnly(Tail(s), e) /\ (Head(s) = e => Tail(s) = <<>>)
  <2>1. /\ Len(s) \in Nat \ {0} /\ Tail(s) \in Seq(S) /\ Len(Tail(s)) = Len(s) - 1
        /\ DOMAIN s = 1 .. Len(s) /\ DOMAIN Tail(s) = 1 .. Len(s) - 1
        /\ Head(s) = s[1] /\ \A i \in 1 .. Len(s) - 1 : Tail(s)[i] = s[i + 1]
    BY <1>2, HeadTailProperties
  <2>2. LastOnly(Tail(s), e)
    BY <1>2, <2>1 DEF LastOnly
  <2>3. Head(s) = e => Len(Tail(s)) = 0
    BY <1>2, <2>1 DEF LastOnly
  <2>4. QED
    BY <2>1, <2>2, <2>3, EmptySeq
<1>3. QED
  BY <1>1, <1>2

LEMMA DnsInitIInv == DnsInit => DnsIInv
<1> SUFFICES ASSUME DnsInit PROVE DnsIInv
  OBVIOUS
<1>1. /\ opc = "start" /\ built = 0 /\ resolve_index = 0 /\ crashed = FALSE
      /\ queues = [w \in ResolverThreads |-> <<>>]
      /\ cpc = [c \in Callers |-> "idle"] /\ creq = [c \in Callers |-> End]
      /\ cqueue = [c \in Callers |-> 0] /\ wpc = [w \in ResolverThreads |-> "none"]
      /\ wreq = [w \in ResolverThreads |-> End]
      /\ asked = {} /\ acceptedRequests = {} /\ calls = [r \in Requests |-> <<>>]
  BY DEF DnsInit, DnsStarts
<1>2. /\ num_threads \in Nat /\ num_threads > 0 /\ 0 \in ResolverThreads
      /\ ToSet(<<>>) = {} /\ IsInjective(<<>>) /\ LastOnly(<<>>, End)
  BY OptionsAssumption DEF ToSet, IsInjective, LastOnly, ResolverThreads
<1>3. /\ queues \in [ResolverThreads -> Seq(Requests \cup {End})]
      /\ calls \in [Requests -> Seq({"full", "result"})]
  BY <1>1
<1>4. DnsTypeOK
  BY <1>1, <1>2 DEF DnsTypeOK
<1>5. \A r \in Requests : ResultsOf(r) = 0
  <2>1. \A r \in Requests : ResultsOf(r) = Results(<<>>)
    BY <1>1 DEF ResultsOf, Results
  <2>2. <<>> \in Seq({"full", "result"})
    OBVIOUS
  <2>3. QED
    BY <2>1, <2>2, ResultsCount
<1>6. OwnerPlace /\ CallersPlace
  BY <1>1, <1>2 DEF OwnerPlace, CallersPlace
<1>7. QueuesHold /\ WorkersHold /\ NoneLost
  BY <1>1, <1>2 DEF QueuesHold, WorkersHold, NoneLost
<1>8. ResolvedOnce
  BY <1>5 DEF ResolvedOnce
<1>9. QED
  BY <1>3, <1>4, <1>6, <1>7, <1>8 DEF DnsIInv, DnsKinds

(* At the end all threads are done, so nothing is on the way any more.     *)
LEMMA DnsIInvImplies == DnsIInv => DnsInv
<1> SUFFICES ASSUME DnsIInv PROVE DnsInv
  OBVIOUS
<1>1. DestructorDrains
  <2>1. ASSUME opc = "gone", NEW r \in acceptedRequests PROVE ResultsOf(r) = 1
    <3>1. \A w \in ResolverThreads : wpc[w] = "done" /\ queues[w] = <<>>
      BY <2>1 DEF DnsIInv, OwnerPlace, QueuesHold
    <3>2. ToSet(<<>>) = {}
      BY DEF ToSet
    <3>3. QED
      BY <2>1, <3>1, <3>2 DEF DnsIInv, NoneLost
  <2>2. QED
    BY <2>1 DEF DestructorDrains
<1>2. QED
  BY <1>1 DEF DnsIInv, DnsKinds, DnsInv

(* The constructor and the destructor: the last thing in the queue of a    *)
(* thread is the empty request.                                            *)
LEMMA OwnerStep ==
  ASSUME DnsIInv, StartThread \/ BuildQueue \/ Destroy \/ PutEnd \/ Join
  PROVE  DnsIInv'
<1>0. /\ DnsTypeOK /\ OwnerPlace /\ CallersPlace /\ QueuesHold /\ WorkersHold
      /\ ResolvedOnce /\ NoneLost
      /\ queues \in [ResolverThreads -> Seq(Requests \cup {End})]
      /\ calls \in [Requests -> Seq({"full", "result"})]
      /\ num_threads \in Nat /\ num_threads > 0 /\ built \in 0 .. num_threads
      /\ \A w \in ResolverThreads : w \in Nat
  BY OptionsAssumption DEF DnsIInv, DnsKinds, DnsTypeOK, ResolverThreads
<1>1. /\ UNCHANGED <<resolve_index, cpc, creq, cqueue, asked, acceptedRequests>>
      /\ UNCHANGED <<wreq, calls, crashed>>
  BY DEF StartThread, BuildQueue, Destroy, PutEnd, Join, caller
<1>2. (\A r : ResultsOf(r)' = ResultsOf(r)) /\ ResolvedOnce'
  BY <1>0, <1>1 DEF ResultsOf, ResolvedOnce
<1>3. CASE StartThread
  <2>1. /\ opc = "start" /\ opc' = "build" /\ built' = built /\ queues' = queues
        /\ wpc' = [wpc EXCEPT ![built] = "first"]
    BY <1>3 DEF StartThread
  <2>2. /\ built < num_threads /\ acceptedRequests = {}
        /\ wpc' \in [ResolverThreads -> {"none", "first", "get", "resolve", "done"}]
        /\ \A w \in ResolverThreads : wpc'[w] # "first" => wpc'[w] = wpc[w]
    BY <1>0, <2>1 DEF OwnerPlace, DnsTypeOK
  <2>3. DnsKinds'
    BY <1>0, <1>1, <2>1, <2>2 DEF DnsKinds, DnsTypeOK
  <2>4. OwnerPlace' /\ CallersPlace'
    BY <1>0, <1>1, <2>1, <2>2 DEF OwnerPlace, CallersPlace
  <2>5. QueuesHold'
    BY <1>0, <1>1, <1>2, <2>1, <2>2 DEF QueuesHold, Ended
  <2>6. WorkersHold' /\ NoneLost'
    BY <1>0, <1>1, <1>2, <2>1, <2>2 DEF WorkersHold, NoneLost
  <2>7. QED
    BY <1>2, <2>3, <2>4, <2>5, <2>6 DEF DnsIInv
<1>4. CASE BuildQueue \/ Destroy \/ Join
  <2>1. /\ queues' = queues /\ wpc' = wpc
        /\ \/ /\ opc = "build" /\ built' = built + 1
              /\ opc' = IF built' = num_threads THEN "use" ELSE "start"
           \/ /\ opc = "use" /\ opc' = "end" /\ built' = built
              /\ \A c \in Callers : cpc[c] = "idle"
           \/ /\ opc = "join" /\ opc' = "gone" /\ built' = built
              /\ \A w \in ResolverThreads : wpc[w] = "done"
    BY <1>4 DEF BuildQueue, Destroy, Join
  <2>2. DnsKinds'
    BY <1>0, <1>1, <2>1 DEF DnsKinds, DnsTypeOK, OwnerPlace
  <2>3. OwnerPlace'
    BY <1>0, <1>1, <2>1 DEF OwnerPlace
  <2>4. CallersPlace'
    BY <1>0, <1>1, <2>1 DEF CallersPlace
  <2>5. \A w \in ResolverThreads : Ended(w)' = Ended(w)
    BY <1>0, <1>1, <2>1 DEF Ended, OwnerPlace
  <2>6. QueuesHold'
    BY <1>0, <1>1, <1>2, <2>1, <2>5 DEF QueuesHold
  <2>7. WorkersHold' /\ NoneLost'
    BY <1>0, <1>1, <1>2, <2>1 DEF WorkersHold, NoneLost
  <2>8. QED
    BY <1>2, <2>2, <2>3, <2>4, <2>6, <2>7 DEF DnsIInv
<1>5. CASE PutEnd
  <2> DEFINE u == num_threads - built
             s == queues[u]
  <2>1. /\ opc = "end" /\ wpc' = wpc /\ built' = built - 1
        /\ queues' = [queues EXCEPT ![u] = Append(s, End)]
        /\ opc' = IF built' = 0 THEN "join" ELSE "end"
    BY <1>5 DEF PutEnd, PutAt
  <2>2. /\ built > 0 /\ u \in ResolverThreads /\ u \in Nat /\ ~Ended(u)
        /\ \A w \in ResolverThreads : Ended(w)' <=> Ended(w) \/ w = u
    BY <1>0, <2>1 DEF OwnerPlace, Ended, ResolverThreads
  <2>3. s \in Seq(Requests \cup {End}) /\ End \notin ToSet(s) /\ wpc[u] # "done"
        /\ IsInjective(s)
    BY <1>0, <2>2 DEF QueuesHold
  <2>4. /\ queues'[u] = Append(s, End)
        /\ \A w \in ResolverThreads : w # u => queues'[w] = queues[w]
    BY <1>0, <2>1, <2>2
  <2> HIDE DEF u
  <2>5. /\ Append(s, End) \in Seq(Requests \cup {End}) /\ IsInjective(Append(s, End))
        /\ LastOnly(Append(s, End), End)
    BY <2>3, OneMore, LastOnlyKept
  <2>6. \A z : z \in ToSet(Append(s, End)) <=> z \in ToSet(s) \/ z = End
    BY <2>3, AppendHolds
  <2>7. \A w \in ResolverThreads, r \in Requests : r \in ToSet(queues'[w]) <=> r \in ToSet(queues[w])
    BY <2>4, <2>6, EndAssumption
  <2>8. DnsKinds'
    <3>1. queues' \in [ResolverThreads -> Seq(Requests \cup {End})]
      BY <1>0, <2>1, <2>5
    <3>2. \A w \in ResolverThreads : ToSet(queues'[w]) \subseteq Requests \cup {End}
      BY <1>0, <2>4, <2>6 DEF DnsTypeOK
    <3>3. QED
      BY <1>0, <1>1, <2>1, <2>2, <3>1, <3>2 DEF DnsKinds, DnsTypeOK
  <2>9. OwnerPlace' /\ CallersPlace'
    BY <1>0, <1>1, <2>1, <2>2 DEF OwnerPlace, CallersPlace
  <2>10. QueuesHold'
    BY <1>0, <1>1, <1>2, <2>1, <2>2, <2>3, <2>4, <2>5, <2>7 DEF QueuesHold
  <2>11. WorkersHold' /\ NoneLost'
    BY <1>0, <1>1, <1>2, <2>1, <2>7 DEF WorkersHold, NoneLost, DnsTypeOK
  <2>12. QED
    BY <1>2, <2>8, <2>9, <2>10, <2>11 DEF DnsIInv
<1>6. QED
  BY <1>3, <1>4, <1>5

(* A call to ResolveAsync: only the request that Put takes gets in a queue.*)
LEMMA CallerStep ==
  ASSUME DnsIInv, NEW c \in Callers,
         (\E r \in Requests : ResolveAsync(c, r)) \/ Caller(c)
  PROVE  DnsIInv'
<1>0. /\ DnsTypeOK /\ OwnerPlace /\ CallersPlace /\ QueuesHold /\ WorkersHold
      /\ ResolvedOnce /\ NoneLost
      /\ queues \in [ResolverThreads -> Seq(Requests \cup {End})]
      /\ calls \in [Requests -> Seq({"full", "result"})]
      /\ num_threads \in Nat /\ num_threads > 0 /\ resolve_index \in Nat
      /\ cpc \in [Callers -> {"idle", "put", "check"}]
      /\ creq \in [Callers -> Requests \cup {End}] /\ cqueue \in [Callers -> ResolverThreads]
      /\ acceptedRequests \subseteq asked /\ asked \subseteq Requests
  BY OptionsAssumption DEF DnsIInv, DnsKinds, DnsTypeOK
<1>1. /\ UNCHANGED <<opc, built, wpc, wreq, crashed>>
      /\ opc = "use"
      /\ \A w \in ResolverThreads : Ended(w)' = Ended(w) /\ ~Ended(w)
  BY <1>0 DEF ResolveAsync, Caller, PutTakes, RequestTimesOut, CheckPut, CallersPlace, Ended
<1>2. ASSUME NEW r \in Requests, ResolveAsync(c, r) PROVE DnsIInv'
  <2>1. /\ cpc[c] = "idle" /\ r \notin asked /\ asked' = asked \cup {r}
        /\ creq' = [creq EXCEPT ![c] = r] /\ cpc' = [cpc EXCEPT ![c] = "put"]
        /\ cqueue' = [cqueue EXCEPT ![c] = resolve_index % num_threads]
        /\ resolve_index' = resolve_index + 1
        /\ UNCHANGED <<queues, acceptedRequests, calls>>
    BY <1>2 DEF ResolveAsync
  <2>2. /\ cqueue' \in [Callers -> ResolverThreads] /\ resolve_index' \in Nat
        /\ creq' \in [Callers -> Requests \cup {End}]
        /\ cpc' \in [Callers -> {"idle", "put", "check"}]
    <3>1. resolve_index % num_threads \in ResolverThreads
      BY <1>0 DEF ResolverThreads
    <3>2. QED
      BY <1>0, <2>1, <3>1
  <2>3. DnsKinds'
    BY <1>0, <1>1, <2>1, <2>2 DEF DnsKinds, DnsTypeOK
  <2>4. OwnerPlace'
    BY <1>0, <1>1, <2>1 DEF OwnerPlace
  <2>5. CallersPlace'
    <3>1. /\ cpc'[c] = "put" /\ creq'[c] = r
          /\ \A d \in Callers : d # c => cpc'[d] = cpc[d] /\ creq'[d] = creq[d]
      BY <1>0, <2>1
    <3>2. r \notin acceptedRequests /\ \A d \in Callers : cpc[d] # "idle" => creq[d] # r
      BY <1>0, <2>1 DEF CallersPlace
    <3>3. QED
      BY <1>0, <1>1, <2>1, <3>1, <3>2 DEF CallersPlace
  <2>6. (\A q : ResultsOf(q)' = ResultsOf(q)) /\ ResolvedOnce'
    BY <1>0, <2>1 DEF ResultsOf, ResolvedOnce
  <2>7. QueuesHold' /\ WorkersHold' /\ NoneLost'
    BY <1>0, <1>1, <2>1, <2>6 DEF QueuesHold, WorkersHold, NoneLost
  <2>8. QED
    BY <2>3, <2>4, <2>5, <2>6, <2>7 DEF DnsIInv
<1>3. CASE PutTakes(c)
  <2> DEFINE u == cqueue[c]
             s == queues[u]
             x == creq[c]
  <2>1. /\ cpc[c] = "put" /\ queues' = [queues EXCEPT ![u] = Append(s, x)]
        /\ acceptedRequests' = acceptedRequests \cup {x}
        /\ cpc' = [cpc EXCEPT ![c] = "check"]
        /\ UNCHANGED <<resolve_index, creq, cqueue, asked, calls>>
    BY <1>3 DEF PutTakes, PutAt
  <2>2. /\ u \in ResolverThreads /\ x \in asked /\ x \in Requests /\ x \notin acceptedRequests
        /\ x # End /\ s \in Seq(Requests \cup {End}) /\ IsInjective(s) /\ End \notin ToSet(s)
        /\ \A w \in ResolverThreads : x \notin ToSet(queues[w]) /\ wpc[w] # "done"
        /\ \A d \in Callers : cpc[d] = "put" /\ creq[d] = x => d = c
    BY <1>0, <1>1, <2>1, EndAssumption DEF CallersPlace, QueuesHold
  <2>3. /\ queues'[u] = Append(s, x)
        /\ \A w \in ResolverThreads : w # u => queues'[w] = queues[w]
        /\ cpc'[c] = "check" /\ \A d \in Callers : d # c => cpc'[d] = cpc[d]
    BY <1>0, <2>1, <2>2
  <2>4. (\A q : ResultsOf(q)' = ResultsOf(q)) /\ ResultsOf(x) = 0
    <3>1. \A q : ResultsOf(q)' = ResultsOf(q)
      BY <2>1 DEF ResultsOf
    <3>2. ResultsOf(x) = Results(calls[x]) /\ calls[x] \in Seq({"full", "result"})
      BY <1>0, <2>2 DEF ResultsOf, Results
    <3>3. ResultsOf(x) \in Nat /\ ResultsOf(x) <= 0
      BY <1>0, <2>2, <3>2, ResultsCount DEF ResolvedOnce
    <3>4. QED
      BY <3>1, <3>3
  <2> HIDE DEF u, x
  <2>5. /\ Append(s, x) \in Seq(Requests \cup {End}) /\ IsInjective(Append(s, x))
        /\ LastOnly(Append(s, x), End)
    <3>1. x \in Requests \cup {End} /\ End \in Requests \cup {End} /\ x \notin ToSet(s)
      BY <2>2
    <3>2. Append(s, x) \in Seq(Requests \cup {End}) /\ IsInjective(Append(s, x))
      BY <2>2, <3>1, OneMore
    <3>3. QED
      BY <2>2, <3>1, <3>2, LastOnlyKept
  <2>6. \A z : z \in ToSet(Append(s, x)) <=> z \in ToSet(s) \/ z = x
    BY <2>2, AppendHolds
  <2>7. \A w \in ResolverThreads : \A z : z \in ToSet(queues'[w]) <=>
           z \in ToSet(queues[w]) \/ (z = x /\ w = u)
    BY <2>2, <2>3, <2>6
  <2>8. DnsKinds'
    <3>1. queues' \in [ResolverThreads -> Seq(Requests \cup {End})]
      BY <1>0, <2>1, <2>5
    <3>2. \A w \in ResolverThreads : ToSet(queues'[w]) \subseteq Requests \cup {End}
      BY <1>0, <2>2, <2>7 DEF DnsTypeOK
    <3>3. QED
      BY <1>0, <1>1, <2>1, <2>2, <3>1, <3>2 DEF DnsKinds, DnsTypeOK
  <2>9. OwnerPlace' /\ CallersPlace'
    BY <1>0, <1>1, <2>1, <2>2, <2>3 DEF OwnerPlace, CallersPlace
  <2>10. QueuesHold'
    <3>1. \A w \in ResolverThreads :
            /\ IsInjective(queues'[w]) /\ LastOnly(queues'[w], End)
            /\ End \notin ToSet(queues'[w])
      BY <1>0, <1>1, <2>2, <2>3, <2>5, <2>7 DEF QueuesHold
    <3>2. \A w \in ResolverThreads, r \in Requests : r \in ToSet(queues'[w]) =>
             /\ r \in acceptedRequests' /\ ResultsOf(r)' = 0
             /\ \A v \in ResolverThreads : r \in ToSet(queues'[v]) => v = w
      BY <1>0, <2>1, <2>2, <2>4, <2>7 DEF QueuesHold
    <3>3. QED
      BY <1>1, <2>2, <3>1, <3>2 DEF QueuesHold
  <2>11. WorkersHold'
    BY <1>0, <1>1, <2>1, <2>2, <2>4, <2>7 DEF WorkersHold
  <2>12. NoneLost'
    BY <1>0, <1>1, <2>1, <2>2, <2>4, <2>7 DEF NoneLost
  <2>13. ResolvedOnce'
    BY <1>0, <2>1, <2>2, <2>4 DEF ResolvedOnce
  <2>14. QED
    BY <2>8, <2>9, <2>10, <2>11, <2>12, <2>13 DEF DnsIInv
<1>4. CASE RequestTimesOut(c) \/ CheckPut(c)
  <2>1. /\ cpc' \in [Callers -> {"idle", "put", "check"}]
        /\ cpc[c] # "idle" /\ cpc'[c] # "put"
        /\ \A d \in Callers : d # c => cpc'[d] = cpc[d]
        /\ UNCHANGED <<queues, resolve_index, creq, cqueue, asked, acceptedRequests>>
        /\ \/ calls' = calls
           \/ calls' = [calls EXCEPT ![creq[c]] = Append(@, "full")]
    BY <1>0, <1>4 DEF RequestTimesOut, CheckPut
  <2>2. creq[c] \in Requests
    BY <1>0, <2>1 DEF CallersPlace
  <2>3. /\ calls' \in [Requests -> Seq({"full", "result"})]
        /\ \A q \in Requests : calls'[q] = calls[q] \/ calls'[q] = Append(calls[q], "full")
    <3>1. Append(calls[creq[c]], "full") \in Seq({"full", "result"})
      BY <1>0, <2>2
    <3>2. QED
      BY <1>0, <2>1, <2>2, <3>1
  <2>4. \A q \in Requests : ResultsOf(q)' = ResultsOf(q)
    <3>1. \A q : ResultsOf(q)' = Results(calls'[q]) /\ ResultsOf(q) = Results(calls[q])
      BY DEF ResultsOf, Results
    <3>2. QED
      BY <1>0, <2>3, <3>1, ResultsCount
  <2>5. DnsKinds'
    <3>1. \A q \in Requests : ToSet(calls'[q]) \subseteq {"full", "result"}
      BY <2>3 DEF ToSet
    <3>2. QED
      BY <1>0, <1>1, <2>1, <2>3, <3>1 DEF DnsKinds, DnsTypeOK
  <2>6. OwnerPlace' /\ CallersPlace'
    BY <1>0, <1>1, <2>1 DEF OwnerPlace, CallersPlace
  <2>7. QueuesHold' /\ WorkersHold'
    BY <1>0, <1>1, <2>1, <2>4 DEF QueuesHold, WorkersHold
  <2>8. NoneLost' /\ ResolvedOnce'
    BY <1>0, <1>1, <2>1, <2>4 DEF NoneLost, ResolvedOnce
  <2>9. QED
    BY <2>5, <2>6, <2>7, <2>8 DEF DnsIInv
<1>5. QED
  BY <1>2, <1>3, <1>4 DEF Caller

(* A thread: the requests of its queue one by one, until the empty one.    *)
LEMMA WorkerStep ==
  ASSUME DnsIInv, NEW u \in ResolverThreads, Worker(u)
  PROVE  DnsIInv'
<1>0. /\ DnsTypeOK /\ OwnerPlace /\ CallersPlace /\ QueuesHold /\ WorkersHold
      /\ ResolvedOnce /\ NoneLost
      /\ queues \in [ResolverThreads -> Seq(Requests \cup {End})]
      /\ calls \in [Requests -> Seq({"full", "result"})]
      /\ wpc \in [ResolverThreads -> {"none", "first", "get", "resolve", "done"}]
      /\ wreq \in [ResolverThreads -> Requests \cup {End}]
      /\ acceptedRequests \subseteq Requests
  BY DEF DnsIInv, DnsKinds, DnsTypeOK
<1>1. /\ UNCHANGED <<opc, built, resolve_index, cpc, creq, cqueue, asked, acceptedRequests>>
      /\ wpc[u] # "done" /\ wpc' \in [ResolverThreads -> {"none", "first", "get", "resolve", "done"}]
      /\ \A w \in ResolverThreads : w # u => wpc'[w] = wpc[w]
      /\ \A w \in ResolverThreads : Ended(w)' = Ended(w)
  BY <1>0 DEF Worker, FirstUse, GetRequest, Resolve, caller, Ended
<1>2. OwnerPlace' /\ CallersPlace'
  BY <1>0, <1>1 DEF OwnerPlace, CallersPlace
<1>3. CASE FirstUse(u)
  <2>1. /\ wpc[u] = "first" /\ wpc'[u] \in {"first", "get"} /\ crashed' \in BOOLEAN
        /\ UNCHANGED <<queues, wreq, calls>>
    <3>1. crashed' \in BOOLEAN
      BY <1>0, <1>3 DEF FirstUse, DnsTypeOK
    <3>2. QED
      BY <1>0, <1>3, <3>1 DEF FirstUse
  <2>2. (\A q : ResultsOf(q)' = ResultsOf(q)) /\ ResolvedOnce'
    BY <1>0, <1>1, <2>1 DEF ResultsOf, ResolvedOnce
  <2>3. DnsKinds'
    BY <1>0, <1>1, <2>1 DEF DnsKinds, DnsTypeOK
  <2>4. QueuesHold'
    BY <1>0, <1>1, <2>1, <2>2 DEF QueuesHold
  <2>5. WorkersHold' /\ NoneLost'
    BY <1>0, <1>1, <2>1, <2>2 DEF WorkersHold, NoneLost
  <2>6. QED
    BY <1>2, <2>2, <2>3, <2>4, <2>5 DEF DnsIInv
<1>4. CASE GetRequest(u)
  <2> DEFINE s == queues[u]
             x == Head(s)
  <2>1. /\ wpc[u] = "get" /\ s # <<>>
        /\ queues' = [queues EXCEPT ![u] = Tail(s)] /\ wreq' = [wreq EXCEPT ![u] = x]
        /\ wpc' = [wpc EXCEPT ![u] = IF x = End THEN "done" ELSE "resolve"]
        /\ UNCHANGED <<calls, crashed>>
    BY <1>4 DEF GetRequest, HasData
  <2>2. s \in Seq(Requests \cup {End}) /\ IsInjective(s) /\ LastOnly(s, End)
    BY <1>0 DEF QueuesHold
  <2>3. /\ x \in Requests \cup {End} /\ Tail(s) \in Seq(Requests \cup {End})
        /\ IsInjective(Tail(s)) /\ x \notin ToSet(Tail(s))
        /\ ToSet(s) = {x} \cup ToSet(Tail(s))
    BY <2>1, <2>2, OneLess
  <2>4. LastOnly(Tail(s), End) /\ (x = End => Tail(s) = <<>>)
    <3>1. End \in Requests \cup {End}
      OBVIOUS
    <3>2. QED
      BY <2>1, <2>2, <3>1, LastOnlyKept
  <2>5. /\ queues'[u] = Tail(s) /\ wreq'[u] = x
        /\ \A w \in ResolverThreads : w # u => queues'[w] = queues[w] /\ wreq'[w] = wreq[w]
        /\ wpc'[u] = IF x = End THEN "done" ELSE "resolve"
        /\ queues' \in [ResolverThreads -> Seq(Requests \cup {End})]
        /\ wreq' \in [ResolverThreads -> Requests \cup {End}]
    BY <1>0, <2>1, <2>3
  <2>6. (\A q : ResultsOf(q)' = ResultsOf(q)) /\ ResolvedOnce'
    BY <1>0, <1>1, <2>1 DEF ResultsOf, ResolvedOnce
  <2> HIDE DEF x
  <2>7. \A z : z \in ToSet(s) <=> z = x \/ z \in ToSet(Tail(s))
    BY <2>3
  <2>8. \A w \in ResolverThreads : \A z : z \in ToSet(queues'[w]) => z \in ToSet(queues[w])
    BY <2>5, <2>7
  <2>9. x \in Requests => /\ x \in acceptedRequests /\ ResultsOf(x) = 0
                          /\ \A w \in ResolverThreads : x \notin ToSet(queues'[w])
    BY <1>0, <2>3, <2>5, <2>7 DEF QueuesHold
  <2>10. x = End => Ended(u)
    BY <1>0, <2>7 DEF QueuesHold
  <2>11. DnsKinds'
    <3>1. \A w \in ResolverThreads : ToSet(queues'[w]) \subseteq Requests \cup {End}
      BY <1>0, <2>8 DEF DnsTypeOK
    <3>2. QED
      BY <1>0, <1>1, <2>1, <2>5, <3>1 DEF DnsKinds, DnsTypeOK
  <2>12. QueuesHold'
    <3>1. \A w \in ResolverThreads :
            /\ IsInjective(queues'[w]) /\ LastOnly(queues'[w], End)
            /\ End \in ToSet(queues'[w]) => Ended(w)
            /\ wpc'[w] = "done" => queues'[w] = <<>> /\ Ended(w)
      BY <1>0, <1>1, <2>3, <2>4, <2>5, <2>8, <2>10 DEF QueuesHold
    <3>2. \A w \in ResolverThreads, r \in Requests : r \in ToSet(queues'[w]) =>
             /\ r \in acceptedRequests' /\ ResultsOf(r)' = 0
             /\ \A v \in ResolverThreads : r \in ToSet(queues'[v]) => v = w
      BY <1>0, <1>1, <2>6, <2>8 DEF QueuesHold
    <3>3. QED
      BY <1>1, <3>1, <3>2 DEF QueuesHold
  <2>13. WorkersHold'
    <3>1. ASSUME NEW w \in ResolverThreads, wpc'[w] = "resolve", w # u
          PROVE  /\ wreq'[w] = wreq[w] /\ wpc[w] = "resolve"
                 /\ wreq[w] \in acceptedRequests /\ ResultsOf(wreq[w]) = 0
                 /\ \A v \in ResolverThreads : wreq[w] \notin ToSet(queues'[v])
                 /\ wreq[w] # x
                 /\ \A v \in ResolverThreads : v # u /\ wpc'[v] = "resolve" /\ wreq'[v] = wreq[w]
                                                => v = w
      BY <1>0, <1>1, <2>5, <2>7, <2>8, <3>1 DEF WorkersHold
    <3>2. ASSUME wpc'[u] = "resolve" PROVE x \in Requests
      BY <2>3, <2>5, <3>2
    <3>3. QED
      BY <1>1, <2>5, <2>6, <2>9, <3>1, <3>2 DEF WorkersHold
  <2>14. NoneLost'
    <3>1. \A r \in acceptedRequests : r # End
      BY <1>0, EndAssumption
    <3>2. ASSUME NEW r \in acceptedRequests, NEW w \in ResolverThreads,
                 r \in ToSet(queues[w]) \/ (wpc[w] = "resolve" /\ wreq[w] = r)
          PROVE  \E v \in ResolverThreads : \/ r \in ToSet(queues'[v])
                                            \/ wpc'[v] = "resolve" /\ wreq'[v] = r
      BY <1>1, <2>1, <2>5, <2>7, <3>1, <3>2
    <3>3. QED
      BY <1>0, <1>1, <2>6, <3>2 DEF NoneLost
  <2>15. QED
    BY <1>2, <2>6, <2>11, <2>12, <2>13, <2>14 DEF DnsIInv
<1>5. CASE Resolve(u)
  <2>0. PICK x : x = wreq[u]
    OBVIOUS
  <2>1. /\ wpc[u] = "resolve" /\ wpc'[u] = "get"
        /\ calls' = [calls EXCEPT ![x] = Append(calls[x], "result")]
        /\ UNCHANGED <<queues, wreq, crashed>>
    BY <1>0, <1>5, <2>0 DEF Resolve
  <2>2. /\ x \in acceptedRequests /\ x \in Requests /\ ResultsOf(x) = 0
        /\ \A v \in ResolverThreads : /\ x \notin ToSet(queues[v])
                                      /\ wpc[v] = "resolve" /\ wreq[v] = x => v = u
    BY <1>0, <2>0, <2>1 DEF WorkersHold
  <2>3. /\ calls' \in [Requests -> Seq({"full", "result"})]
        /\ calls'[x] = Append(calls[x], "result")
        /\ \A q \in Requests : q # x => calls'[q] = calls[q]
    <3>1. Append(calls[x], "result") \in Seq({"full", "result"})
      BY <1>0, <2>2
    <3>2. QED
      BY <1>0, <2>1, <2>2, <3>1
  <2>4. ResultsOf(x)' = 1 /\ \A q \in Requests : q # x => ResultsOf(q)' = ResultsOf(q)
    <3>1. \A q : ResultsOf(q)' = Results(calls'[q]) /\ ResultsOf(q) = Results(calls[q])
      BY DEF ResultsOf, Results
    <3>2. calls[x] \in Seq({"full", "result"})
      BY <1>0, <2>2
    <3>3. Results(calls'[x]) = Results(calls[x]) + 1
      BY <2>3, <3>2, ResultsCount
    <3>4. ResultsOf(x)' = 1
      BY <2>2, <3>1, <3>3
    <3>5. QED
      BY <2>3, <3>1, <3>4
  <2>5. DnsKinds'
    <3>1. \A q \in Requests : ToSet(calls'[q]) \subseteq {"full", "result"}
      BY <2>3 DEF ToSet
    <3>2. QED
      BY <1>0, <1>1, <2>1, <2>3, <3>1 DEF DnsKinds, DnsTypeOK
  <2>6. ASSUME NEW w \in ResolverThreads, wpc'[w] = "resolve" PROVE ResultsOf(wreq[w])' = 0
    <3>1. PICK q : q = wreq[w]
      OBVIOUS
    <3>2. w # u /\ wpc[w] = "resolve" /\ wreq'[w] = q
      BY <1>1, <2>1, <2>6, <3>1
    <3>3. q # x /\ q \in Requests /\ ResultsOf(q) = 0
      BY <1>0, <2>2, <3>1, <3>2 DEF WorkersHold
    <3>4. ResultsOf(q)' = 0
      BY <2>4, <3>3
    <3>5. QED
      BY <3>2, <3>4 DEF ResultsOf
  <2>7. QueuesHold'
    <3>1. ASSUME NEW w \in ResolverThreads, NEW r \in Requests, r \in ToSet(queues[w])
          PROVE  r # x /\ ResultsOf(r)' = 0
      BY <1>0, <2>2, <2>4, <3>1 DEF QueuesHold
    <3>2. QED
      BY <1>0, <1>1, <2>1, <3>1 DEF QueuesHold
  <2>8. WorkersHold'
    BY <1>0, <1>1, <2>1, <2>6 DEF WorkersHold
  <2>9. NoneLost'
    <3>1. ASSUME NEW r \in acceptedRequests, r # x, ~(ResultsOf(r)' = 1)
          PROVE  \E v \in ResolverThreads : \/ r \in ToSet(queues'[v])
                                            \/ wpc'[v] = "resolve" /\ wreq'[v] = r
      <4>1. ~(ResultsOf(r) = 1)
        BY <1>0, <2>4, <3>1
      <4>2. PICK v \in ResolverThreads : r \in ToSet(queues[v]) \/ (wpc[v] = "resolve" /\ wreq[v] = r)
        BY <1>0, <4>1 DEF NoneLost
      <4>3. QED
        BY <1>1, <2>0, <2>1, <3>1, <4>2
    <3>2. QED
      BY <1>1, <2>4, <3>1 DEF NoneLost
  <2>10. ResolvedOnce'
    BY <1>0, <1>1, <2>2, <2>4 DEF ResolvedOnce
  <2>11. QED
    BY <1>2, <2>5, <2>7, <2>8, <2>9, <2>10 DEF DnsIInv
<1>6. QED
  BY <1>3, <1>4, <1>5 DEF Worker

(* DnsResolver resolves a request that its queues took once, never one     *)
(* that they refused, and its destructor returns after the last of them,   *)
(* for any number of callers and threads.                                  *)
THEOREM DnsInvHolds == DnsSpec => []DnsInv
<1>1. DnsIInv /\ [DnsNext]_dnsVars => DnsIInv'
  <2> SUFFICES ASSUME DnsIInv, [DnsNext]_dnsVars PROVE DnsIInv'
    OBVIOUS
  <2>1. CASE Owner \/ Destroy
    BY <2>1, OwnerStep DEF Owner
  <2>2. CASE \E c \in Callers : (\E r \in Requests : ResolveAsync(c, r)) \/ Caller(c)
    BY <2>2, CallerStep
  <2>3. CASE \E w \in ResolverThreads : Worker(w)
    BY <2>3, WorkerStep
  <2>4. CASE UNCHANGED dnsVars
    <3>1. /\ UNCHANGED <<opc, built, queues, resolve_index, cpc, creq, cqueue>>
          /\ UNCHANGED <<wpc, wreq, asked, acceptedRequests, calls, crashed>>
      BY <2>4 DEF dnsVars
    <3>2. DnsKinds'
      BY <3>1 DEF DnsIInv, DnsKinds, DnsTypeOK
    <3>3. OwnerPlace' /\ CallersPlace'
      BY <3>1 DEF DnsIInv, OwnerPlace, CallersPlace
    <3>4. (\A w : Ended(w)' = Ended(w)) /\ (\A r : ResultsOf(r)' = ResultsOf(r))
      BY <3>1 DEF Ended, ResultsOf
    <3>5. QueuesHold' /\ WorkersHold' /\ ResolvedOnce' /\ NoneLost'
      BY <3>1, <3>4 DEF DnsIInv, QueuesHold, WorkersHold, ResolvedOnce, NoneLost
    <3>6. QED
      BY <3>2, <3>3, <3>4, <3>5 DEF DnsIInv
  <2>5. QED
    BY <2>1, <2>2, <2>3, <2>4 DEF DnsNext
<1>2. QED
  BY <1>1, DnsInitIInv, DnsIInvImplies, PTL DEF DnsSpec

=============================================================================
