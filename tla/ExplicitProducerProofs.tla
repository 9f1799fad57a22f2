----------------------- MODULE ExplicitProducerProofs -----------------------
(***************************************************************************)
(* Proofs about one explicit producer of moodycamel::ConcurrentQueue       *)
(* (ConcurrentQueue): consumers find the items they claim, the producer    *)
(* never constructs an item over another, and the destructor destroys what *)
(* is left, for blocks and block indices of any size, any number of        *)
(* consumers, items and calls and any bulk.                                *)
(***************************************************************************)
EXTENDS ConcurrentQueueProofs, SequenceTheorems

-----------------------------------------------------------------------------
(* ExplicitProducer: where the items are                                   *)

\* Blocks are numbered in the order in which the producer takes them into use, again
\* and again: block number k is for the items Index(k, 0) to Index(k, BLOCK_SIZE - 1).
\* m is the next number, ring[k] the block that got number k, and in block index h the
\* entry of number k is at k + shift[h], modulo its size.
Number(i) == i \div BLOCK_SIZE
Start(k) == k * BLOCK_SIZE
Index(k, s) == k * BLOCK_SIZE + s

\* the first number that has no items of an earlier call
Fresh == Number(tailIndex - 1) + 1

\* the numbers that n blocks have: a block that is used again loses its old one
Numbers(n, m) == (m - n)..(m - 1)

\* f is a sequence of length n.
IsArray(f, n) == n \in Nat /\ f = [i \in 1..n |-> f[i]]

\* The n blocks, in the order of their numbers, are linked to a ring.
Ring(bs, n, m, ring) ==
  /\ IsArray(bs, n) /\ n <= m
  /\ \A k \in Numbers(n, m) : ring[k] \in 1..n
  /\ \A j, k \in Numbers(n, m) : ring[j] = ring[k] => j = k
  /\ \A b \in 1..n : \E k \in Numbers(n, m) : ring[k] = b
  /\ \A k \in Numbers(n, m) : bs[ring[k]].next = IF k = m - 1 THEN ring[m - n] ELSE ring[k + 1]

\* the parts of a block
IsBlock(b) ==
  /\ DOMAIN b = {"next", "item", "empty"}
  /\ b.item \in [Slots -> Int] /\ b.empty \in [Slots -> BOOLEAN]

\* Where block index h has the entry of number k, and that it has it.
At(hs, h, shift, k) == (k + shift[h]) % hs[h].size
Shows(hs, h, ring, shift, k) ==
  /\ hs[h].entries[At(hs, h, shift, k)].base = Start(k)
  /\ hs[h].entries[At(hs, h, shift, k)].block = ring[k]

\* a position of block index h that has been written
Filled(hs, h, p) == p \in 0..(hs[h].size - 1) /\ hs[h].entries[p].block # NoBlock

\* A block index as it is allocated and filled: every entry is where its base says.
IndexOK(hs, h, shift) ==
  /\ DOMAIN hs[h] = {"size", "front", "entries"}
  /\ hs[h].size \in Nat \ {0, 1} /\ hs[h].front \in -1..(hs[h].size - 1)
  /\ DOMAIN hs[h].entries = 0..(hs[h].size - 1)
  /\ \A p \in 0..(hs[h].size - 1) : DOMAIN hs[h].entries[p] = {"base", "block"}
  /\ \A p \in 0..(hs[h].size - 1) : Filled(hs, h, p) =>
       \E j \in Nat : hs[h].entries[p].base = Start(j) /\ p = At(hs, h, shift, j)

\* g block indices, the last of which has the entries of all n blocks.
Indices(hs, g, n, m, ring, shift) ==
  /\ IsArray(hs, g) /\ g > 0 /\ n <= hs[g].size
  /\ \A h \in 1..g : IndexOK(hs, h, shift)
  /\ \A k \in Numbers(n, m) : Shows(hs, g, ring, shift, k)

\* The producer knows where it is in the ring and in the index, whose front is good
\* for every consumer with something to look for.
Producer(n, g, m, ring, shift) ==
  /\ DOMAIN pr = {"call", "slotsUsed", "front", "tailBlock"}
  /\ pr.tailBlock = IF n = 0 THEN NoBlock ELSE ring[m - 1]
  /\ pr.front = At(headers, g, shift, m) /\ pr.slotsUsed = n
  /\ tailIndex > 0 \/ pr.call.pc \in {"construct", "store"} =>
       n > 0 /\ Filled(headers, g, headers[g].front)

\* The items a call still has to move out or to flag; those of them it moved out.
LookupPcs == {"index", "front", "find", "move", "flag"}
Owns(c) == IF X(c).pc \in LookupPcs THEN X(c).first..(X(c).first + X(c).n - 1) ELSE {}
MovedOut(c) == IF X(c).pc = "flag" THEN Part(c) ELSE {}

\* An item that is no longer there, and one that is flagged too.
Gone(i) == i < headIndex /\ \A c \in CqConsumers : i \in Owns(c) => i \in MovedOut(c)
Flagged(i) == i < headIndex /\ \A c \in CqConsumers : i \notin Owns(c)

\* A call has claimed items; its block index has their entries, and it started from a
\* good front.
Lookup(hs, g, c, ring, shift) ==
  LET x == X(c)
  IN  /\ x.pc \in LookupPcs => x.first \in Nat /\ x.n \in Nat \ {0} /\ x.first + x.n <= headIndex
      /\ x.pc \in LookupPcs \ {"index"} =>
           /\ x.hdr \in 1..g
           /\ \A i \in Owns(c) : Shows(hs, x.hdr, ring, shift, Number(i))
      /\ x.pc = "front" => Filled(hs, x.hdr, hs[x.hdr].front)
      /\ x.pc = "find" => Filled(hs, x.hdr, x.front)
      /\ x.pc \in {"move", "flag"} => x.slot = At(hs, x.hdr, shift, Number(x.first))
Apart == \A c, d \in CqConsumers : \A i \in Owns(c) : i \in Owns(d) => c = d

\* The items before Stored are constructed; the flags of blocks with a number before
\* Opened were reset when the block was taken into use.
Stored == IF pr.call.pc = "store" THEN tailIndex + pr.call.n ELSE tailIndex
Opened(m) == IF pr.call.pc \in {"reuse", "add", "publish"} THEN Fresh ELSE m

\* What is in a block with number k.
HasItems(b, k, m) ==
  \A s \in Slots :
    /\ b.item[s] = IF Index(k, s) < Stored /\ ~Gone(Index(k, s)) THEN Index(k, s) ELSE NoItem
    /\ b.empty[s] <=> (k < Opened(m) => Flagged(Index(k, s)))
Contents(bs, n, m, ring) ==
  \A k \in Numbers(n, m) : IsBlock(bs[ring[k]]) /\ HasItems(bs[ring[k]], k, m)

\* A block keeps its number until all of its items have been flagged.
Kept(n, m) == \A i \in Nat : Number(i) < Fresh /\ ~Flagged(i) => Number(i) \in Numbers(n, m)

\* The producer's call: m was the next number when it began and has reached the number
\* behind the last item when the blocks are there.  A call for one item has nothing to
\* undo.
PrPcs == {"idle", "reuse", "add", "publish", "construct", "store"}
CallShape == {"pc", "n", "need", "cur", "start", "first", "origFront", "origUsed"}
Enqueue(n, m, ring) ==
  LET x == pr.call
  IN  /\ DOMAIN x = CallShape /\ x.pc \in PrPcs
      /\ x.pc = "idle" => m = Fresh
      /\ x.pc # "idle" =>
           /\ x.n \in Nat \ {0} /\ tailIndex + x.n <= CqItems
           /\ x.cur = Start(m - 1) /\ Fresh <= m
           /\ x.need \in Nat /\ m + x.need = Number(tailIndex + x.n - 1) + 1
           /\ x.first = IF Fresh < m THEN ring[Fresh] ELSE NoBlock
           /\ Fresh < m => Fresh \in Numbers(n, m)
           /\ tailIndex % BLOCK_SIZE # 0 => x.start = ring[Fresh - 1]
           /\ x.origUsed \in 0..n /\ (tailIndex > 0 => x.origUsed > 0)
           /\ Fresh = m => x.origUsed = n /\ x.origFront = pr.front /\ x.start = pr.tailBlock
      /\ x.pc \in {"reuse", "add"} => x.need > 0
      /\ x.pc \in {"publish", "construct", "store"} => x.need = 0
      /\ x.pc = "publish" => Fresh < m

\* The inductive invariant, for n blocks and g block indices.
Found(n, g, m, ring, shift) ==
  /\ m \in Nat /\ ring \in [Nat -> Nat] /\ shift \in [Nat -> Int]
  /\ Ring(blocks, n, m, ring) /\ Contents(blocks, n, m, ring) /\ Kept(n, m)
  /\ Indices(headers, g, n, m, ring, shift) /\ Producer(n, g, m, ring, shift)
  /\ Enqueue(n, m, ring) /\ Apart
  /\ \A c \in CqConsumers : Lookup(headers, g, c, ring, shift)
FindInv == \E n, g, m, ring, shift : Found(n, g, m, ring, shift)

-----------------------------------------------------------------------------
(* Numbers of blocks and positions in a ring                               *)

\* Division and remainder are what they are defined by.
LEMMA DivMod ==
  ASSUME NEW i \in Int, NEW n \in Nat \ {0}
  PROVE  /\ i \div n \in Int /\ i % n \in 0..(n - 1)
         /\ i = n * (i \div n) + (i % n)
  OBVIOUS

\* They are determined by it.
LEMMA DivModUnique ==
  ASSUME NEW n \in Nat \ {0}, NEW q \in Int, NEW r \in 0..(n - 1), NEW p \in Int, NEW t \in 0..(n - 1),
         n * q + r = n * p + t
  PROVE  q = p /\ r = t
<1>1. n * (q - p) = t - r
  OBVIOUS
<1>2. t - r < n /\ t - r > -n
  OBVIOUS
<1>3. CASE q - p >= 1
  <2>1. n * (q - p) >= n
    BY <1>3
  <2> QED
    BY <1>1, <1>2, <2>1
<1>4. CASE q - p <= -1
  <2>1. n * (p - q) >= n
    BY <1>4
  <2>2. n * (p - q) = -(n * (q - p))
    OBVIOUS
  <2> QED
    BY <1>1, <1>2, <2>1, <2>2
<1>5. CASE q - p = 0
  BY <1>1, <1>5
<1> QED
  BY <1>3, <1>4, <1>5

\* The quotient and the remainder of a number given by both.
LEMMA DivModOf ==
  ASSUME NEW n \in Nat \ {0}, NEW q \in Int, NEW r \in 0..(n - 1), NEW i \in Int, i = n * q + r
  PROVE  i \div n = q /\ i % n = r
<1>1. i \div n \in Int /\ i % n \in 0..(n - 1) /\ i = n * (i \div n) + (i % n)
  BY DivMod
<1>2. PICK p \in Int : p = i \div n
  BY <1>1
<1>3. PICK t \in 0..(n - 1) : t = i % n
  BY <1>1
<1>4. n * q + r = n * p + t
  BY <1>1, <1>2, <1>3
<1> QED
  BY <1>2, <1>3, <1>4, DivModUnique

\* An index is in one block, at one place.
LEMMA IndexNumber ==
  ASSUME NEW k \in Int, NEW s \in Slots
  PROVE  /\ Index(k, s) \in Int /\ Number(Index(k, s)) = k /\ Index(k, s) % BLOCK_SIZE = s
         /\ (k \in Nat => Index(k, s) \in Nat)
<1>1. BLOCK_SIZE \in Nat \ {0} /\ s \in 0..(BLOCK_SIZE - 1)
  BY CqAssumption DEF Slots
<1>2. Index(k, s) \in Int /\ Index(k, s) = BLOCK_SIZE * k + s
  BY <1>1 DEF Index
<1>3. k \in Nat => Index(k, s) >= 0
  BY <1>1, <1>2
<1> QED
  BY <1>1, <1>2, <1>3, DivModOf DEF Number

\* Every index is in a block.
LEMMA NumberIndex ==
  ASSUME NEW i \in Int
  PROVE  /\ Number(i) \in Int /\ i % BLOCK_SIZE \in Slots
         /\ Index(Number(i), i % BLOCK_SIZE) = i /\ (i \in Nat => Number(i) \in Nat)
<1>1. BLOCK_SIZE \in Nat \ {0}
  BY CqAssumption
<1>2. Number(i) \in Int /\ i % BLOCK_SIZE \in Slots /\ i = BLOCK_SIZE * Number(i) + (i % BLOCK_SIZE)
  BY <1>1, DivMod DEF Number, Slots
<1>3. PICK q \in Int : q = Number(i)
  BY <1>2
<1>4. PICK s \in 0..(BLOCK_SIZE - 1) : s = i % BLOCK_SIZE
  BY <1>2 DEF Slots
<1>5. i = BLOCK_SIZE * q + s
  BY <1>2, <1>3, <1>4
<1>6. ASSUME i \in Nat PROVE q >= 0
  <2> SUFFICES ASSUME q <= -1 PROVE FALSE
    OBVIOUS
  <2>1. BLOCK_SIZE * q <= -BLOCK_SIZE
    BY <1>1
  <2> QED
    BY <1>1, <1>5, <1>6, <2>1
<1> QED
  BY <1>1, <1>2, <1>3, <1>4, <1>5, <1>6 DEF Index

\* Indices are in the order of their blocks, and of their places in them.
LEMMA IndexOrder ==
  ASSUME NEW j \in Int, NEW s \in Slots, NEW k \in Int, NEW t \in Slots
  PROVE  Index(j, s) < Index(k, t) <=> j < k \/ (j = k /\ s < t)
<1>1. BLOCK_SIZE \in Nat \ {0} /\ s \in 0..(BLOCK_SIZE - 1) /\ t \in 0..(BLOCK_SIZE - 1)
  BY CqAssumption DEF Slots
<1>2. CASE j < k
  <2>1. BLOCK_SIZE * (k - j) >= BLOCK_SIZE
    BY <1>1, <1>2
  <2>2. k * BLOCK_SIZE - j * BLOCK_SIZE = BLOCK_SIZE * (k - j)
    BY <1>1
  <2> QED
    BY <1>1, <1>2, <2>1, <2>2 DEF Index
<1>3. CASE k < j
  <2>1. BLOCK_SIZE * (j - k) >= BLOCK_SIZE
    BY <1>1, <1>3
  <2>2. j * BLOCK_SIZE - k * BLOCK_SIZE = BLOCK_SIZE * (j - k)
    BY <1>1
  <2> QED
    BY <1>1, <1>3, <2>1, <2>2 DEF Index
<1>4. CASE j = k
  BY <1>1, <1>4 DEF Index
<1> QED
  BY <1>2, <1>3, <1>4

\* The numbers of blocks grow with the indices.
LEMMA NumberOrder ==
  ASSUME NEW i \in Int, NEW j \in Int
  PROVE  /\ i <= j => Number(i) <= Number(j)
         /\ Number(i) < Number(j) => i < j
         /\ Number(i) = Number(j) => (i < j <=> i % BLOCK_SIZE < j % BLOCK_SIZE)
         /\ Number(i) = Number(j) /\ i % BLOCK_SIZE = j % BLOCK_SIZE => i = j
<1>1. /\ Number(i) \in Int /\ i % BLOCK_SIZE \in Slots /\ Index(Number(i), i % BLOCK_SIZE) = i
      /\ Number(j) \in Int /\ j % BLOCK_SIZE \in Slots /\ Index(Number(j), j % BLOCK_SIZE) = j
  BY NumberIndex
<1>2. i < j <=> Number(i) < Number(j) \/ (Number(i) = Number(j) /\ i % BLOCK_SIZE < j % BLOCK_SIZE)
  BY <1>1, IndexOrder
<1>3. j < i <=> Number(j) < Number(i) \/ (Number(j) = Number(i) /\ j % BLOCK_SIZE < i % BLOCK_SIZE)
  BY <1>1, IndexOrder
<1>4. i % BLOCK_SIZE \in Int /\ j % BLOCK_SIZE \in Int
  BY <1>1, CqAssumption DEF Slots
<1> QED
  BY <1>1, <1>2, <1>3, <1>4

\* The first index of a block, in the terms of the source.
LEMMA StartOf ==
  /\ \A k \in Int : Start(k) \in Int /\ Start(k) + BLOCK_SIZE = Start(k + 1) /\ Start(k) = Index(k, 0)
  /\ \A i \in Int : Base(i) = Start(Number(i))
  /\ \A j, k \in Int : (Start(j) - Start(k)) \div BLOCK_SIZE = j - k
  /\ \A j, k \in Int : Start(j) < Start(k) <=> j < k
<1>1. BLOCK_SIZE \in Nat \ {0}
  BY CqAssumption
<1>2. ASSUME NEW k \in Int
      PROVE Start(k) \in Int /\ Start(k) + BLOCK_SIZE = Start(k + 1) /\ Start(k) = Index(k, 0)
  BY <1>1 DEF Start, Index
<1>3. ASSUME NEW i \in Int PROVE Base(i) = Start(Number(i))
  BY DEF Base, Start, Number
<1>4. ASSUME NEW j \in Int, NEW k \in Int PROVE (Start(j) - Start(k)) \div BLOCK_SIZE = j - k
  <2>1. Start(j) - Start(k) \in Int /\ Start(j) - Start(k) = BLOCK_SIZE * (j - k) + 0
    BY <1>1 DEF Start
  <2>2. 0 \in 0..(BLOCK_SIZE - 1) /\ j - k \in Int
    BY <1>1
  <2>a. PICK q \in Int : q = j - k
    OBVIOUS
  <2>b. PICK r \in 0..(BLOCK_SIZE - 1) : r = 0
    BY <2>2
  <2>c. PICK i \in Int : i = Start(j) - Start(k)
    BY <2>1
  <2>3. q = j - k /\ r = 0 /\ i = Start(j) - Start(k)
    BY <2>a, <2>b, <2>c
  <2>4. i = BLOCK_SIZE * q + r
    <3>1. Start(j) - Start(k) = BLOCK_SIZE * (j - k) + 0
      BY <2>1
    <3> QED
      BY <2>3, <3>1, Zenon
  <2>5. i \div BLOCK_SIZE = q
    BY <1>1, <2>4, DivModOf
  <2> QED
    BY <2>3, <2>5
<1>5. ASSUME NEW j \in Int, NEW k \in Int PROVE Start(j) < Start(k) <=> j < k
  <2>1. 0 \in Slots
    BY <1>1 DEF Slots
  <2> QED
    BY <1>2, <2>1, IndexOrder
<1> QED
  BY <1>2, <1>3, <1>4, <1>5

\* Positions in a ring of n places.
LEMMA RingLow ==
  ASSUME NEW n \in Nat \ {0}, NEW a \in 0..(n - 1)
  PROVE  a % n = a
<1>1. a = n * 0 + a /\ a \in Int /\ 0 \in Int
  OBVIOUS
<1> QED
  BY <1>1, DivModOf

\* A step of b from a position.
LEMMA RingAdd ==
  ASSUME NEW n \in Nat \ {0}, NEW a \in Int, NEW b \in Int
  PROVE  ((a % n) + b) % n = (a + b) % n
<1>1. a \div n \in Int /\ a % n \in 0..(n - 1) /\ a = n * (a \div n) + (a % n)
  BY DivMod
<1>2. PICK q \in Int, r \in 0..(n - 1) : q = a \div n /\ r = a % n /\ a = n * q + r
  BY <1>1
<1>3. r + b \in Int /\ a + b \in Int
  OBVIOUS
<1>4. (r + b) \div n \in Int /\ (r + b) % n \in 0..(n - 1) /\ r + b = n * ((r + b) \div n) + ((r + b) % n)
  BY <1>3, DivMod
<1>5. PICK u \in Int, v \in 0..(n - 1) : v = (r + b) % n /\ r + b = n * u + v
  BY <1>4
<1>6. PICK w \in Int, z \in Int : w = q + u /\ z = a + b
  OBVIOUS
<1>7. z = n * w + v
  BY <1>2, <1>5, <1>6
<1>8. z % n = v
  BY <1>7, DivModOf
<1> QED
  BY <1>2, <1>5, <1>6, <1>8

\* Numbers less than n apart have different positions.
LEMMA RingApart ==
  ASSUME NEW n \in Nat \ {0}, NEW a \in Int, NEW b \in Int, a < b, b < a + n
  PROVE  a % n # b % n
<1>1. a \div n \in Int /\ a % n \in 0..(n - 1) /\ a = n * (a \div n) + (a % n)
  BY DivMod
<1>2. b \div n \in Int /\ b % n \in 0..(n - 1) /\ b = n * (b \div n) + (b % n)
  BY DivMod
<1>3. PICK q \in Int, r \in 0..(n - 1) : q = a \div n /\ r = a % n /\ a = n * q + r
  BY <1>1
<1>4. PICK p \in Int, t \in 0..(n - 1) : p = b \div n /\ t = b % n /\ b = n * p + t
  BY <1>2
<1>5. SUFFICES ASSUME r = t PROVE FALSE
  BY <1>3, <1>4
<1>6. b - a = n * (p - q)
  BY <1>3, <1>4, <1>5
<1>7. CASE p - q >= 1
  <2>1. n * (p - q) >= n
    BY <1>7
  <2> QED
    BY <1>6, <2>1
<1>8. CASE p - q <= 0
  <2>1. n * (p - q) <= 0
    BY <1>8
  <2> QED
    BY <1>6, <2>1
<1> QED
  BY <1>7, <1>8
-----------------------------------------------------------------------------
(* Sequences                                                               *)

\* An array is a sequence of its length.
LEMMA ArrayIs ==
  ASSUME NEW n, NEW f, IsArray(f, n)
  PROVE  n \in Nat /\ f \in Seq({f[i] : i \in 1..n}) /\ Len(f) = n /\ DOMAIN f = 1..n
<1>1. n \in Nat /\ f = [i \in 1..n |-> f[i]]
  BY DEF IsArray
<1>2. DOMAIN f = 1..n
  BY <1>1
<1>3. f \in [1..n -> {f[i] : i \in 1..n}]
  BY <1>1
<1>4. f \in Seq({f[i] : i \in 1..n})
  BY <1>1, <1>3, SeqDef
<1>5. Len(f) = n
  BY <1>1, <1>2, <1>4, LenProperties
<1> QED
  BY <1>1, <1>2, <1>4, <1>5

\* Array hs is array as, of length g, with one more element.
Extended(hs, as, g, e) == IsArray(hs, g + 1) /\ hs[g + 1] = e /\ \A h \in 1..g : hs[h] = as[h]

\* That is what Append does.
LEMMA ArrayAppend ==
  ASSUME NEW n, NEW f, IsArray(f, n), NEW e
  PROVE  Extended(Append(f, e), f, n, e)
<1>1. n \in Nat /\ f \in Seq({f[i] : i \in 1..n}) /\ Len(f) = n /\ DOMAIN f = 1..n
  BY ArrayIs
<1> DEFINE S == {f[i] : i \in 1..n} \cup {e}
<1>2. f \in Seq(S)
  <2>1. f \in [1..n -> S]
    BY <1>1 DEF IsArray
  <2> QED
    BY <1>1, <2>1, SeqDef
<1>3. e \in S
  OBVIOUS
<1> HIDE DEF S
<1>4. /\ Append(f, e) \in Seq(S) /\ Len(Append(f, e)) = n + 1
      /\ \A i \in 1..n : Append(f, e)[i] = f[i]
      /\ Append(f, e)[n + 1] = e
  BY <1>1, <1>2, <1>3, AppendProperties
<1>5. Append(f, e) \in [1..(n + 1) -> S]
  BY <1>1, <1>4, ElementOfSeq, LenProperties
<1>6. IsArray(Append(f, e), n + 1)
  BY <1>1, <1>5 DEF IsArray
<1> QED
  BY <1>4, <1>6 DEF Extended

-----------------------------------------------------------------------------
(* ExplicitProducer: consumers                                             *)

\* The part of a call that is in one block.
LEMMA PartIs ==
  ASSUME NEW STATE c, NEW STATE first, NEW STATE n, first \in Nat, n \in Nat \ {0},
         X(c).first = first, X(c).n = n
  PROVE  \E k \in 1..n :
           /\ Part(c) = first..(first + k - 1) /\ Cardinality(Part(c)) = k
           /\ \A i \in first..(first + n - 1) : i \in Part(c) <=> Number(i) = Number(first)
           /\ k < n => Number(first + k) = Number(first) + 1
<1>1. PICK b \in Nat : b = Number(first)
  BY NumberIndex
<1>2. Start(b + 1) \in Int /\ Start(b) \in Int /\ Start(b + 1) = Start(b) + BLOCK_SIZE /\ Base(first) = Start(b)
  <2>1. b \in Int /\ b + 1 \in Int /\ first \in Int
    BY <1>1
  <2> QED
    BY <1>1, <2>1, StartOf
<1>3. BLOCK_SIZE \in Nat \ {0} /\ 0 \in Slots
  BY CqAssumption DEF Slots
<1>4. ASSUME NEW i \in Int, NEW j \in Int PROVE i < Start(j) <=> Number(i) < j
  <2>1. Start(j) = Index(j, 0) /\ Number(i) \in Int /\ i % BLOCK_SIZE \in Slots /\ Index(Number(i), i % BLOCK_SIZE) = i
    BY StartOf, NumberIndex
  <2>2. i < Start(j) <=> Number(i) < j \/ (Number(i) = j /\ i % BLOCK_SIZE < 0)
    BY <2>1, <1>3, IndexOrder
  <2>3. ~(i % BLOCK_SIZE < 0)
    BY <2>1, <1>3 DEF Slots
  <2> QED
    BY <2>2, <2>3
<1>5. PICK e \in Int : e = Start(b + 1)
  BY <1>2
<1>6. first < e
  BY <1>1, <1>4, <1>5
<1>7. PICK h \in Int : h = Min({first + n, e})
  BY <1>5, SmallerOf
<1>8. h = IF first + n <= e THEN first + n ELSE e
  BY <1>5, <1>7, SmallerOf
<1>9. Part(c) = first..(h - 1)
  BY <1>2, <1>5, <1>7 DEF Part
<1>10. PICK k \in 1..n : k = h - first
  BY <1>6, <1>8
<1>11. Part(c) = first..(first + k - 1)
  BY <1>9, <1>10
<1>12. Cardinality(Part(c)) = k
  <2>1. first + k - 1 \in Int /\ first \in Int
    BY <1>10
  <2>2. Cardinality(first..(first + k - 1)) = IF first > first + k - 1 THEN 0 ELSE (first + k - 1) - first + 1
    BY <2>1, FS_Interval
  <2> QED
    BY <1>10, <1>11, <2>2
<1>13. ASSUME NEW i \in first..(first + n - 1) PROVE i \in Part(c) <=> Number(i) = Number(first)
  <2>1. i \in Int /\ Number(i) \in Int /\ Number(first) <= Number(i)
    BY NumberIndex, NumberOrder
  <2>2. i < e <=> Number(i) < b + 1
    BY <2>1, <1>4, <1>5
  <2>3. i \in Part(c) <=> i < e
    BY <2>1, <1>8, <1>9
  <2> QED
    BY <2>1, <2>2, <2>3, <1>1
<1>14. ASSUME k < n PROVE Number(first + k) = Number(first) + 1
  <2>1. first + k = e
    BY <1>8, <1>10, <1>14
  <2>2. e = Index(b + 1, 0)
    BY <1>5, StartOf
  <2>3. Number(e) = b + 1
    BY <2>2, <1>3, IndexNumber
  <2> QED
    BY <2>1, <2>3, <1>1
<1> QED
  BY <1>10, <1>11, <1>12, <1>13, <1>14

\* As long as the same items are gone and flagged, blocks contain what they did.
LEMMA SameContents ==
  ASSUME NEW n \in Nat, NEW m \in Nat, NEW ring, n <= m, Contents(blocks, n, m, ring),
         blocks' = blocks, Stored' = Stored, Opened(m)' = Opened(m),
         \A i \in Nat : (Gone(i)' <=> Gone(i)) /\ (Flagged(i)' <=> Flagged(i))
  PROVE  Contents(blocks, n, m, ring)'
<1>1. SUFFICES ASSUME NEW k \in Numbers(n, m)
               PROVE  IsBlock(blocks'[ring[k]]) /\ HasItems(blocks[ring[k]], k, m)'
  BY DEF Contents
<1>2. k \in Nat
  BY DEF Numbers
<1>3. IsBlock(blocks[ring[k]]) /\ HasItems(blocks[ring[k]], k, m)
  BY DEF Contents
<1>4. \A s \in Slots : Index(k, s) \in Nat
  BY <1>2, IndexNumber
<1>5. HasItems(blocks[ring[k]], k, m)'
  BY <1>3, <1>4 DEF HasItems
<1> QED
  BY <1>3, <1>5

\* A consumer that does nothing leaves its part of the invariant alone.
LEMMA LookupKept ==
  ASSUME NEW g, NEW c \in CqConsumers, NEW ring, NEW shift, Lookup(headers, g, c, ring, shift),
         headers' = headers, X(c)' = X(c), headIndex \in Nat, headIndex' \in Nat, headIndex <= headIndex'
  PROVE  Lookup(headers, g, c, ring, shift)' /\ Owns(c)' = Owns(c) /\ MovedOut(c)' = MovedOut(c)
<1>1. Owns(c)' = Owns(c) /\ MovedOut(c)' = MovedOut(c)
  BY DEF Owns, MovedOut, Part
<1>2. Lookup(headers, g, c, ring, shift)'
  <2> DEFINE x == X(c)
  <2>1. x.pc \in LookupPcs => x.first \in Nat /\ x.n \in Nat \ {0} /\ x.first + x.n <= headIndex'
    BY DEF Lookup
  <2> QED
    BY <1>1, <2>1 DEF Lookup
<1> QED
  BY <1>1, <1>2

\* A step of a consumer, as far as the others are concerned.
ConsumerMoves(c) ==
  /\ UNCHANGED <<tailIndex, headers, pr>>
  /\ headIndex \in Nat /\ headIndex' \in Nat /\ headIndex <= headIndex'
  /\ \A d \in CqConsumers : d # c => X(d)' = X(d)

\* What is to be shown for a step of a consumer.
LEMMA ConsumerLeaves ==
  ASSUME NEW n, NEW g, NEW m, NEW ring, NEW shift, Found(n, g, m, ring, shift),
         NEW c \in CqConsumers, ConsumerMoves(c),
         Ring(blocks, n, m, ring)', Contents(blocks, n, m, ring)',
         \A i \in Nat : Flagged(i) => Flagged(i)',
         \A d \in CqConsumers : d # c => \A i \in Owns(c)' : i \notin Owns(d),
         Lookup(headers, g, c, ring, shift)'
  PROVE  Found(n, g, m, ring, shift)'
<1>1. \A d \in CqConsumers : d # c => Lookup(headers, g, d, ring, shift)' /\ Owns(d)' = Owns(d)
  <2> SUFFICES ASSUME NEW d \in CqConsumers, d # c
               PROVE  Lookup(headers, g, d, ring, shift)' /\ Owns(d)' = Owns(d)
    OBVIOUS
  <2>1. Lookup(headers, g, d, ring, shift)
    BY DEF Found
  <2>2. headers' = headers /\ headIndex \in Nat /\ headIndex' \in Nat /\ headIndex <= headIndex' /\ X(d)' = X(d)
    BY DEF ConsumerMoves
  <2> QED
    BY <2>1, <2>2, LookupKept
<1>2. Apart'
  <2> SUFFICES ASSUME NEW d \in CqConsumers, NEW e \in CqConsumers, NEW i \in Owns(d)', i \in Owns(e)'
               PROVE  d = e
    BY DEF Apart
  <2>1. CASE d # c /\ e # c
    BY <1>1, <2>1 DEF Found, Apart
  <2>2. CASE d = c /\ e # c
    BY <1>1, <2>2
  <2>3. CASE d # c /\ e = c
    BY <1>1, <2>3
  <2> QED
    BY <2>1, <2>2, <2>3
<1>3. tailIndex' = tailIndex /\ headers' = headers /\ pr' = pr
  BY DEF ConsumerMoves
<1>4. Kept(n, m)'
  <2>1. Kept(n, m)
    BY DEF Found
  <2>2. Fresh' = Fresh
    BY <1>3 DEF Fresh
  <2> QED
    BY <2>1, <2>2 DEF Kept
<1>5. Indices(headers, g, n, m, ring, shift)'
  BY <1>3 DEF Found
<1>6. Producer(n, g, m, ring, shift)'
  <2>1. Producer(n, g, m, ring, shift)
    BY DEF Found
  <2> QED
    BY <1>3, <2>1 DEF Producer
<1>7. Enqueue(n, m, ring)'
  <2>1. Enqueue(n, m, ring)
    BY DEF Found
  <2>2. Fresh' = Fresh
    BY <1>3 DEF Fresh
  <2> QED
    BY <1>3, <2>1, <2>2 DEF Enqueue
<1>8. m \in Nat /\ ring \in [Nat -> Nat] /\ shift \in [Nat -> Int]
  BY DEF Found
<1>9. \A d \in CqConsumers : Lookup(headers, g, d, ring, shift)'
  BY <1>1
<1> QED
  BY <1>2, <1>4, <1>5, <1>6, <1>7, <1>8, <1>9 DEF Found

\* A step that does not change blocks and leaves the same items gone and flagged.
LEMMA ConsumerReads ==
  ASSUME NEW n, NEW g, NEW m, NEW ring, NEW shift, Found(n, g, m, ring, shift),
         NEW c \in CqConsumers, ConsumerMoves(c), blocks' = blocks,
         \A i \in Nat : (Gone(i)' <=> Gone(i)) /\ (Flagged(i)' <=> Flagged(i)),
         \A d \in CqConsumers : d # c => \A i \in Owns(c)' : i \notin Owns(d),
         Lookup(headers, g, c, ring, shift)'
  PROVE  Found(n, g, m, ring, shift)'
<1>1. Ring(blocks, n, m, ring)'
  BY DEF Found
<1>2. n \in Nat /\ m \in Nat /\ n <= m /\ Contents(blocks, n, m, ring)
  BY DEF Found, Ring, IsArray
<1>3. tailIndex' = tailIndex /\ pr' = pr
  BY DEF ConsumerMoves
<1>4. Stored' = Stored /\ Opened(m)' = Opened(m)
  BY <1>3 DEF Stored, Opened, Fresh
<1>5. Contents(blocks, n, m, ring)'
  BY <1>2, <1>4, SameContents
<1> QED
  BY <1>1, <1>5, ConsumerLeaves

\* The same items are gone and flagged when a call has the same items.
LEMMA SameOwned ==
  ASSUME NEW c \in CqConsumers, ConsumerMoves(c), headIndex' = headIndex,
         Owns(c)' = Owns(c), MovedOut(c)' = MovedOut(c)
  PROVE  \A i \in Nat : (Gone(i)' <=> Gone(i)) /\ (Flagged(i)' <=> Flagged(i))
<1>1. \A d \in CqConsumers : Owns(d)' = Owns(d) /\ MovedOut(d)' = MovedOut(d)
  BY DEF Owns, MovedOut, Part, ConsumerMoves
<1> QED
  BY <1>1 DEF Gone, Flagged

\* A call that has claimed no index does not matter here.
LEMMA Unclaimed ==
  ASSUME FindInv, NEW c \in CqConsumers, ConsumerMoves(c), blocks' = blocks, headIndex' = headIndex,
         X(c).pc \notin LookupPcs, X(c)'.pc \notin LookupPcs
  PROVE  FindInv'
<1>1. PICK n, g, m, ring, shift : Found(n, g, m, ring, shift)
  BY DEF FindInv
<1>2. Owns(c) = {} /\ Owns(c)' = {} /\ MovedOut(c) = {} /\ MovedOut(c)' = {}
  BY DEF Owns, MovedOut, LookupPcs
<1>3. Lookup(headers, g, c, ring, shift)'
  BY DEF Lookup, LookupPcs
<1>4. Found(n, g, m, ring, shift)'
  BY <1>1, <1>2, <1>3, SameOwned, ConsumerReads
<1> QED
  BY <1>4 DEF FindInv

\* A claimed item was stored, is not flagged, and its block still has its number.
LEMMA OwnedKept ==
  ASSUME NEW n, NEW g, NEW m, NEW ring, NEW shift, Found(n, g, m, ring, shift), CqNumbers, HeadWithinTail,
         NEW c \in CqConsumers, NEW i, i \in Owns(c)
  PROVE  /\ i \in Nat /\ i < headIndex /\ ~Flagged(i) /\ tailIndex > 0
         /\ Number(i) \in Nat /\ Number(i) < Fresh /\ Number(i) \in Numbers(n, m)
<1>1. X(c).pc \in LookupPcs /\ i \in X(c).first..(X(c).first + X(c).n - 1)
  BY DEF Owns
<1>2. Lookup(headers, g, c, ring, shift)
  BY DEF Found
<1>3. X(c).first \in Nat /\ X(c).n \in Nat \ {0} /\ X(c).first + X(c).n <= headIndex
  BY <1>1, <1>2 DEF Lookup
<1>4. headIndex \in Nat /\ tailIndex \in Nat /\ headIndex <= tailIndex
  BY DEF CqNumbers, HeadWithinTail
<1>5. i \in Nat /\ i < headIndex /\ i <= tailIndex - 1
  BY <1>1, <1>3, <1>4
<1>6. Number(i) \in Nat /\ Number(tailIndex - 1) \in Int /\ Number(i) <= Number(tailIndex - 1)
  BY <1>4, <1>5, NumberIndex, NumberOrder
<1>7. Number(i) < Fresh
  BY <1>6 DEF Fresh
<1>8. ~Flagged(i)
  BY DEF Flagged
<1>9. Number(i) \in Numbers(n, m)
  BY <1>5, <1>7, <1>8 DEF Found, Kept
<1> QED
  BY <1>4, <1>5, <1>6, <1>7, <1>8, <1>9

\* A call takes the next indices.
LEMMA ClaimIndexFinds ==
  ASSUME FindInv, CountInv, CountInv', NEW c \in CqConsumers, ClaimIndex(c)
  PROVE  FindInv'
<1>1. PICK n, g, m, ring, shift : Found(n, g, m, ring, shift)
  BY DEF FindInv
<1>2. CqKinds /\ CqShape /\ CqNumbers /\ CallKinds(X(c)) /\ CqNumbers'
  BY DEF CountInv, CqKinds
<1>3. /\ UNCHANGED <<tailIndex, headers, pr, blocks>> /\ X(c).pc = "head"
      /\ headIndex' = headIndex + X(c).n
  BY DEF ClaimIndex, SharedByProducer, AtPc
<1>4. Proceeds(c, With([pc |-> "index", first |-> headIndex, n |-> X(c).n], Idle))
  BY DEF ClaimIndex
<1>5. /\ X(c)' = With(With([pc |-> "index", first |-> headIndex, n |-> X(c).n], Idle), X(c))
      /\ DOMAIN X(c) = CqFields /\ \A d \in CqConsumers : d # c => X(d)' = X(d)
  BY <1>2, <1>4, ProceedsMoves
<1>6. X(c)'.pc = "index" /\ X(c)'.first = headIndex /\ X(c)'.n = X(c).n
  BY <1>5 DEF With, CqFields, Idle
<1>7. X(c).n \in Nat \ {0} /\ headIndex \in Nat /\ headIndex' \in Nat
  BY <1>2, <1>3 DEF CallKinds, CqNumbers
<1>8. ConsumerMoves(c)
  BY <1>3, <1>5, <1>7 DEF ConsumerMoves
<1>9. Owns(c) = {} /\ Owns(c)' = headIndex..(headIndex' - 1) /\ MovedOut(c) = {} /\ MovedOut(c)' = {}
  BY <1>3, <1>6, <1>7 DEF Owns, MovedOut, LookupPcs
<1>10. \A d \in CqConsumers : d # c => Owns(d)' = Owns(d) /\ MovedOut(d)' = MovedOut(d)
  BY <1>5 DEF Owns, MovedOut, Part
<1>11. \A d \in CqConsumers : \A i \in Owns(d) : i < headIndex
  <2> SUFFICES ASSUME NEW d \in CqConsumers, NEW i \in Owns(d) PROVE i < headIndex
    OBVIOUS
  <2>1. X(d).pc \in LookupPcs /\ i \in X(d).first..(X(d).first + X(d).n - 1) /\ Lookup(headers, g, d, ring, shift)
    BY <1>1 DEF Owns, Found
  <2>2. X(d).first \in Nat /\ X(d).n \in Nat \ {0} /\ X(d).first + X(d).n <= headIndex
    BY <2>1 DEF Lookup
  <2> QED
    BY <1>7, <2>1, <2>2
<1>12. \A i \in Nat : (Gone(i)' <=> Gone(i)) /\ (Flagged(i)' <=> Flagged(i))
  <2> SUFFICES ASSUME NEW i \in Nat PROVE (Gone(i)' <=> Gone(i)) /\ (Flagged(i)' <=> Flagged(i))
    OBVIOUS
  <2>1. CASE i < headIndex
    <3>1. i < headIndex' /\ i \notin Owns(c)' /\ i \notin Owns(c)
      BY <1>3, <1>7, <1>9, <2>1
    <3> QED
      BY <2>1, <3>1, <1>10 DEF Gone, Flagged
  <2>2. CASE headIndex <= i
    <3>1. ~Gone(i) /\ ~Flagged(i)
      BY <1>7, <2>2 DEF Gone, Flagged
    <3>2. ASSUME i < headIndex' PROVE i \in Owns(c)'
      <4>1. PICK a \in Nat, b \in Nat : a = headIndex /\ b = headIndex'
        BY <1>7
      <4>2. a <= i /\ i < b
        BY <4>1, <2>2, <3>2
      <4>3. i \in a..(b - 1)
        BY <4>2
      <4>4. Owns(c)' = headIndex..(headIndex' - 1)
        BY <1>9
      <4> QED
        BY <4>1, <4>3, <4>4
    <3>3. i \notin MovedOut(c)'
      BY <1>9
    <3> QED
      BY <3>1, <3>2, <3>3 DEF Gone, Flagged
  <2> QED
    BY <1>7, <2>1, <2>2
<1>13. \A d \in CqConsumers : d # c => \A i \in Owns(c)' : i \notin Owns(d)
  BY <1>7, <1>9, <1>11
<1>14. Lookup(headers, g, c, ring, shift)'
  BY <1>3, <1>6, <1>7 DEF Lookup, LookupPcs
<1>15. Found(n, g, m, ring, shift)'
  BY <1>1, <1>3, <1>8, <1>12, <1>13, <1>14, ConsumerReads
<1> QED
  BY <1>15 DEF FindInv

\* It loads the block index, which has entries for all it claimed.
LEMMA LoadIndexFinds ==
  ASSUME FindInv, CountInv, HeadWithinTail, NEW c \in CqConsumers, LoadIndex(c)
  PROVE  FindInv'
<1>1. PICK n, g, m, ring, shift : Found(n, g, m, ring, shift)
  BY DEF FindInv
<1>2. CqKinds /\ CqShape /\ CqNumbers
  BY DEF CountInv, CqKinds
<1>3. UNCHANGED <<tailIndex, headers, pr, blocks, headIndex>> /\ X(c).pc = "index"
  BY DEF LoadIndex, SharedByProducer, AtPc
<1>4. Proceeds(c, [pc |-> "front", hdr |-> Len(headers)])
  BY DEF LoadIndex
<1>5. /\ X(c)' = With([pc |-> "front", hdr |-> Len(headers)], X(c))
      /\ DOMAIN X(c) = CqFields /\ \A d \in CqConsumers : d # c => X(d)' = X(d)
  BY <1>2, <1>4, ProceedsMoves
<1>6. X(c)'.pc = "front" /\ X(c)'.hdr = Len(headers) /\ X(c)'.first = X(c).first /\ X(c)'.n = X(c).n
  BY <1>5 DEF With, CqFields
<1>7. ConsumerMoves(c)
  BY <1>2, <1>3, <1>5 DEF ConsumerMoves, CqNumbers
<1>8. Owns(c)' = Owns(c) /\ MovedOut(c)' = MovedOut(c)
  BY <1>3, <1>6 DEF Owns, MovedOut, LookupPcs
<1>9. Lookup(headers, g, c, ring, shift) /\ Indices(headers, g, n, m, ring, shift) /\ Producer(n, g, m, ring, shift)
  BY <1>1 DEF Found
<1>10. g \in Nat /\ g > 0 /\ Len(headers) = g
  BY <1>9, ArrayIs DEF Indices
<1>11. X(c).first \in Nat /\ X(c).n \in Nat \ {0} /\ X(c).first + X(c).n <= headIndex
  BY <1>3, <1>9 DEF Lookup, LookupPcs
<1>12. X(c).first \in Owns(c)
  BY <1>3, <1>11 DEF Owns, LookupPcs
<1>13. tailIndex > 0 /\ \A i \in Owns(c) : Number(i) \in Numbers(n, m)
  BY <1>1, <1>2, <1>12, OwnedKept
<1>14. Filled(headers, g, headers[g].front)
  BY <1>9, <1>13 DEF Producer
<1>15. \A i \in Owns(c) : Shows(headers, g, ring, shift, Number(i))
  BY <1>9, <1>13 DEF Indices
<1>16. Lookup(headers, g, c, ring, shift)'
  BY <1>3, <1>6, <1>8, <1>10, <1>11, <1>14, <1>15 DEF Lookup, LookupPcs
<1>17. \A d \in CqConsumers : d # c => \A i \in Owns(c)' : i \notin Owns(d)
  BY <1>1, <1>8 DEF Found, Apart
<1>18. Found(n, g, m, ring, shift)'
  BY <1>1, <1>3, <1>7, <1>8, <1>16, <1>17, SameOwned, ConsumerReads
<1> QED
  BY <1>18 DEF FindInv

\* It loads the front of that index.
LEMMA LoadFrontFinds ==
  ASSUME FindInv, CountInv, NEW c \in CqConsumers, LoadFront(c)
  PROVE  FindInv'
<1>1. PICK n, g, m, ring, shift : Found(n, g, m, ring, shift)
  BY DEF FindInv
<1>2. CqKinds /\ CqShape /\ CqNumbers
  BY DEF CountInv, CqKinds
<1>3. UNCHANGED <<tailIndex, headers, pr, blocks, headIndex>> /\ X(c).pc = "front"
  BY DEF LoadFront, SharedByProducer, AtPc
<1>4. Proceeds(c, [pc |-> "find", front |-> headers[X(c).hdr].front])
  BY DEF LoadFront
<1>5. /\ X(c)' = With([pc |-> "find", front |-> headers[X(c).hdr].front], X(c))
      /\ DOMAIN X(c) = CqFields /\ \A d \in CqConsumers : d # c => X(d)' = X(d)
  BY <1>2, <1>4, ProceedsMoves
<1>6. /\ X(c)'.pc = "find" /\ X(c)'.hdr = X(c).hdr /\ X(c)'.front = headers[X(c).hdr].front
      /\ X(c)'.first = X(c).first /\ X(c)'.n = X(c).n
  BY <1>5 DEF With, CqFields
<1>7. ConsumerMoves(c)
  BY <1>2, <1>3, <1>5 DEF ConsumerMoves, CqNumbers
<1>8. Owns(c)' = Owns(c) /\ MovedOut(c)' = MovedOut(c)
  BY <1>3, <1>6 DEF Owns, MovedOut, LookupPcs
<1>9. Lookup(headers, g, c, ring, shift)
  BY <1>1 DEF Found
<1>10. Lookup(headers, g, c, ring, shift)'
  BY <1>3, <1>6, <1>8, <1>9 DEF Lookup, LookupPcs
<1>11. \A d \in CqConsumers : d # c => \A i \in Owns(c)' : i \notin Owns(d)
  BY <1>1, <1>8 DEF Found, Apart
<1>12. Found(n, g, m, ring, shift)'
  BY <1>1, <1>3, <1>7, <1>8, <1>10, <1>11, SameOwned, ConsumerReads
<1> QED
  BY <1>12 DEF FindInv

\* The distance from the entry at the front, as the bases have it, leads to the entry
\* of the first item, whatever the producer put at the front meanwhile.
LEMMA SlotIs ==
  ASSUME NEW g, NEW shift \in [Nat -> Int], NEW h, h \in 1..g, g \in Nat, NEW p, NEW i \in Nat,
         IndexOK(headers, h, shift), Filled(headers, h, p)
  PROVE  (p + ((Base(i) - headers[h].entries[p].base) \div BLOCK_SIZE)) % headers[h].size
           = At(headers, h, shift, Number(i))
<1>1. PICK j \in Nat : headers[h].entries[p].base = Start(j) /\ p = At(headers, h, shift, j)
  BY DEF IndexOK, Filled
<1>2. PICK size \in Nat \ {0} : size = headers[h].size
  BY DEF IndexOK
<1>3. PICK s \in Int : s = shift[h]
  OBVIOUS
<1>4. PICK k \in Nat : k = Number(i)
  BY NumberIndex
<1>5. (Base(i) - headers[h].entries[p].base) \div BLOCK_SIZE = k - j
  <2>1. Base(i) = Start(k)
    BY <1>4, StartOf
  <2>2. (Start(k) - Start(j)) \div BLOCK_SIZE = k - j
    BY StartOf
  <2> QED
    BY <1>1, <2>1, <2>2
<1>6. p = (j + s) % size
  BY <1>1, <1>2, <1>3 DEF At
<1>7. PICK a \in Int, b \in Int : a = j + s /\ b = k - j
  OBVIOUS
<1>8. ((a % size) + b) % size = (a + b) % size
  BY RingAdd
<1>9. a + b = k + s
  BY <1>7
<1>10. (p + (k - j)) % size = (k + s) % size
  BY <1>6, <1>7, <1>8, <1>9
<1> QED
  BY <1>2, <1>3, <1>4, <1>5, <1>10 DEF At

\* It finds the entry of its first item.
LEMMA FindSlotFinds ==
  ASSUME FindInv, CountInv, NEW c \in CqConsumers, FindSlot(c)
  PROVE  FindInv'
<1>1. PICK n, g, m, ring, shift : Found(n, g, m, ring, shift)
  BY DEF FindInv
<1>2. CqKinds /\ CqShape /\ CqNumbers
  BY DEF CountInv, CqKinds
<1>3. UNCHANGED <<tailIndex, headers, pr, blocks, headIndex>> /\ X(c).pc = "find"
  BY DEF FindSlot, SharedByProducer, AtPc
<1> DEFINE h == X(c).hdr
           p == X(c).front
           slot == (p + ((Base(X(c).first) - headers[h].entries[p].base) \div BLOCK_SIZE)) % headers[h].size
<1>4. Proceeds(c, [pc |-> "move", slot |-> slot, front |-> 0])
  BY DEF FindSlot
<1> HIDE DEF slot
<1>5. /\ X(c)' = With([pc |-> "move", slot |-> slot, front |-> 0], X(c))
      /\ DOMAIN X(c) = CqFields /\ \A d \in CqConsumers : d # c => X(d)' = X(d)
  BY <1>2, <1>4, ProceedsMoves
<1>6. /\ X(c)'.pc = "move" /\ X(c)'.hdr = X(c).hdr /\ X(c)'.slot = slot
      /\ X(c)'.first = X(c).first /\ X(c)'.n = X(c).n
  BY <1>5 DEF With, CqFields
<1>7. ConsumerMoves(c)
  BY <1>2, <1>3, <1>5 DEF ConsumerMoves, CqNumbers
<1>8. Owns(c)' = Owns(c) /\ MovedOut(c)' = MovedOut(c)
  BY <1>3, <1>6 DEF Owns, MovedOut, LookupPcs
<1>9. Lookup(headers, g, c, ring, shift) /\ Indices(headers, g, n, m, ring, shift) /\ shift \in [Nat -> Int]
  BY <1>1 DEF Found
<1>10. X(c).first \in Nat /\ h \in 1..g /\ Filled(headers, h, p) /\ g \in Nat
  BY <1>3, <1>9 DEF Lookup, LookupPcs, Indices, IsArray
<1>11. IndexOK(headers, h, shift)
  BY <1>9, <1>10 DEF Indices
<1>12. slot = At(headers, h, shift, Number(X(c).first))
  BY <1>9, <1>10, <1>11, SlotIs DEF slot
<1>13. Lookup(headers, g, c, ring, shift)'
  BY <1>3, <1>6, <1>8, <1>9, <1>12 DEF Lookup, LookupPcs
<1>14. \A d \in CqConsumers : d # c => \A i \in Owns(c)' : i \notin Owns(d)
  BY <1>1, <1>8 DEF Found, Apart
<1>15. Found(n, g, m, ring, shift)'
  BY <1>1, <1>3, <1>7, <1>8, <1>13, <1>14, SameOwned, ConsumerReads
<1> QED
  BY <1>15 DEF FindInv

\* The ring is made of the links of the blocks.
LEMMA RingKept ==
  ASSUME NEW n, NEW m, NEW ring, NEW bs, NEW as, Ring(bs, n, m, ring), IsArray(as, n),
         \A b \in 1..n : as[b].next = bs[b].next
  PROVE  Ring(as, n, m, ring)
  BY DEF Ring

\* Where a call is about to move items from, or has just done so.
LEMMA BlockFound ==
  ASSUME NEW n, NEW g, NEW m, NEW ring, NEW shift, Found(n, g, m, ring, shift), CqNumbers, HeadWithinTail,
         NEW c \in CqConsumers, X(c).pc \in {"move", "flag"}
  PROVE  /\ X(c).first \in Nat /\ X(c).n \in Nat \ {0} /\ X(c).first + X(c).n <= headIndex
         /\ Number(X(c).first) \in Numbers(n, m) /\ FoundBlock(c) = ring[Number(X(c).first)]
<1>1. Lookup(headers, g, c, ring, shift)
  BY DEF Found
<1>2. X(c).first \in Nat /\ X(c).n \in Nat \ {0} /\ X(c).first + X(c).n <= headIndex
  BY <1>1 DEF Lookup, LookupPcs
<1>3. X(c).first \in Owns(c)
  BY <1>2 DEF Owns, LookupPcs
<1>4. Number(X(c).first) \in Numbers(n, m)
  BY <1>3, OwnedKept
<1>5. /\ Shows(headers, X(c).hdr, ring, shift, Number(X(c).first))
      /\ X(c).slot = At(headers, X(c).hdr, shift, Number(X(c).first))
  BY <1>1, <1>3 DEF Lookup, LookupPcs
<1>6. FoundBlock(c) = ring[Number(X(c).first)]
  BY <1>5 DEF FoundBlock, Shows
<1> QED
  BY <1>2, <1>4, <1>6

\* The places of the items of one block.
PlacesOf(S) == {i % BLOCK_SIZE : i \in S}

\* An item of the block with number k is at its place.
LEMMA PlacesAre ==
  ASSUME NEW S, NEW k \in Nat, \A i \in S : i \in Nat /\ Number(i) = k
  PROVE  \A s \in Slots : s \in PlacesOf(S) <=> Index(k, s) \in S
<1> SUFFICES ASSUME NEW s \in Slots PROVE s \in PlacesOf(S) <=> Index(k, s) \in S
  OBVIOUS
<1>1. ASSUME s \in PlacesOf(S) PROVE Index(k, s) \in S
  <2>1. PICK i \in S : s = i % BLOCK_SIZE
    BY <1>1 DEF PlacesOf
  <2>2. Index(Number(i), i % BLOCK_SIZE) = i
    BY NumberIndex
  <2> QED
    BY <2>1, <2>2
<1>2. ASSUME Index(k, s) \in S PROVE s \in PlacesOf(S)
  <2>1. Index(k, s) % BLOCK_SIZE = s
    BY IndexNumber
  <2> QED
    BY <1>2, <2>1 DEF PlacesOf
<1> QED
  BY <1>1, <1>2

\* The items of one block are moved out.
LEMMA MoveOutFinds ==
  ASSUME FindInv, CountInv, HeadWithinTail, NEW c \in CqConsumers, MoveOut(c)
  PROVE  FindInv'
<1>1. PICK n, g, m, ring, shift : Found(n, g, m, ring, shift)
  BY DEF FindInv
<1>2. CqKinds /\ CqShape /\ CqNumbers
  BY DEF CountInv, CqKinds
<1>3. UNCHANGED <<tailIndex, headers, pr, headIndex>> /\ X(c).pc = "move"
  BY DEF MoveOut, SharedByProducer, AtPc
<1>4. Proceeds(c, [pc |-> "flag", slot |-> X(c).slot])
  BY DEF MoveOut
<1>5. /\ X(c)' = With([pc |-> "flag", slot |-> X(c).slot], X(c))
      /\ DOMAIN X(c) = CqFields /\ \A d \in CqConsumers : d # c => X(d)' = X(d)
  BY <1>2, <1>4, ProceedsMoves
<1>6. /\ X(c)'.pc = "flag" /\ X(c)'.hdr = X(c).hdr /\ X(c)'.slot = X(c).slot
      /\ X(c)'.first = X(c).first /\ X(c)'.n = X(c).n
  BY <1>5 DEF With, CqFields
<1>7. ConsumerMoves(c)
  BY <1>2, <1>3, <1>5 DEF ConsumerMoves, CqNumbers
<1>8. /\ X(c).first \in Nat /\ X(c).n \in Nat \ {0} /\ X(c).first + X(c).n <= headIndex
      /\ Number(X(c).first) \in Numbers(n, m) /\ FoundBlock(c) = ring[Number(X(c).first)]
  BY <1>1, <1>2, <1>3, BlockFound
<1>9. n \in Nat /\ m \in Nat /\ n <= m /\ Ring(blocks, n, m, ring) /\ Contents(blocks, n, m, ring)
  BY <1>1 DEF Found, Ring, IsArray
<1>10. PICK k \in Nat : k \in Numbers(n, m) /\ k = Number(X(c).first)
  BY <1>8, <1>9, NumberIndex
<1>11. PICK b \in 1..n : b = ring[k] /\ b = FoundBlock(c)
  BY <1>8, <1>9, <1>10 DEF Ring
<1> DEFINE P == Part(c)
<1>12. /\ \A i \in P : i \in Nat /\ Number(i) = k /\ i \in Owns(c)
       /\ Owns(c)' = Owns(c) /\ MovedOut(c)' = P /\ MovedOut(c) = {}
  <2>1. Part(c) \subseteq X(c).first..(X(c).first + X(c).n - 1)
        /\ \A i \in X(c).first..(X(c).first + X(c).n - 1) : i \in Part(c) <=> Number(i) = Number(X(c).first)
    BY <1>8, PartIs
  <2>2. Owns(c) = X(c).first..(X(c).first + X(c).n - 1)
    BY <1>3 DEF Owns, LookupPcs
  <2>3. \A i \in P : i \in Nat /\ Number(i) = k /\ i \in Owns(c)
    BY <1>8, <1>10, <2>1, <2>2
  <2>4. Part(c)' = Part(c)
    BY <1>6 DEF Part
  <2>5. Owns(c)' = Owns(c) /\ MovedOut(c)' = P /\ MovedOut(c) = {}
    BY <1>3, <1>6, <2>4 DEF Owns, MovedOut, LookupPcs
  <2> QED
    BY <2>3, <2>5
<1>13. blocks' = [blocks EXCEPT ![b].item = [s \in Slots |-> IF s \in PlacesOf(P) THEN NoItem ELSE @[s]]]
  BY <1>11 DEF MoveOut, PlacesOf
<1> HIDE DEF P
<1>14. \A s \in Slots : s \in PlacesOf(P) <=> Index(k, s) \in P
  BY <1>12, PlacesAre
<1>15. \A d \in CqConsumers : d # c => Owns(d)' = Owns(d) /\ MovedOut(d)' = MovedOut(d)
  BY <1>5 DEF Owns, MovedOut, Part
<1>16. ASSUME NEW i \in Nat
       PROVE  (Gone(i)' <=> Gone(i) \/ i \in P) /\ (Flagged(i)' <=> Flagged(i))
  <2>1. Flagged(i)' <=> Flagged(i)
    BY <1>3, <1>12, <1>15 DEF Flagged
  <2>2. CASE i \in P
    <3>1. i \in Owns(c) /\ \A d \in CqConsumers : i \in Owns(d) => d = c
      BY <1>1, <1>12, <2>2 DEF Found, Apart
    <3>2. i < headIndex
      BY <1>1, <1>2, <3>1, OwnedKept
    <3> QED
      BY <1>3, <1>12, <1>15, <2>1, <2>2, <3>1, <3>2 DEF Gone
  <2>3. CASE i \notin P
    BY <1>3, <1>12, <1>15, <2>1, <2>3 DEF Gone
  <2> QED
    BY <2>2, <2>3
<1>17. IsArray(blocks, n) /\ IsBlock(blocks[b])
  BY <1>9, <1>10, <1>11 DEF Ring, Contents
<1>18. /\ IsArray(blocks', n)
       /\ \A a \in 1..n : a # b => blocks'[a] = blocks[a]
       /\ DOMAIN blocks'[b] = {"next", "item", "empty"}
       /\ blocks'[b].next = blocks[b].next /\ blocks'[b].empty = blocks[b].empty
       /\ blocks'[b].item = [s \in Slots |-> IF s \in PlacesOf(P) THEN NoItem ELSE blocks[b].item[s]]
  BY <1>13, <1>17 DEF IsArray, IsBlock
<1>19. Ring(blocks, n, m, ring)'
  <2>1. \A a \in 1..n : blocks'[a].next = blocks[a].next
    BY <1>18
  <2> QED
    BY <1>9, <1>18, <2>1, RingKept
<1>20. Stored' = Stored /\ Opened(m)' = Opened(m)
  BY <1>3 DEF Stored, Opened, Fresh
<1>21. Contents(blocks, n, m, ring)'
  <2> SUFFICES ASSUME NEW j \in Numbers(n, m)
               PROVE  IsBlock(blocks'[ring[j]]) /\ HasItems(blocks[ring[j]], j, m)'
    BY DEF Contents
  <2>1. j \in Nat /\ IsBlock(blocks[ring[j]]) /\ HasItems(blocks[ring[j]], j, m) /\ ring[j] \in 1..n
    BY <1>9 DEF Numbers, Contents, Ring
  <2>2. \A s \in Slots : Index(j, s) \in Nat /\ Number(Index(j, s)) = j
    BY <2>1, IndexNumber
  <2>3. CASE j # k
    <3>1. blocks'[ring[j]] = blocks[ring[j]]
      BY <1>9, <1>10, <1>11, <1>18, <2>1, <2>3 DEF Ring
    <3>2. \A s \in Slots : Index(j, s) \notin P
      BY <1>12, <2>2, <2>3
    <3>3. \A s \in Slots : (Gone(Index(j, s))' <=> Gone(Index(j, s))) /\ (Flagged(Index(j, s))' <=> Flagged(Index(j, s)))
      BY <1>16, <2>2, <3>2
    <3>4. HasItems(blocks[ring[j]], j, m)'
      BY <1>20, <2>1, <3>1, <3>3 DEF HasItems
    <3> QED
      BY <2>1, <3>1, <3>4
  <2>4. CASE j = k
    <3>1. ring[j] = b
      BY <1>11, <2>4
    <3>2. IsBlock(blocks'[b])
      BY <1>17, <1>18 DEF IsBlock, NoItem
    <3>3. \A s \in Slots : /\ Gone(Index(j, s))' <=> Gone(Index(j, s)) \/ s \in PlacesOf(P)
                           /\ Flagged(Index(j, s))' <=> Flagged(Index(j, s))
      BY <1>14, <1>16, <2>2, <2>4
    <3>4. HasItems(blocks[ring[j]], j, m)'
      BY <1>18, <1>20, <2>1, <3>1, <3>3 DEF HasItems
    <3> QED
      BY <3>1, <3>2, <3>4
  <2> QED
    BY <2>3, <2>4
<1>22. Lookup(headers, g, c, ring, shift)'
  <2>1. Lookup(headers, g, c, ring, shift)
    BY <1>1 DEF Found
  <2> QED
    BY <1>3, <1>6, <1>12, <2>1 DEF Lookup, LookupPcs
<1>23. \A d \in CqConsumers : d # c => \A i \in Owns(c)' : i \notin Owns(d)
  BY <1>1, <1>12 DEF Found, Apart
<1>24. \A i \in Nat : Flagged(i) => Flagged(i)'
  BY <1>16
<1>25. Found(n, g, m, ring, shift)'
  BY <1>1, <1>7, <1>19, <1>21, <1>22, <1>23, <1>24, ConsumerLeaves
<1> QED
  BY <1>25 DEF FindInv

\* What is left of a call after a part of k items.
LEMMA PartDone ==
  ASSUME NEW c \in CqConsumers, CqShape, SetEmpty(c), NEW k \in Nat, k = Cardinality(Part(c)),
         X(c).n \in Nat, k <= X(c).n
  PROVE  /\ \A d \in CqConsumers : d # c => X(d)' = X(d)
         /\ k = X(c).n => X(c)'.pc = "idle"
         /\ k < X(c).n => /\ X(c)'.pc = "move" /\ X(c)'.hdr = X(c).hdr
                          /\ X(c)'.first = X(c).first + k /\ X(c)'.n = X(c).n - k
                          /\ X(c)'.slot = (X(c).slot + 1) % headers[X(c).hdr].size
<1> DEFINE first == X(c).first + k
           left == X(c).n - k
           slot == (X(c).slot + 1) % headers[X(c).hdr].size
<1>1. Proceeds(c, IF left = 0 THEN Idle ELSE [pc |-> "move", first |-> first, n |-> left, slot |-> slot])
  BY DEF SetEmpty
<1>2. k = X(c).n <=> left = 0
  OBVIOUS
<1> HIDE DEF first, left, slot
<1>3. CASE left = 0
  <2>1. Proceeds(c, Idle)
    BY <1>1, <1>3
  <2>2. /\ X(c)' = With(Idle, X(c)) /\ DOMAIN X(c) = CqFields
        /\ \A d \in CqConsumers : d # c => X(d)' = X(d)
    BY <2>1, ProceedsMoves
  <2>3. X(c)'.pc = "idle"
    BY <2>2 DEF With, CqFields, Idle
  <2> QED
    BY <1>2, <1>3, <2>2, <2>3
<1>4. CASE left # 0
  <2>1. Proceeds(c, [pc |-> "move", first |-> first, n |-> left, slot |-> slot])
    BY <1>1, <1>4
  <2>2. /\ X(c)' = With([pc |-> "move", first |-> first, n |-> left, slot |-> slot], X(c)) /\ DOMAIN X(c) = CqFields
        /\ \A d \in CqConsumers : d # c => X(d)' = X(d)
    BY <2>1, ProceedsMoves
  <2>3. /\ X(c)'.pc = "move" /\ X(c)'.hdr = X(c).hdr
        /\ X(c)'.first = first /\ X(c)'.n = left /\ X(c)'.slot = slot
    BY <2>2 DEF With, CqFields
  <2> QED
    BY <1>2, <1>4, <2>2, <2>3 DEF first, left, slot
<1> QED
  BY <1>3, <1>4

\* The items moved out are flagged, and the call goes on with the next entry.
LEMMA SetEmptyFinds ==
  ASSUME FindInv, CountInv, HeadWithinTail, NEW c \in CqConsumers, SetEmpty(c)
  PROVE  FindInv'
<1>1. PICK n, g, m, ring, shift : Found(n, g, m, ring, shift)
  BY DEF FindInv
<1>2. CqKinds /\ CqShape /\ CqNumbers
  BY DEF CountInv, CqKinds
<1>3. UNCHANGED <<tailIndex, headers, pr, headIndex>> /\ X(c).pc = "flag"
  BY DEF SetEmpty, SharedByProducer, AtPc
<1>4. /\ X(c).first \in Nat /\ X(c).n \in Nat \ {0} /\ X(c).first + X(c).n <= headIndex
      /\ Number(X(c).first) \in Numbers(n, m) /\ FoundBlock(c) = ring[Number(X(c).first)]
  BY <1>1, <1>2, <1>3, BlockFound
<1>5. PICK first \in Nat, t \in Nat \ {0} : first = X(c).first /\ t = X(c).n
  BY <1>4
<1>6. PICK p \in 1..t :
           /\ Part(c) = first..(first + p - 1) /\ Cardinality(Part(c)) = p
           /\ \A i \in first..(first + t - 1) : i \in Part(c) <=> Number(i) = Number(first)
           /\ p < t => Number(first + p) = Number(first) + 1
  BY <1>5, PartIs
<1>7. /\ \A d \in CqConsumers : d # c => X(d)' = X(d)
      /\ p = t => X(c)'.pc = "idle"
      /\ p < t => /\ X(c)'.pc = "move" /\ X(c)'.hdr = X(c).hdr
                  /\ X(c)'.first = first + p /\ X(c)'.n = t - p
                  /\ X(c)'.slot = (X(c).slot + 1) % headers[X(c).hdr].size
  <2>1. p \in Nat /\ p = Cardinality(Part(c)) /\ X(c).n \in Nat /\ p <= X(c).n
    BY <1>5, <1>6
  <2> QED
    BY <1>2, <1>5, <2>1, PartDone
<1>8. ConsumerMoves(c)
  BY <1>2, <1>3, <1>7 DEF ConsumerMoves, CqNumbers
<1>9. n \in Nat /\ m \in Nat /\ n <= m /\ Ring(blocks, n, m, ring) /\ Contents(blocks, n, m, ring)
  BY <1>1 DEF Found, Ring, IsArray
<1>10. PICK k \in Nat : k \in Numbers(n, m) /\ k = Number(first)
  BY <1>4, <1>5, <1>9, NumberIndex
<1>11. PICK b \in 1..n : b = ring[k] /\ b = FoundBlock(c)
  BY <1>4, <1>5, <1>9, <1>10 DEF Ring
<1> DEFINE P == Part(c)
<1>12. /\ \A i \in P : i \in Nat /\ Number(i) = k /\ i \in Owns(c)
       /\ Owns(c) = first..(first + t - 1) /\ MovedOut(c) = P /\ MovedOut(c)' = {}
       /\ \A i \in Nat : i \in Owns(c)' <=> i \in Owns(c) /\ i \notin P
  <2>1. Owns(c) = first..(first + t - 1) /\ MovedOut(c) = P
    BY <1>3, <1>5 DEF Owns, LookupPcs, MovedOut
  <2>2. \A i \in P : i \in Nat /\ Number(i) = k /\ i \in Owns(c)
    BY <1>6, <1>10, <2>1
  <2>3. CASE p = t
    <3>1. Owns(c)' = {} /\ MovedOut(c)' = {}
      BY <1>7, <2>3 DEF Owns, MovedOut, LookupPcs
    <3> QED
      BY <1>6, <2>1, <2>2, <2>3, <3>1
  <2>4. CASE p < t
    <3>1. Owns(c)' = (first + p)..((first + p) + (t - p) - 1) /\ MovedOut(c)' = {}
      BY <1>7, <2>4 DEF Owns, MovedOut, LookupPcs
    <3>2. \A i \in Nat : i \in Owns(c)' <=> i \in Owns(c) /\ i \notin P
      BY <1>6, <2>1, <2>4, <3>1
    <3> QED
      BY <2>1, <2>2, <3>1, <3>2
  <2> QED
    BY <1>6, <2>3, <2>4
<1>13. blocks' = [blocks EXCEPT ![b].empty = [s \in Slots |-> @[s] \/ s \in PlacesOf(P)]]
  BY <1>11 DEF SetEmpty, SetManyEmpty, PlacesOf
<1> HIDE DEF P
<1>14. \A s \in Slots : s \in PlacesOf(P) <=> Index(k, s) \in P
  BY <1>12, PlacesAre
<1>15. \A d \in CqConsumers : d # c => Owns(d)' = Owns(d) /\ MovedOut(d)' = MovedOut(d)
  BY <1>7 DEF Owns, MovedOut, Part
<1>16. ASSUME NEW i \in Nat
       PROVE  (Gone(i)' <=> Gone(i)) /\ (Flagged(i)' <=> Flagged(i) \/ i \in P)
  <2>1. CASE i \in P
    <3>1. i \in Owns(c) /\ i \in MovedOut(c) /\ i \notin Owns(c)' /\ \A d \in CqConsumers : i \in Owns(d) => d = c
      BY <1>1, <1>12, <2>1 DEF Found, Apart
    <3>2. i < headIndex
      BY <1>1, <1>2, <3>1, OwnedKept
    <3>3. Gone(i) /\ \A d \in CqConsumers : i \notin Owns(d)'
      BY <1>15, <3>1, <3>2 DEF Gone
    <3> QED
      BY <1>3, <2>1, <3>2, <3>3 DEF Gone, Flagged
  <2>2. CASE i \notin P
    <3>1. (i \in Owns(c)' <=> i \in Owns(c)) /\ i \notin MovedOut(c) /\ i \notin MovedOut(c)'
      BY <1>12, <2>2
    <3> QED
      BY <1>3, <1>15, <2>2, <3>1 DEF Gone, Flagged
  <2> QED
    BY <2>1, <2>2
<1>17. IsArray(blocks, n) /\ IsBlock(blocks[b])
  BY <1>9, <1>10, <1>11 DEF Ring, Contents
<1>18. /\ IsArray(blocks', n)
       /\ \A a \in 1..n : a # b => blocks'[a] = blocks[a]
       /\ DOMAIN blocks'[b] = {"next", "item", "empty"}
       /\ blocks'[b].next = blocks[b].next /\ blocks'[b].item = blocks[b].item
       /\ blocks'[b].empty = [s \in Slots |-> blocks[b].empty[s] \/ s \in PlacesOf(P)]
  BY <1>13, <1>17 DEF IsArray, IsBlock
<1>19. Ring(blocks, n, m, ring)'
  <2>1. \A a \in 1..n : blocks'[a].next = blocks[a].next
    BY <1>18
  <2> QED
    BY <1>9, <1>18, <2>1, RingKept
<1>20. Stored' = Stored /\ Opened(m)' = Opened(m)
  BY <1>3 DEF Stored, Opened, Fresh
<1>21. Contents(blocks, n, m, ring)'
  <2> SUFFICES ASSUME NEW j \in Numbers(n, m)
               PROVE  IsBlock(blocks'[ring[j]]) /\ HasItems(blocks[ring[j]], j, m)'
    BY DEF Contents
  <2>1. j \in Nat /\ IsBlock(blocks[ring[j]]) /\ HasItems(blocks[ring[j]], j, m) /\ ring[j] \in 1..n
    BY <1>9 DEF Numbers, Contents, Ring
  <2>2. \A s \in Slots : Index(j, s) \in Nat /\ Number(Index(j, s)) = j
    BY <2>1, IndexNumber
  <2>3. CASE j # k
    <3>1. blocks'[ring[j]] = blocks[ring[j]]
      BY <1>9, <1>10, <1>11, <1>18, <2>1, <2>3 DEF Ring
    <3>2. \A s \in Slots : Index(j, s) \notin P
      BY <1>12, <2>2, <2>3
    <3>3. \A s \in Slots : (Gone(Index(j, s))' <=> Gone(Index(j, s))) /\ (Flagged(Index(j, s))' <=> Flagged(Index(j, s)))
      BY <1>16, <2>2, <3>2
    <3>4. HasItems(blocks[ring[j]], j, m)'
      BY <1>20, <2>1, <3>1, <3>3 DEF HasItems
    <3> QED
      BY <2>1, <3>1, <3>4
  <2>4. CASE j = k
    <3>1. ring[j] = b
      BY <1>11, <2>4
    <3>2. IsBlock(blocks'[b])
      <4>1. blocks[b].item \in [Slots -> Int] /\ blocks[b].empty \in [Slots -> BOOLEAN]
        BY <1>17 DEF IsBlock
      <4>2. blocks'[b].empty \in [Slots -> BOOLEAN]
        BY <1>18
      <4> QED
        BY <1>18, <4>1, <4>2 DEF IsBlock
    <3>3. \A s \in Slots : /\ Gone(Index(j, s))' <=> Gone(Index(j, s))
                           /\ Flagged(Index(j, s))' <=> Flagged(Index(j, s)) \/ s \in PlacesOf(P)
      BY <1>14, <1>16, <2>2, <2>4
    <3>4. \A s \in Slots : blocks'[b].empty[s] <=> blocks[b].empty[s] \/ s \in PlacesOf(P)
      BY <1>18
    <3>5. \A s \in Slots : blocks'[b].empty[s] <=> (j < Opened(m) => Flagged(Index(j, s))')
      BY <2>1, <3>1, <3>3, <3>4 DEF HasItems
    <3>6. HasItems(blocks[ring[j]], j, m)'
      BY <1>18, <1>20, <2>1, <3>1, <3>3, <3>5 DEF HasItems
    <3> QED
      BY <3>1, <3>2, <3>6
  <2> QED
    BY <2>3, <2>4
<1>22. Lookup(headers, g, c, ring, shift)'
  <2>1. Lookup(headers, g, c, ring, shift) /\ Indices(headers, g, n, m, ring, shift) /\ shift \in [Nat -> Int]
    BY <1>1 DEF Found
  <2>2. CASE p = t
    BY <1>7, <2>2 DEF Lookup, LookupPcs
  <2>3. CASE p < t
    <3>1. PICK h \in 1..g : h = X(c).hdr /\ g \in Nat
      BY <1>3, <2>1 DEF Lookup, LookupPcs, Indices, IsArray
    <3>2. PICK size \in Nat \ {0} : size = headers[h].size
      BY <2>1, <3>1 DEF Indices, IndexOK
    <3>3. PICK s \in Int : s = shift[h]
      BY <2>1, <3>1
    <3>4. X(c).slot = (k + s) % size
      BY <1>3, <1>5, <1>10, <2>1, <3>1, <3>2, <3>3 DEF Lookup, At
    <3>5. X(c)'.slot = ((k + 1) + s) % size
      <4>1. PICK a \in Int, u \in Int : a = k + s /\ u = 1
        OBVIOUS
      <4>2. ((a % size) + u) % size = (a + u) % size
        BY RingAdd
      <4>3. a + u = (k + 1) + s
        BY <4>1
      <4> QED
        BY <1>7, <2>3, <3>1, <3>2, <3>4, <4>1, <4>2, <4>3
    <3>6. X(c)'.slot = At(headers, h, shift, Number(first + p))
      BY <1>6, <1>10, <2>3, <3>2, <3>3, <3>5 DEF At
    <3>7. \A i \in Owns(c) : Shows(headers, h, ring, shift, Number(i))
      BY <1>3, <2>1, <3>1 DEF Lookup, LookupPcs
    <3>8. Owns(c)' \subseteq Owns(c)
      <4>1. Owns(c)' = (first + p)..((first + p) + (t - p) - 1)
        BY <1>7, <2>3 DEF Owns, LookupPcs
      <4> QED
        BY <1>12, <4>1
    <3>9. first + p \in Nat /\ t - p \in Nat \ {0} /\ (first + p) + (t - p) <= headIndex
      <4>1. headIndex \in Nat
        BY <1>2 DEF CqNumbers
      <4> QED
        BY <1>4, <1>5, <2>3, <4>1
    <3> QED
      BY <1>3, <1>7, <2>3, <3>1, <3>6, <3>7, <3>8, <3>9 DEF Lookup, LookupPcs
  <2> QED
    BY <1>6, <2>2, <2>3
<1>23. \A d \in CqConsumers : d # c => \A i \in Owns(c)' : i \notin Owns(d)
  <2>1. \A i \in Owns(c)' : i \in Owns(c)
    <3>1. Owns(c)' \subseteq Nat
      <4>1. CASE p = t
        BY <1>7, <4>1 DEF Owns, LookupPcs
      <4>2. CASE p < t
        <5>1. Owns(c)' = (first + p)..((first + p) + (t - p) - 1)
          BY <1>7, <4>2 DEF Owns, LookupPcs
        <5> QED
          BY <5>1
      <4> QED
        BY <1>6, <4>1, <4>2
    <3> QED
      BY <1>12, <3>1
  <2> QED
    BY <1>1, <2>1 DEF Found, Apart
<1>24. \A i \in Nat : Flagged(i) => Flagged(i)'
  BY <1>16
<1>25. Found(n, g, m, ring, shift)'
  BY <1>1, <1>8, <1>19, <1>21, <1>22, <1>23, <1>24, ConsumerLeaves
<1> QED
  BY <1>25 DEF FindInv

\* A call that goes on before it has claimed an index.
LEMMA ProceedsUnclaimed ==
  ASSUME FindInv, CountInv, NEW c \in CqConsumers, NEW STATE r, Proceeds(c, r),
         X(c).pc \notin LookupPcs, "pc" \in DOMAIN r, r["pc"] \notin LookupPcs,
         UNCHANGED <<tailIndex, headers, pr, blocks, headIndex>>
  PROVE  FindInv'
<1>1. CqShape /\ CqNumbers
  BY DEF CountInv, CqKinds
<1>2. X(c)' = With(r, X(c)) /\ DOMAIN X(c) = CqFields /\ \A d \in CqConsumers : d # c => X(d)' = X(d)
  BY <1>1, ProceedsMoves
<1>3. X(c)'.pc \notin LookupPcs
  BY <1>2 DEF With, CqFields
<1>4. ConsumerMoves(c)
  BY <1>1, <1>2 DEF ConsumerMoves, CqNumbers
<1> QED
  BY <1>3, <1>4, Unclaimed

\* A new call.
LEMMA CallDequeueFinds ==
  ASSUME FindInv, CountInv, NEW c \in CqConsumers, NEW max, CallDequeue(c, max)
  PROVE  FindInv'
<1>1. CqShape /\ CqNumbers
  BY DEF CountInv, CqKinds
<1>2. /\ X(c)' = With([pc |-> "overcommit", max |-> max, tail |-> tailIndex], Idle)
      /\ \A d \in CqConsumers : d # c => deq[d]' = deq[d]
  BY <1>1 DEF CallDequeue, CqShape, X
<1>3. X(c)'.pc = "overcommit" /\ X(c).pc = "idle" /\ \A d \in CqConsumers : d # c => X(d)' = X(d)
  BY <1>2 DEF With, Idle, X, CallDequeue, AtPc
<1>4. UNCHANGED <<tailIndex, headers, pr, blocks, headIndex>>
  BY DEF CallDequeue, SharedByProducer
<1>5. ConsumerMoves(c)
  BY <1>1, <1>3, <1>4 DEF ConsumerMoves, CqNumbers
<1> QED
  BY <1>3, <1>4, <1>5, Unclaimed DEF LookupPcs

\* Every step of a consumer keeps the invariant.
LEMMA ConsumerFinds ==
  ASSUME FindInv, CountInv, CountInv', HeadWithinTail, NEW c \in CqConsumers, ConsumerStep(c)
  PROVE  FindInv'
<1>1. CASE DequeueOne(c)
  BY <1>1, CallDequeueFinds DEF DequeueOne
<1>2. CASE DequeueMany(c)
  BY <1>2, CallDequeueFinds DEF DequeueMany
<1>3. CASE LoadOvercommit(c)
  <2>1. UNCHANGED <<tailIndex, headers, pr, blocks, headIndex>> /\ X(c).pc = "overcommit"
    BY <1>3 DEF LoadOvercommit, SharedByProducer, AtPc
  <2>2. Proceeds(c, [pc |-> "desire", over |-> dequeueOvercommit])
    BY <1>3 DEF LoadOvercommit
  <2> QED
    BY <2>1, <2>2, ProceedsUnclaimed DEF LookupPcs
<1>4. CASE LoadOptimistic(c)
  <2> DEFINE desired == X(c).tail - (dequeueOptimisticCount - X(c).over)
             want == Min({desired, X(c).max})
  <2>1. UNCHANGED <<tailIndex, headers, pr, blocks, headIndex>> /\ X(c).pc = "desire"
    BY <1>4 DEF LoadOptimistic, SharedByProducer, AtPc
  <2>2. Proceeds(c, IF desired > 0 THEN [pc |-> "claim", want |-> want, max |-> 0, tail |-> 0] ELSE Idle)
    BY <1>4 DEF LoadOptimistic
  <2> HIDE DEF desired, want
  <2>3. CASE desired > 0
    <3>1. Proceeds(c, [pc |-> "claim", want |-> want, max |-> 0, tail |-> 0])
      BY <2>2, <2>3
    <3> QED
      BY <2>1, <3>1, ProceedsUnclaimed DEF LookupPcs
  <2>4. CASE ~(desired > 0)
    <3>1. Proceeds(c, Idle)
      BY <2>2, <2>4
    <3>2. "pc" \in DOMAIN Idle /\ Idle["pc"] = "idle"
      BY DEF Idle
    <3> QED
      BY <2>1, <3>1, <3>2, ProceedsUnclaimed DEF LookupPcs
  <2> QED
    BY <2>3, <2>4
<1>5. CASE ClaimCount(c)
  <2>1. UNCHANGED <<tailIndex, headers, pr, blocks, headIndex>> /\ X(c).pc = "claim"
    BY <1>5 DEF ClaimCount, SharedByProducer, AtPc
  <2>2. Proceeds(c, [pc |-> "recheck", my |-> dequeueOptimisticCount])
    BY <1>5 DEF ClaimCount
  <2> QED
    BY <2>1, <2>2, ProceedsUnclaimed DEF LookupPcs
<1>6. CASE Recheck(c)
  <2> DEFINE actual == Actual(c)
  <2>1. UNCHANGED <<tailIndex, headers, pr, blocks, headIndex>> /\ X(c).pc = "recheck"
    BY <1>6 DEF Recheck, SharedByProducer, AtPc
  <2>2. Proceeds(c, [n |-> actual, pc |-> IF actual < X(c).want THEN "giveback" ELSE "head"])
    BY <1>6 DEF Recheck
  <2> HIDE DEF actual
  <2>3. (IF actual < X(c).want THEN "giveback" ELSE "head") \notin LookupPcs
    BY DEF LookupPcs
  <2> QED
    BY <2>1, <2>2, <2>3, ProceedsUnclaimed DEF LookupPcs
<1>7. CASE AddOvercommit(c)
  <2>1. UNCHANGED <<tailIndex, headers, pr, blocks, headIndex>> /\ X(c).pc = "giveback"
    BY <1>7 DEF AddOvercommit, SharedByProducer, AtPc
  <2>2. Proceeds(c, IF X(c).n > 0 THEN [pc |-> "head"] ELSE Idle)
    BY <1>7 DEF AddOvercommit
  <2>3. CASE X(c).n > 0
    <3>1. Proceeds(c, [pc |-> "head"])
      BY <2>2, <2>3
    <3> QED
      BY <2>1, <3>1, ProceedsUnclaimed DEF LookupPcs
  <2>4. CASE ~(X(c).n > 0)
    <3>1. Proceeds(c, Idle)
      BY <2>2, <2>4
    <3>2. "pc" \in DOMAIN Idle /\ Idle["pc"] = "idle"
      BY DEF Idle
    <3> QED
      BY <2>1, <3>1, <3>2, ProceedsUnclaimed DEF LookupPcs
  <2> QED
    BY <2>3, <2>4
<1>8. CASE ClaimIndex(c)
  BY <1>8, ClaimIndexFinds
<1>9. CASE LoadIndex(c)
  BY <1>9, LoadIndexFinds
<1>10. CASE LoadFront(c)
  BY <1>10, LoadFrontFinds
<1>11. CASE FindSlot(c)
  BY <1>11, FindSlotFinds
<1>12. CASE MoveOut(c)
  BY <1>12, MoveOutFinds
<1>13. CASE SetEmpty(c)
  BY <1>13, SetEmptyFinds
<1> QED
  BY <1>1, <1>2, <1>3, <1>4, <1>5, <1>6, <1>7, <1>8, <1>9, <1>10, <1>11, <1>12, <1>13 DEF ConsumerStep, ClaimStep

-----------------------------------------------------------------------------
(* ExplicitProducer: the block index                                       *)

\* What consumers may rely on when block indices as become hs.
IndexKept(as, hs, g, shift, next) ==
  \A h \in 1..g :
    /\ hs[h].size = as[h].size /\ next[h] = shift[h]
    /\ \A p : Filled(as, h, p) => Filled(hs, h, p)

\* A block index that does not change stays as it is.
LEMMA SameIndex ==
  ASSUME NEW as, NEW hs, NEW h, NEW shift, hs[h] = as[h]
  PROVE  /\ \A p : Filled(hs, h, p) <=> Filled(as, h, p)
         /\ \A k : At(hs, h, shift, k) = At(as, h, shift, k)
         /\ IndexOK(hs, h, shift) <=> IndexOK(as, h, shift)
<1>1. \A p : Filled(hs, h, p) <=> Filled(as, h, p)
  BY DEF Filled
<1>2. \A k : At(hs, h, shift, k) = At(as, h, shift, k)
  BY DEF At
<1>3. IndexOK(hs, h, shift) <=> IndexOK(as, h, shift)
  BY <1>1, <1>2 DEF IndexOK
<1> QED
  BY <1>1, <1>2, <1>3

\* An entry is written into block index g.
PutAt(as, g, p, e) == [as EXCEPT ![g].entries[p] = e]

\* ring becomes new: number m goes to block b.
Numbered(new, ring, m, b) == new[m] = b /\ \A k \in Nat : k # m => new[k] = ring[k]

\* A block with number m gets its entry, in place of the oldest if the index is full.
EntryPut(as, hs, g, n, t, m, ring, new, shift, b) ==
  /\ Indices(as, g, n, m, ring, shift) /\ t <= n + 1 /\ t <= as[g].size /\ t <= m + 1
  /\ hs = PutAt(as, g, At(as, g, shift, m), [base |-> Start(m), block |-> b])
  /\ Numbered(new, ring, m, b)

EntryThere(as, hs, g, t, m, ring, new, shift) ==
  /\ Indices(hs, g, t, m + 1, new, shift) /\ IndexKept(as, hs, g, shift, shift)
  /\ \A h \in 1..g : hs[h].front = as[h].front
  /\ At(hs, g, shift, m + 1) = (At(as, g, shift, m) + 1) % as[g].size
  /\ \A h \in 1..g, k \in Nat :
       k < m /\ m < k + as[g].size /\ Shows(as, h, ring, shift, k) => Shows(hs, h, new, shift, k)

\* Then the index has the entries of t blocks, and keeps the others as far as it can.
LEMMA PutEntryIndex ==
  ASSUME NEW n \in Nat, NEW t \in Nat, NEW g, NEW m \in Nat, NEW ring \in [Nat -> Nat], NEW shift \in [Nat -> Int],
         NEW as, NEW b \in Nat \ {0}, NEW hs, NEW new, EntryPut(as, hs, g, n, t, m, ring, new, shift, b)
  PROVE  EntryThere(as, hs, g, t, m, ring, new, shift)
<1>b. /\ Indices(as, g, n, m, ring, shift) /\ t <= n + 1 /\ t <= as[g].size /\ t <= m + 1
      /\ hs = PutAt(as, g, At(as, g, shift, m), [base |-> Start(m), block |-> b])
      /\ new[m] = b /\ \A k \in Nat : k # m => new[k] = ring[k]
  BY DEF EntryPut, Numbered
<1>c. PICK e : e = [base |-> Start(m), block |-> b] /\ DOMAIN e = {"base", "block"} /\ e.base = Start(m) /\ e.block = b
  <2> DEFINE r == [base |-> Start(m), block |-> b]
  <2>1. DOMAIN r = {"base", "block"} /\ r.base = Start(m) /\ r.block = b
    OBVIOUS
  <2> QED
    BY <2>1
<1>1. /\ IsArray(as, g) /\ g \in Nat /\ g > 0 /\ n <= as[g].size
      /\ \A h \in 1..g : IndexOK(as, h, shift)
      /\ \A k \in Numbers(n, m) : Shows(as, g, ring, shift, k)
  BY <1>b DEF Indices, IsArray
<1>a. g \in 1..g
  BY <1>1
<1>2. PICK size \in Nat \ {0, 1}, s \in Int : size = as[g].size /\ s = shift[g]
  BY <1>1, <1>a DEF IndexOK
<1>3. PICK q \in 0..(size - 1) : q = At(as, g, shift, m) /\ q = (m + s) % size
  <2>1. PICK a \in Int : a = m + s
    OBVIOUS
  <2>2. a % size \in 0..(size - 1)
    BY DivMod
  <2> QED
    BY <1>2, <2>1, <2>2 DEF At
<1>4. /\ DOMAIN as[g] = {"size", "front", "entries"} /\ DOMAIN as[g].entries = 0..(size - 1)
      /\ as[g].front \in -1..(size - 1)
      /\ \A p \in 0..(size - 1) : DOMAIN as[g].entries[p] = {"base", "block"}
      /\ \A p \in 0..(size - 1) : Filled(as, g, p) =>
           \E j \in Nat : as[g].entries[p].base = Start(j) /\ p = At(as, g, shift, j)
  BY <1>1, <1>a, <1>2 DEF IndexOK
<1>5. hs = [as EXCEPT ![g].entries[q] = e]
  BY <1>3, <1>b, <1>c DEF PutAt
<1>6. /\ IsArray(hs, g) /\ \A h \in 1..g : h # g => hs[h] = as[h]
      /\ hs[g] = [as[g] EXCEPT !.entries[q] = e]
  BY <1>1, <1>a, <1>5 DEF IsArray
<1>7. /\ DOMAIN hs[g] = {"size", "front", "entries"} /\ hs[g].size = size /\ hs[g].front = as[g].front
      /\ hs[g].entries = [as[g].entries EXCEPT ![q] = e]
  BY <1>2, <1>4, <1>6
<1>8. /\ DOMAIN hs[g].entries = 0..(size - 1) /\ hs[g].entries[q] = e
      /\ \A p \in 0..(size - 1) : p # q => hs[g].entries[p] = as[g].entries[p]
  BY <1>4, <1>7
<1>10. \A k : At(hs, g, shift, k) = At(as, g, shift, k)
  BY <1>2, <1>7 DEF At
<1>11. ASSUME NEW h \in 1..g, h # g PROVE IndexOK(hs, h, shift) /\ \A p : Filled(as, h, p) => Filled(hs, h, p)
  <2>1. hs[h] = as[h] /\ IndexOK(as, h, shift)
    BY <1>1, <1>6, <1>11
  <2> QED
    BY <2>1, SameIndex
<1>12. \A p : Filled(as, g, p) => Filled(hs, g, p)
  BY <1>2, <1>7, <1>8, <1>c DEF Filled, NoBlock
<1>13. IndexOK(hs, g, shift)
  <2>1. ASSUME NEW p \in 0..(size - 1), Filled(hs, g, p)
        PROVE  \E j \in Nat : hs[g].entries[p].base = Start(j) /\ p = At(hs, g, shift, j)
    <3>1. CASE p = q
      BY <1>3, <1>8, <1>10, <1>c, <3>1
    <3>2. CASE p # q
      <4>1. Filled(as, g, p) /\ hs[g].entries[p] = as[g].entries[p]
        BY <1>2, <1>7, <1>8, <2>1, <3>2 DEF Filled
      <4> QED
        BY <1>4, <1>10, <4>1
    <3> QED
      BY <3>1, <3>2
  <2>2. \A p \in 0..(size - 1) : DOMAIN hs[g].entries[p] = {"base", "block"}
    BY <1>4, <1>8, <1>c
  <2> QED
    BY <1>2, <1>4, <1>7, <1>8, <2>1, <2>2 DEF IndexOK
<1>14. ASSUME NEW h \in 1..g, NEW k \in Nat, k < m, m < k + size, Shows(as, h, ring, shift, k)
       PROVE  Shows(hs, h, new, shift, k)
  <2>1. new[k] = ring[k]
    BY <1>14, <1>b
  <2>2. CASE h # g
    <3>1. hs[h] = as[h]
      BY <1>6, <2>2
    <3> QED
      BY <1>14, <2>1, <3>1 DEF Shows, At
  <2>3. CASE h = g
    <3>1. PICK u \in Int, v \in Int : u = k + s /\ v = m + s
      OBVIOUS
    <3>2. u < v /\ v < u + size
      BY <1>14, <3>1
    <3>3. u % size # v % size
      BY <3>2, RingApart
    <3>4. u % size \in 0..(size - 1)
      BY DivMod
    <3>5. At(as, g, shift, k) = u % size /\ q = v % size
      BY <1>2, <1>3, <3>1 DEF At
    <3>6. hs[g].entries[At(as, g, shift, k)] = as[g].entries[At(as, g, shift, k)]
      BY <1>8, <3>3, <3>4, <3>5
    <3> QED
      BY <1>10, <1>14, <2>1, <2>3, <3>6 DEF Shows
  <2> QED
    BY <2>2, <2>3
<1>15. ASSUME NEW k \in Numbers(t, m + 1) PROVE Shows(hs, g, new, shift, k)
  <2>1. k \in Nat /\ k <= m /\ m < k + t
    BY <1>15, <1>b DEF Numbers
  <2>2. CASE k = m
    <3>1. new[m] = b
      BY <1>b
    <3>2. hs[g].entries[At(hs, g, shift, k)] = e
      BY <1>3, <1>8, <1>10, <2>2
    <3> QED
      BY <1>c, <2>2, <3>1, <3>2 DEF Shows
  <2>3. CASE k # m
    <3>d. t <= size
      BY <1>2, <1>b, Zenon
    <3>1. t <= size /\ k \in Int
      BY <2>1, <3>d
    <3>a. k < m
      BY <2>1, <2>3
    <3>b. m < k + size
      BY <2>1, <3>1
    <3>c. m - n <= k
      BY <1>b, <2>1
    <3>2. k < m /\ m < k + size /\ m - n <= k
      BY <3>a, <3>b, <3>c
    <3>3. k \in Numbers(n, m)
      BY <3>1, <3>2 DEF Numbers
    <3>4. Shows(as, g, ring, shift, k)
      BY <1>1, <3>3
    <3> QED
      BY <1>a, <1>14, <2>1, <3>2, <3>4
  <2> QED
    BY <2>2, <2>3
<1>16. At(hs, g, shift, m + 1) = (q + 1) % size
  <2>1. PICK a \in Int, u \in Int : a = m + s /\ u = 1
    OBVIOUS
  <2>2. ((a % size) + u) % size = (a + u) % size
    BY RingAdd
  <2>3. a + u = (m + 1) + s
    BY <2>1
  <2> QED
    BY <1>2, <1>3, <1>7, <2>1, <2>2, <2>3 DEF At
<1>17. IndexKept(as, hs, g, shift, shift)
  <2>1. ASSUME NEW h \in 1..g PROVE hs[h].size = as[h].size /\ \A p : Filled(as, h, p) => Filled(hs, h, p)
    BY <1>2, <1>6, <1>7, <1>11, <1>12
  <2> QED
    BY <2>1 DEF IndexKept
<1>18. \A h \in 1..g : hs[h].front = as[h].front
  BY <1>6, <1>7
<1>19. Indices(hs, g, t, m + 1, new, shift)
  BY <1>1, <1>2, <1>6, <1>7, <1>11, <1>13, <1>15, <1>b DEF Indices
<1> QED
  BY <1>2, <1>3, <1>14, <1>16, <1>17, <1>18, <1>19 DEF EntryThere

\* A header as new_block_index allocates it: the n entries that end before position f
\* come first.
IsLarger(nb, h, n, f, exposed) ==
  /\ DOMAIN nb = {"size", "front", "entries"} /\ nb.size = 2 * h.size /\ nb.front = exposed - 1
  /\ DOMAIN nb.entries = 0..(2 * h.size - 1)
  /\ \A i \in 0..(2 * h.size - 1) :
       nb.entries[i] = IF i < n THEN h.entries[(f - n + i) % h.size] ELSE NoEntry

\* Block index g is full; the next one begins with the entry of the oldest block.
IsFull(as, g, n) == as[g].size = n
Shifted(next, shift, g, d) == next[g + 1] = d /\ \A h \in 1..g : next[h] = shift[h]

Grown(as, hs, g, n, m, ring, shift, next, exposed) ==
  /\ Indices(hs, g + 1, n, m, ring, next) /\ At(hs, g + 1, next, m) = n
  /\ exposed > 0 => Filled(hs, g + 1, hs[g + 1].front)
  /\ hs[g + 1].size = 2 * as[g].size
  /\ IndexKept(as, hs, g, shift, next)
  /\ \A h \in 1..g : hs[h] = as[h]
  /\ \A h \in 1..g, k \in Nat : Shows(as, h, ring, shift, k) => Shows(hs, h, ring, next, k)

\* The new block index has the entries of all blocks, and the old ones stay.
LEMMA GrowIndex ==
  ASSUME NEW n \in Nat, NEW g \in Nat, NEW m \in Nat, n <= m, NEW ring, NEW shift \in [Nat -> Int],
         NEW as, Indices(as, g, n, m, ring, shift), IsFull(as, g, n), NEW exposed \in 0..n,
         \A k \in Numbers(n, m) : ring[k] # NoBlock,
         NEW nb, IsLarger(nb, as[g], n, At(as, g, shift, m), exposed), NEW hs, Extended(hs, as, g, nb),
         NEW next, Shifted(next, shift, g, n - m)
  PROVE  Grown(as, hs, g, n, m, ring, shift, next, exposed)
<1>1. /\ IsArray(as, g) /\ g \in Nat /\ g > 0
      /\ \A h \in 1..g : IndexOK(as, h, shift)
      /\ \A k \in Numbers(n, m) : Shows(as, g, ring, shift, k)
  BY DEF Indices, IsArray
<1>2. g \in 1..g
  BY <1>1
<1>a. as[g].size = n /\ next[g + 1] = n - m /\ \A h \in 1..g : next[h] = shift[h]
  BY DEF IsFull, Shifted
<1>3. PICK s \in Int : s = shift[g]
  BY <1>1
<1>4. n \in Nat \ {0, 1} /\ DOMAIN as[g].entries = 0..(n - 1)
      /\ \A p \in 0..(n - 1) : DOMAIN as[g].entries[p] = {"base", "block"}
  BY <1>1, <1>2 DEF IndexOK, IsFull
<1>5. IsArray(hs, g + 1) /\ hs[g + 1] = nb /\ \A h \in 1..g : hs[h] = as[h]
  BY DEF Extended
<1>6. /\ DOMAIN nb = {"size", "front", "entries"} /\ nb.size = 2 * n /\ nb.front = exposed - 1
      /\ DOMAIN nb.entries = 0..(2 * n - 1)
      /\ \A i \in 0..(2 * n - 1) :
           nb.entries[i] = IF i < n THEN as[g].entries[(At(as, g, shift, m) - n + i) % n] ELSE NoEntry
  BY <1>a DEF IsLarger
<1>7. ASSUME NEW i \in 0..(n - 1)
      PROVE  nb.entries[i] = as[g].entries[At(as, g, shift, (m - n) + i)]
  <2>1. PICK a \in Int, u \in Int : a = m + s /\ u = i - n
    OBVIOUS
  <2>2. At(as, g, shift, m) = a % n /\ At(as, g, shift, m) \in Int
    BY <1>a, <1>3, <1>4, <2>1, DivMod DEF At
  <2>3. ((a % n) + u) % n = (a + u) % n
    BY <1>4, RingAdd
  <2>4. At(as, g, shift, m) - n + i = (a % n) + u
    BY <2>1, <2>2
  <2>5. a + u = ((m - n) + i) + s
    BY <2>1
  <2>6. At(as, g, shift, (m - n) + i) = (((m - n) + i) + s) % n
    BY <1>a, <1>3 DEF At
  <2>7. (At(as, g, shift, m) - n + i) % n = At(as, g, shift, (m - n) + i)
    BY <2>3, <2>4, <2>5, <2>6
  <2>8. i \in 0..(2 * n - 1) /\ i < n
    BY <1>4
  <2> QED
    BY <1>6, <2>7, <2>8
<1>8. ASSUME NEW i \in 0..(n - 1)
      PROVE  /\ (m - n) + i \in Numbers(n, m) /\ nb.entries[i].base = Start((m - n) + i)
             /\ nb.entries[i].block = ring[(m - n) + i] /\ DOMAIN nb.entries[i] = {"base", "block"}
  <2>1. (m - n) + i \in Numbers(n, m)
    <3>1. PICK j \in Int : j = (m - n) + i
      OBVIOUS
    <3>2. m - n <= j /\ j <= m - 1
      BY <3>1
    <3>3. j \in Numbers(n, m)
      BY <3>2 DEF Numbers
    <3> QED
      BY <3>1, <3>3
  <2>2. Shows(as, g, ring, shift, (m - n) + i)
    BY <1>1, <2>1
  <2>3. At(as, g, shift, (m - n) + i) \in 0..(n - 1)
    <3>1. PICK a \in Int : a = ((m - n) + i) + s
      OBVIOUS
    <3>2. a % n \in 0..(n - 1)
      BY <1>4, DivMod
    <3> QED
      BY <1>a, <1>3, <3>1, <3>2 DEF At
  <2> QED
    BY <1>4, <1>7, <2>1, <2>2, <2>3 DEF Shows
<1>9. ASSUME NEW k \in Int, m - n <= k, k <= m PROVE At(hs, g + 1, next, k) = k + n - m
  <2>1. PICK a \in Int, z \in Nat \ {0} : a = k + (n - m) /\ z = 2 * n /\ a \in 0..(z - 1)
    BY <1>4, <1>9
  <2>2. a % z = a
    BY <2>1, RingLow
  <2>3. At(hs, g + 1, next, k) = a % z
    BY <1>a, <1>5, <1>6, <2>1 DEF At
  <2> QED
    BY <2>1, <2>2, <2>3
<1>10. ASSUME NEW p \in 0..(2 * n - 1), p >= n PROVE nb.entries[p] = NoEntry
  <2>1. ~(p < n)
    BY <1>4, <1>10
  <2> QED
    BY <1>6, <2>1
<1>11. \A p \in 0..(2 * n - 1) : DOMAIN nb.entries[p] = {"base", "block"}
  <2> SUFFICES ASSUME NEW p \in 0..(2 * n - 1) PROVE DOMAIN nb.entries[p] = {"base", "block"}
    OBVIOUS
  <2>1. DOMAIN NoEntry = {"base", "block"}
    BY DEF NoEntry
  <2>2. CASE p >= n
    BY <1>10, <2>1, <2>2
  <2>3. CASE p < n
    BY <1>8, <2>3
  <2> QED
    BY <1>4, <2>2, <2>3
<1>12. ASSUME NEW p \in 0..(2 * n - 1), Filled(hs, g + 1, p)
       PROVE  \E j \in Nat : hs[g + 1].entries[p].base = Start(j) /\ p = At(hs, g + 1, next, j)
  <2>1. nb.entries[p].block # NoBlock
    BY <1>5, <1>12 DEF Filled
  <2>2. p < n
    BY <1>4, <1>10, <2>1 DEF NoEntry
  <2>3. PICK j \in Nat : j = (m - n) + p
    OBVIOUS
  <2>4. nb.entries[p].base = Start(j)
    BY <1>8, <2>2, <2>3
  <2>5. At(hs, g + 1, next, j) = p
    BY <1>4, <1>9, <2>2, <2>3
  <2> QED
    BY <1>5, <2>4, <2>5
<1>13. IndexOK(hs, g + 1, next)
  <2>1. 2 * n \in Nat \ {0, 1} /\ exposed - 1 \in -1..(2 * n - 1)
    BY <1>4
  <2> QED
    BY <1>5, <1>6, <1>11, <1>12, <2>1 DEF IndexOK
<1>14. ASSUME NEW h \in 1..g
       PROVE  IndexOK(hs, h, next) /\ \A k : At(hs, h, next, k) = At(as, h, shift, k)
  <2>1. hs[h] = as[h] /\ next[h] = shift[h]
    BY <1>a, <1>5
  <2>2. \A k : At(hs, h, next, k) = At(as, h, shift, k)
    BY <2>1 DEF At
  <2>3. \A p : Filled(hs, h, p) <=> Filled(as, h, p)
    BY <2>1, SameIndex
  <2>4. IndexOK(as, h, shift)
    BY <1>1
  <2> QED
    BY <2>1, <2>2, <2>3, <2>4 DEF IndexOK
<1>15. ASSUME NEW k \in Numbers(n, m) PROVE Shows(hs, g + 1, ring, next, k)
  <2>1. k \in Int /\ m - n <= k /\ k <= m - 1
    BY <1>15 DEF Numbers
  <2>2. PICK i \in 0..(n - 1) : i = k + n - m
    BY <1>4, <2>1
  <2>3. (m - n) + i = k
    BY <2>1, <2>2
  <2>4. At(hs, g + 1, next, k) = i
    BY <1>9, <2>1, <2>2
  <2> QED
    BY <1>5, <1>8, <2>3, <2>4 DEF Shows
<1>16. Indices(hs, g + 1, n, m, ring, next)
  <2>1. g + 1 > 0 /\ n <= 2 * n
    BY <1>1
  <2>2. \A h \in 1..(g + 1) : h \in 1..g \/ h = g + 1
    BY <1>1
  <2>3. \A h \in 1..(g + 1) : IndexOK(hs, h, next)
    BY <1>13, <1>14, <2>2
  <2> QED
    BY <1>5, <1>6, <1>15, <2>1, <2>3 DEF Indices
<1>17. At(hs, g + 1, next, m) = n
  BY <1>9
<1>18. ASSUME exposed > 0 PROVE Filled(hs, g + 1, hs[g + 1].front)
  <2>1. PICK i \in 0..(n - 1) : i = exposed - 1
    BY <1>4, <1>18
  <2>2. nb.entries[i].block # NoBlock
    BY <1>8
  <2>3. i \in 0..(2 * n - 1)
    BY <1>4
  <2> QED
    BY <1>5, <1>6, <2>1, <2>2, <2>3 DEF Filled
<1>19. IndexKept(as, hs, g, shift, next)
  <2>1. ASSUME NEW h \in 1..g
        PROVE  hs[h].size = as[h].size /\ next[h] = shift[h] /\ \A p : Filled(as, h, p) => Filled(hs, h, p)
    BY <1>a, <1>5, SameIndex
  <2> QED
    BY <2>1 DEF IndexKept
<1>20. \A h \in 1..g, k \in Nat : Shows(as, h, ring, shift, k) => Shows(hs, h, ring, next, k)
  BY <1>5, <1>14 DEF Shows
<1> QED
  BY <1>a, <1>5, <1>6, <1>16, <1>17, <1>18, <1>19, <1>20 DEF Grown

-----------------------------------------------------------------------------
(* ExplicitProducer: the producer                                          *)

\* A step of the producer changes nothing of the consumers.
LEMMA ProducerFrame ==
  ASSUME UNCHANGED <<headIndex, deq>>
  PROVE  /\ \A c \in CqConsumers : X(c)' = X(c) /\ Owns(c)' = Owns(c) /\ MovedOut(c)' = MovedOut(c)
         /\ \A i : (Gone(i)' <=> Gone(i)) /\ (Flagged(i)' <=> Flagged(i))
         /\ Apart' <=> Apart
<1>1. \A c \in CqConsumers : X(c)' = X(c) /\ Owns(c)' = Owns(c) /\ MovedOut(c)' = MovedOut(c)
  BY DEF X, Owns, MovedOut, Part
<1>2. \A i : (Gone(i)' <=> Gone(i)) /\ (Flagged(i)' <=> Flagged(i))
  BY <1>1 DEF Gone, Flagged
<1>3. Apart' <=> Apart
  BY <1>1 DEF Apart
<1> QED
  BY <1>1, <1>2, <1>3

\* What block indices as must keep, when they become hs, for the call of consumer c.
ServesCall(as, hs, g, c, ring, new, shift, next) ==
  /\ IndexKept(as, hs, g, shift, next)
  /\ \A h \in 1..g : Filled(as, h, as[h].front) => Filled(hs, h, hs[h].front)
  /\ \A h \in 1..g : \A i \in Owns(c) :
       Shows(as, h, ring, shift, Number(i)) => Shows(hs, h, new, next, Number(i))

\* Then the call finds its items in the new ones.
LEMMA LookupMoves ==
  ASSUME UNCHANGED <<headIndex, deq>>, NEW c \in CqConsumers,
         NEW g \in Nat, NEW u \in Nat, g <= u, NEW ring, NEW new, NEW shift, NEW next,
         Lookup(headers, g, c, ring, shift), ServesCall(headers, headers', g, c, ring, new, shift, next)
  PROVE  Lookup(headers, u, c, new, next)'
<1>1. X(c)' = X(c) /\ Owns(c)' = Owns(c) /\ headIndex' = headIndex
  BY ProducerFrame
<1>2. /\ \A h \in 1..g : headers'[h].size = headers[h].size /\ next[h] = shift[h]
      /\ \A h \in 1..g : \A p : Filled(headers, h, p) => Filled(headers', h, p)
      /\ \A h \in 1..g : Filled(headers, h, headers[h].front) => Filled(headers', h, headers'[h].front)
      /\ \A h \in 1..g : \A i \in Owns(c) :
           Shows(headers, h, ring, shift, Number(i)) => Shows(headers', h, new, next, Number(i))
  BY DEF ServesCall, IndexKept
<1>3. \A h \in 1..g : h \in 1..u
  OBVIOUS
<1>4. \A h \in 1..g : \A k : At(headers', h, next, k) = At(headers, h, shift, k)
  BY <1>2 DEF At
<1>5. X(c).pc \in LookupPcs =>
        X(c).first \in Nat /\ X(c).n \in Nat \ {0} /\ X(c).first + X(c).n <= headIndex
  BY DEF Lookup
<1>6. X(c).pc \in LookupPcs \ {"index"} =>
        /\ X(c).hdr \in 1..g
        /\ \A i \in Owns(c) : Shows(headers, X(c).hdr, ring, shift, Number(i))
  BY DEF Lookup
<1>7. X(c).pc \in LookupPcs \ {"index"} =>
        /\ X(c).hdr \in 1..u
        /\ \A i \in Owns(c) : Shows(headers', X(c).hdr, new, next, Number(i))
  BY <1>2, <1>3, <1>6
<1>8. X(c).pc = "front" => Filled(headers', X(c).hdr, headers'[X(c).hdr].front)
  BY <1>2, <1>6 DEF Lookup, LookupPcs
<1>9. X(c).pc = "find" => Filled(headers', X(c).hdr, X(c).front)
  BY <1>2, <1>6 DEF Lookup, LookupPcs
<1>10. X(c).pc \in {"move", "flag"} => X(c).slot = At(headers', X(c).hdr, next, Number(X(c).first))
  BY <1>4, <1>6 DEF Lookup, LookupPcs
<1> QED
  BY <1>1, <1>5, <1>7, <1>8, <1>9, <1>10 DEF Lookup

\* What is to be shown for a step of the producer.
LEMMA ProducerLeaves ==
  ASSUME NEW n, NEW g \in Nat, NEW m, NEW ring, NEW shift, Found(n, g, m, ring, shift),
         UNCHANGED <<headIndex, deq>>,
         NEW r, NEW u \in Nat, NEW l \in Nat, NEW new \in [Nat -> Nat], NEW next \in [Nat -> Int], g <= u,
         \A c \in CqConsumers : ServesCall(headers, headers', g, c, ring, new, shift, next),
         Ring(blocks, r, l, new)', Contents(blocks, r, l, new)', Kept(r, l)',
         Indices(headers, u, r, l, new, next)', Producer(r, u, l, new, next)', Enqueue(r, l, new)'
  PROVE  FindInv'
<1>1. Apart /\ \A c \in CqConsumers : Lookup(headers, g, c, ring, shift)
  BY DEF Found
<1>2. \A c \in CqConsumers : Lookup(headers, u, c, new, next)'
  BY <1>1, LookupMoves
<1>3. Apart'
  BY <1>1, ProducerFrame
<1>4. Found(r, u, l, new, next)'
  BY <1>2, <1>3 DEF Found
<1> QED
  BY <1>4 DEF FindInv

\* the members only the producer uses
PrShape == {"call", "slotsUsed", "front", "tailBlock"}

\* A step of the producer's call.
LEMMA GoesIs ==
  ASSUME NEW STATE r, Goes(r), DOMAIN pr = PrShape, DOMAIN pr.call = CallShape
  PROVE  /\ DOMAIN pr' = PrShape /\ pr'.front = pr.front /\ pr'.slotsUsed = pr.slotsUsed
         /\ pr'.tailBlock = pr.tailBlock /\ DOMAIN pr'.call = CallShape
         /\ \A k \in CallShape : pr'.call[k] = IF k \in DOMAIN r THEN r[k] ELSE pr.call[k]
<1>1. pr' = [pr EXCEPT !.call = With(r, pr.call)]
  BY DEF Goes
<1>2. DOMAIN pr' = PrShape /\ pr'.front = pr.front /\ pr'.slotsUsed = pr.slotsUsed
      /\ pr'.tailBlock = pr.tailBlock /\ pr'.call = With(r, pr.call)
  BY <1>1 DEF PrShape
<1>3. With(r, pr.call) = [k \in CallShape |-> IF k \in DOMAIN r THEN r[k] ELSE pr.call[k]]
  BY DEF With
<1> QED
  BY <1>2, <1>3

\* What Found says of the state of the producer and its call.
LEMMA FoundCall ==
  ASSUME NEW n, NEW g, NEW m, NEW ring, NEW shift, Found(n, g, m, ring, shift)
  PROVE  /\ n \in Nat /\ g \in Nat \ {0} /\ m \in Nat /\ n <= m
         /\ ring \in [Nat -> Nat] /\ shift \in [Nat -> Int]
         /\ DOMAIN pr = PrShape /\ DOMAIN pr.call = CallShape
         /\ pr.tailBlock = IF n = 0 THEN NoBlock ELSE ring[m - 1]
         /\ pr.front = At(headers, g, shift, m) /\ pr.slotsUsed = n
<1>1. n \in Nat /\ n <= m /\ m \in Nat /\ ring \in [Nat -> Nat] /\ shift \in [Nat -> Int]
  BY DEF Found, Ring, IsArray
<1>2. g \in Nat /\ g > 0
  BY DEF Found, Indices, IsArray
<1> QED
  BY <1>1, <1>2 DEF Found, Producer, Enqueue, PrShape

\* While block indices do not change, they serve every call.
LEMMA SameServes ==
  ASSUME headers' = headers, NEW g, NEW c, NEW ring, NEW shift
  PROVE  ServesCall(headers, headers', g, c, ring, ring, shift, shift)
  BY DEF ServesCall, IndexKept

\* What is to be shown for a step that changes neither blocks nor block indices.
LEMMA ProducerReads ==
  ASSUME NEW n, NEW g, NEW m, NEW ring, NEW shift, Found(n, g, m, ring, shift),
         UNCHANGED <<headIndex, deq, blocks, headers>>,
         Stored' = Stored, Opened(m)' = Opened(m), Kept(n, m)', Producer(n, g, m, ring, shift)',
         Enqueue(n, m, ring)'
  PROVE  FindInv'
<1>1. /\ n \in Nat /\ g \in Nat /\ m \in Nat /\ n <= m
      /\ ring \in [Nat -> Nat] /\ shift \in [Nat -> Int] /\ g <= g
  BY FoundCall
<1>2. Ring(blocks, n, m, ring) /\ Contents(blocks, n, m, ring) /\ Indices(headers, g, n, m, ring, shift)
  BY DEF Found
<1>3. \A i : (Gone(i)' <=> Gone(i)) /\ (Flagged(i)' <=> Flagged(i))
  BY ProducerFrame
<1>4. Contents(blocks, n, m, ring)'
  BY <1>1, <1>2, <1>3, SameContents
<1>5. Ring(blocks, n, m, ring)' /\ Indices(headers, g, n, m, ring, shift)'
  BY <1>2 DEF Ring, Indices, Shows, At, IndexOK, Filled
<1>6. \A c \in CqConsumers : ServesCall(headers, headers', g, c, ring, ring, shift, shift)
  BY SameServes
<1> QED
  BY <1>1, <1>4, <1>5, <1>6, ProducerLeaves

\* The numbers around the tail.
LEMMA FreshIs ==
  ASSUME CqNumbers
  PROVE  /\ Fresh \in Nat /\ tailIndex \in Nat
         /\ tailIndex = 0 => Fresh = 0
         /\ tailIndex > 0 => Fresh > 0
         /\ \A i \in Int : i < tailIndex => Number(i) < Fresh
         /\ \A i \in Int : Number(i) >= Fresh => i >= tailIndex
         /\ tailIndex % BLOCK_SIZE = 0 => Number(tailIndex) = Fresh
         /\ tailIndex % BLOCK_SIZE # 0 => Number(tailIndex) = Fresh - 1
<1>1. tailIndex \in Nat
  BY DEF CqNumbers
<1>2. PICK t \in Nat, u \in Int : t = tailIndex /\ u = t - 1
  BY <1>1
<1>3. PICK j \in Int, k \in Int : j = Number(u) /\ k = Number(t)
  BY NumberIndex
<1>4. Fresh = j + 1
  BY <1>2, <1>3 DEF Fresh
<1>5. BLOCK_SIZE \in Nat \ {0, 1}
  BY CqAssumption
<1>6. BLOCK_SIZE - 1 \in Slots /\ 0 \in Slots
  BY <1>5 DEF Slots
<1>7. ASSUME t = 0 PROVE j = -1
  <2>1. Index(-1, BLOCK_SIZE - 1) = -1
    BY <1>5 DEF Index
  <2>2. Number(Index(-1, BLOCK_SIZE - 1)) = -1
    BY <1>6, IndexNumber
  <2> QED
    BY <1>2, <1>3, <1>7, <2>1, <2>2
<1>8. ASSUME t > 0 PROVE j \in Nat
  <2>1. u \in Nat
    BY <1>2, <1>8
  <2> QED
    BY <1>3, <2>1, NumberIndex
<1>9. ASSUME NEW i \in Int, i < tailIndex PROVE Number(i) \in Int /\ Number(i) < Fresh
  <2>1. i <= u
    BY <1>2, <1>9
  <2>2. Number(i) <= j /\ Number(i) \in Int
    BY <1>3, <2>1, NumberOrder, NumberIndex
  <2> QED
    BY <1>4, <2>2
<1>10. ASSUME NEW i \in Int, Number(i) >= Fresh PROVE i >= tailIndex
  <2>1. Number(i) \in Int /\ Fresh \in Int
    BY <1>4, NumberIndex
  <2>2. CASE i < tailIndex
    BY <1>9, <1>10, <2>1, <2>2
  <2> QED
    BY <1>1, <2>2
<1>11. t = Index(k, t % BLOCK_SIZE) /\ t % BLOCK_SIZE \in Slots
  BY <1>3, NumberIndex
<1>12. ASSUME t % BLOCK_SIZE = 0 PROVE k = j + 1
  <2>1. Index(k - 1, BLOCK_SIZE - 1) = u
    <3>1. t = k * BLOCK_SIZE
      BY <1>5, <1>11, <1>12 DEF Index
    <3>2. (k - 1) * BLOCK_SIZE = k * BLOCK_SIZE - BLOCK_SIZE
      BY <1>5
    <3> QED
      BY <1>2, <1>5, <3>1, <3>2 DEF Index
  <2>2. Number(Index(k - 1, BLOCK_SIZE - 1)) = k - 1
    BY <1>6, IndexNumber
  <2> QED
    BY <1>3, <2>1, <2>2
<1>13. ASSUME t % BLOCK_SIZE # 0 PROVE k = j
  <2>1. PICK s \in Slots, r \in Slots : s = t % BLOCK_SIZE /\ r = s - 1
    BY <1>5, <1>11, <1>13 DEF Slots
  <2>2. s \in Int /\ r \in Int
    BY <1>5 DEF Slots
  <2>a. PICK z \in Int : z = k * BLOCK_SIZE
    BY <1>5
  <2>b. t = z + s /\ Index(k, r) = z + r
    BY <1>11, <2>1, <2>a DEF Index
  <2>3. Index(k, r) = u
    BY <1>2, <2>1, <2>2, <2>a, <2>b
  <2>4. Number(Index(k, r)) = k
    BY IndexNumber
  <2> QED
    BY <1>3, <2>3, <2>4
<1>14. Fresh \in Nat /\ (tailIndex = 0 => Fresh = 0) /\ (tailIndex > 0 => Fresh > 0)
  BY <1>2, <1>4, <1>7, <1>8
<1>15. /\ tailIndex % BLOCK_SIZE = 0 => Number(tailIndex) = Fresh
       /\ tailIndex % BLOCK_SIZE # 0 => Number(tailIndex) = Fresh - 1
  BY <1>2, <1>3, <1>4, <1>12, <1>13
<1> QED
  BY <1>1, <1>9, <1>10, <1>14, <1>15

\* A call begins.
LEMMA StartCallFinds ==
  ASSUME FindInv, CountInv, NEW t \in Nat \ {0}, StartCall(t)
  PROVE  FindInv'
<1>1. PICK n, g, m, ring, shift : Found(n, g, m, ring, shift)
  BY DEF FindInv
<1>2. CqNumbers /\ tailIndex \in Nat /\ CqItems \in Nat
  BY CqAssumption DEF CountInv, CqKinds, CqNumbers
<1>3. /\ n \in Nat /\ g \in Nat \ {0} /\ m \in Nat /\ n <= m
      /\ ring \in [Nat -> Nat] /\ shift \in [Nat -> Int]
      /\ DOMAIN pr = PrShape /\ DOMAIN pr.call = CallShape
      /\ pr.tailBlock = IF n = 0 THEN NoBlock ELSE ring[m - 1]
      /\ pr.front = At(headers, g, shift, m) /\ pr.slotsUsed = n
  BY <1>1, FoundCall
<1>4. pr.call.pc = "idle" /\ tailIndex + t <= CqItems
      /\ UNCHANGED <<tailIndex, headIndex, deq, blocks, headers>>
  BY DEF StartCall, SharedByConsumers, pc
<1>5. m = Fresh /\ Fresh \in Nat
  BY <1>1, <1>2, <1>4, FreshIs DEF Found, Enqueue
<1>6. PICK j \in Int, k \in Int : j = Number(tailIndex - 1) /\ k = Number(tailIndex + t - 1)
  <2>1. PICK u \in Int, v \in Int : u = tailIndex - 1 /\ v = tailIndex + t - 1
    BY <1>2
  <2> QED
    BY <2>1, NumberIndex
<1>7. j = m - 1 /\ j <= k
  <2>1. PICK u \in Int, v \in Int : u = tailIndex - 1 /\ v = tailIndex + t - 1 /\ u <= v
    BY <1>2
  <2>2. Number(u) <= Number(v)
    BY <2>1, NumberOrder
  <2> QED
    BY <1>5, <1>6, <2>1, <2>2 DEF Fresh
<1>8. (Base(tailIndex + t - 1) - Base(tailIndex - 1)) \div BLOCK_SIZE = k - j /\ Base(tailIndex - 1) = Start(m - 1)
  <2>1. PICK u \in Int, v \in Int : u = tailIndex - 1 /\ v = tailIndex + t - 1
    BY <1>2
  <2>2. Base(u) = Start(j) /\ Base(v) = Start(k)
    BY <1>6, <2>1, StartOf
  <2>3. (Start(k) - Start(j)) \div BLOCK_SIZE = k - j
    BY StartOf
  <2> QED
    BY <1>7, <2>1, <2>2, <2>3
<1>9. PICK need \in Nat : need = k - j
  BY <1>7
<1> DEFINE r == [pc |-> IF need > 0 THEN "reuse" ELSE "construct", n |-> t, need |-> need,
                 cur |-> Start(m - 1), start |-> pr.tailBlock, first |-> NoBlock,
                 origFront |-> pr.front, origUsed |-> pr.slotsUsed]
<1>10. Goes(r)
  BY <1>8, <1>9 DEF StartCall
<1>11. /\ DOMAIN pr' = PrShape /\ pr'.front = pr.front /\ pr'.slotsUsed = pr.slotsUsed
       /\ pr'.tailBlock = pr.tailBlock /\ DOMAIN pr'.call = CallShape
       /\ \A f \in CallShape : pr'.call[f] = IF f \in DOMAIN r THEN r[f] ELSE pr.call[f]
  BY <1>3, <1>10, GoesIs
<1>12. /\ pr'.call.pc = (IF need > 0 THEN "reuse" ELSE "construct") /\ pr'.call.n = t
       /\ pr'.call.need = need /\ pr'.call.cur = Start(m - 1) /\ pr'.call.start = pr.tailBlock
       /\ pr'.call.first = NoBlock /\ pr'.call.origFront = pr.front /\ pr'.call.origUsed = n
  BY <1>3, <1>11 DEF CallShape
<1> HIDE DEF r
<1>13. Fresh' = Fresh /\ Stored' = Stored /\ Opened(m)' = Opened(m)
  BY <1>4, <1>5, <1>12 DEF Fresh, Stored, Opened
<1>14. Kept(n, m)'
  BY <1>1, <1>4, <1>13, ProducerFrame DEF Found, Kept
<1>15. tailIndex > 0 => n > 0 /\ Filled(headers, g, headers[g].front)
  BY <1>1 DEF Found, Producer
<1>16. need = 0 => tailIndex > 0
  <2>1. ASSUME need = 0, tailIndex = 0 PROVE FALSE
    <3>1. m = 0 /\ k = -1
      BY <1>2, <1>5, <1>7, <1>9, <2>1, FreshIs
    <3>2. PICK v \in Nat : v = tailIndex + t - 1
      BY <1>2
    <3>3. k \in Nat
      BY <1>6, <3>2, NumberIndex
    <3> QED
      BY <3>1, <3>3
  <2> QED
    BY <1>2, <2>1
<1>17. Producer(n, g, m, ring, shift)'
  <2>1. (n > 0 /\ Filled(headers, g, headers[g].front)) \/ ~(tailIndex > 0 \/ pr'.call.pc \in {"construct", "store"})
    BY <1>9, <1>12, <1>15, <1>16
  <2>2. Filled(headers', g, headers'[g].front) <=> Filled(headers, g, headers[g].front)
    BY <1>4
  <2>3. At(headers', g, shift, m) = At(headers, g, shift, m)
    BY <1>4
  <2> QED
    BY <1>3, <1>4, <1>11, <2>1, <2>2, <2>3 DEF Producer, PrShape
<1>18. Enqueue(n, m, ring)'
  <2>1. tailIndex % BLOCK_SIZE # 0 => pr.tailBlock = ring[Fresh - 1]
    <3>1. ASSUME tailIndex % BLOCK_SIZE # 0 PROVE pr.tailBlock = ring[Fresh - 1]
      <4>1. tailIndex # 0
        BY <3>1, CqAssumption
      <4> QED
        BY <1>2, <1>3, <1>5, <1>15, <4>1
    <3> QED
      BY <3>1
  <2>2. m + need = k + 1
    BY <1>3, <1>7, <1>9
  <2>3. /\ pr'.call.pc \in {"reuse", "construct"}
        /\ pr'.call.pc = "reuse" => need > 0
        /\ pr'.call.pc = "construct" => need = 0
    BY <1>9, <1>12
  <2>4. n \in 0..n /\ (tailIndex > 0 => n > 0)
    BY <1>3, <1>15
  <2>5. /\ pr'.call.n \in Nat \ {0} /\ tailIndex' + pr'.call.n <= CqItems
        /\ pr'.call.cur = Start(m - 1) /\ Fresh' <= m /\ ~(Fresh' < m)
        /\ pr'.call.need \in Nat /\ m + pr'.call.need = Number(tailIndex' + pr'.call.n - 1) + 1
    BY <1>4, <1>5, <1>6, <1>12, <1>13, <2>2
  <2>6. /\ tailIndex' % BLOCK_SIZE # 0 => pr'.call.start = ring[Fresh' - 1]
        /\ pr'.call.origUsed \in 0..n /\ (tailIndex' > 0 => pr'.call.origUsed > 0)
        /\ pr'.call.origUsed = n /\ pr'.call.origFront = pr'.front /\ pr'.call.start = pr'.tailBlock
    BY <1>4, <1>11, <1>12, <1>13, <2>1, <2>4
  <2> QED
    BY <1>11, <1>12, <2>3, <2>5, <2>6 DEF Enqueue, PrPcs
<1> QED
  BY <1>1, <1>4, <1>13, <1>14, <1>17, <1>18, ProducerReads

\* The items of the call are there for everybody.
LEMMA StoreTailFinds ==
  ASSUME FindInv, CountInv, StoreTail
  PROVE  FindInv'
<1>1. PICK n, g, m, ring, shift : Found(n, g, m, ring, shift)
  BY DEF FindInv
<1>2. CqNumbers /\ tailIndex \in Nat
  BY DEF CountInv, CqKinds, CqNumbers
<1>3. /\ n \in Nat /\ g \in Nat \ {0} /\ m \in Nat /\ n <= m
      /\ ring \in [Nat -> Nat] /\ shift \in [Nat -> Int]
      /\ DOMAIN pr = PrShape /\ DOMAIN pr.call = CallShape
      /\ pr.tailBlock = IF n = 0 THEN NoBlock ELSE ring[m - 1]
      /\ pr.front = At(headers, g, shift, m) /\ pr.slotsUsed = n
  BY <1>1, FoundCall
<1>4. pr.call.pc = "store" /\ tailIndex' = tailIndex + pr.call.n /\ Goes(PrIdle)
      /\ UNCHANGED <<headIndex, deq, blocks, headers>>
  BY DEF StoreTail, SharedByConsumers, pc
<1>5. /\ pr.call.n \in Nat \ {0} /\ Fresh <= m /\ m = Number(tailIndex + pr.call.n - 1) + 1
      /\ Fresh < m => Fresh \in Numbers(n, m)
  <2>1. Enqueue(n, m, ring)
    BY <1>1 DEF Found
  <2>2. pr.call.need = 0 /\ m + pr.call.need = Number(tailIndex + pr.call.n - 1) + 1
    BY <1>4, <2>1 DEF Enqueue
  <2> QED
    BY <1>3, <1>4, <2>1, <2>2 DEF Enqueue
<1>6. /\ DOMAIN pr' = PrShape /\ pr'.front = pr.front /\ pr'.slotsUsed = pr.slotsUsed
      /\ pr'.tailBlock = pr.tailBlock /\ DOMAIN pr'.call = CallShape
      /\ \A f \in CallShape : pr'.call[f] = IF f \in DOMAIN PrIdle THEN PrIdle[f] ELSE pr.call[f]
  BY <1>3, <1>4, GoesIs
<1>7. pr'.call.pc = "idle"
  BY <1>6 DEF CallShape, PrIdle
<1>8. Fresh' = m /\ Fresh \in Nat
  BY <1>2, <1>4, <1>5, FreshIs DEF Fresh
<1>9. Stored' = Stored /\ Opened(m)' = Opened(m)
  BY <1>4, <1>7 DEF Stored, Opened
<1>10. Kept(n, m)'
  <2> SUFFICES ASSUME NEW i \in Nat, Number(i) < m, ~Flagged(i)' PROVE Number(i) \in Numbers(n, m)
    BY <1>8 DEF Kept
  <2>1. ~Flagged(i) /\ Number(i) \in Nat
    BY <1>4, ProducerFrame, NumberIndex
  <2>2. CASE Number(i) < Fresh
    BY <1>1, <2>1, <2>2 DEF Found, Kept
  <2>3. CASE Number(i) >= Fresh
    BY <1>3, <1>5, <1>8, <2>1, <2>3 DEF Numbers
  <2> QED
    BY <1>8, <2>1, <2>2, <2>3
<1>11. n > 0 /\ Filled(headers, g, headers[g].front)
  BY <1>1, <1>4 DEF Found, Producer
<1>12. Producer(n, g, m, ring, shift)'
  <2>1. Filled(headers', g, headers'[g].front)
    BY <1>4, <1>11
  <2>2. At(headers', g, shift, m) = At(headers, g, shift, m)
    BY <1>4
  <2> QED
    BY <1>3, <1>6, <1>11, <2>1, <2>2 DEF Producer, PrShape
<1>13. Enqueue(n, m, ring)'
  BY <1>6, <1>7, <1>8 DEF Enqueue, PrPcs
<1> QED
  BY <1>1, <1>4, <1>9, <1>10, <1>12, <1>13, ProducerReads

\* What PutEntry does to the call that had p.
TakesBlock(p, b) ==
  /\ DOMAIN pr' = PrShape /\ DOMAIN pr'.call = CallShape
  /\ pr'.slotsUsed = p.slotsUsed /\ pr'.tailBlock = b
  /\ pr'.call.cur = p.call.cur + BLOCK_SIZE /\ pr'.call.need = p.call.need - 1
  /\ pr'.call.pc = (IF p.call.need = 1 THEN "publish" ELSE p.call.pc)
  /\ pr'.call.first = (IF p.call.first = NoBlock THEN b ELSE p.call.first)
  /\ pr'.call.n = p.call.n /\ pr'.call.start = p.call.start /\ pr'.call.origUsed = p.call.origUsed

\* The block is entered at the front of the index, and the call takes it.
LEMMA PutEntryIs ==
  ASSUME NEW STATE p, NEW STATE hs, NEW STATE b, PutEntry(p, hs, b), DOMAIN p = PrShape, DOMAIN p.call = CallShape
  PROVE  /\ headers' = PutAt(hs, Len(hs), p.front, [base |-> p.call.cur + BLOCK_SIZE, block |-> b])
         /\ pr'.front = (p.front + 1) % hs[Len(hs)].size /\ TakesBlock(p, b)
<1>1. headers' = PutAt(hs, Len(hs), p.front, [base |-> p.call.cur + BLOCK_SIZE, block |-> b])
  BY DEF PutEntry, PutAt
<1> DEFINE c == [p.call EXCEPT !.cur = p.call.cur + BLOCK_SIZE, !.need = p.call.need - 1,
                   !.pc = IF p.call.need = 1 THEN "publish" ELSE p.call.pc,
                   !.first = IF p.call.first = NoBlock THEN b ELSE p.call.first]
           front == (p.front + 1) % hs[Len(hs)].size
<1>2. pr' = [p EXCEPT !.front = front, !.tailBlock = b, !.call = c]
  BY DEF PutEntry
<1>3. /\ DOMAIN c = CallShape /\ c.cur = p.call.cur + BLOCK_SIZE /\ c.need = p.call.need - 1
      /\ c.pc = (IF p.call.need = 1 THEN "publish" ELSE p.call.pc)
      /\ c.first = (IF p.call.first = NoBlock THEN b ELSE p.call.first)
      /\ c.n = p.call.n /\ c.start = p.call.start /\ c.origUsed = p.call.origUsed
  BY DEF CallShape
<1> HIDE DEF c, front
<1>4. /\ DOMAIN pr' = PrShape /\ pr'.front = front /\ pr'.slotsUsed = p.slotsUsed /\ pr'.tailBlock = b
      /\ pr'.call = c
  BY <1>2 DEF PrShape
<1> QED
  BY <1>1, <1>3, <1>4 DEF TakesBlock, front

\* The call has the block with the next number.
LEMMA TakesNumber ==
  ASSUME CqNumbers, NEW m \in Nat, NEW n \in Nat, NEW r \in Nat, n <= r, NEW ring, NEW new, NEW b \in Nat \ {0},
         NEW STATE p, Enqueue(n, m, ring), pr.call.pc \in {"reuse", "add"}, tailIndex' = tailIndex,
         \A k \in Numbers(n, m) : ring[k] # NoBlock,
         p.call.pc \in {"reuse", "add"}, p.call.need = pr.call.need, p.call.cur = pr.call.cur,
         p.call.first = pr.call.first, p.call.n = pr.call.n, p.call.start = pr.call.start,
         p.call.origUsed = pr.call.origUsed,
         TakesBlock(p, b), Numbered(new, ring, m, b), Fresh \in Numbers(r, m + 1)
  PROVE  Enqueue(r, m + 1, new)'
<1>1. Fresh' = Fresh /\ Fresh \in Nat /\ tailIndex \in Nat
  BY FreshIs DEF Fresh
<1>2. /\ pr.call.n \in Nat \ {0} /\ tailIndex + pr.call.n <= CqItems
      /\ pr.call.cur = Start(m - 1) /\ Fresh <= m
      /\ pr.call.need \in Nat \ {0} /\ m + pr.call.need = Number(tailIndex + pr.call.n - 1) + 1
      /\ pr.call.first = (IF Fresh < m THEN ring[Fresh] ELSE NoBlock)
      /\ Fresh < m => Fresh \in Numbers(n, m)
      /\ tailIndex % BLOCK_SIZE # 0 => pr.call.start = ring[Fresh - 1]
      /\ pr.call.origUsed \in 0..n /\ (tailIndex > 0 => pr.call.origUsed > 0)
  BY DEF Enqueue
<1>3. /\ DOMAIN pr'.call = CallShape
      /\ pr'.call.cur = pr.call.cur + BLOCK_SIZE /\ pr'.call.need = pr.call.need - 1
      /\ pr'.call.pc \in {"reuse", "add", "publish"}
      /\ pr'.call.pc = "publish" <=> pr.call.need = 1
      /\ pr'.call.first = (IF pr.call.first = NoBlock THEN b ELSE pr.call.first)
      /\ pr'.call.n = pr.call.n /\ pr'.call.start = pr.call.start /\ pr'.call.origUsed = pr.call.origUsed
  BY DEF TakesBlock
<1>4. PICK need \in Nat \ {0}, last \in Int : need = pr.call.need /\ last = Number(tailIndex + pr.call.n - 1)
  <2>1. PICK v \in Int : v = tailIndex + pr.call.n - 1
    BY <1>1, <1>2
  <2> QED
    BY <1>2, <2>1, NumberIndex
<1>5. pr'.call.cur = Start((m + 1) - 1)
  <2>1. m - 1 \in Int /\ (m - 1) + 1 = (m + 1) - 1
    OBVIOUS
  <2>2. Start(m - 1) + BLOCK_SIZE = Start((m - 1) + 1)
    BY <2>1, StartOf
  <2> QED
    BY <1>2, <1>3, <2>1, <2>2
<1>6. pr'.call.need \in Nat /\ (m + 1) + pr'.call.need = Number(tailIndex' + pr'.call.n - 1) + 1
      /\ (pr'.call.pc = "publish" => pr'.call.need = 0) /\ (pr'.call.pc # "publish" => pr'.call.need > 0)
  <2>1. pr'.call.need = need - 1 /\ m + need = last + 1 /\ Number(tailIndex' + pr'.call.n - 1) = last
    BY <1>2, <1>3, <1>4
  <2>2. need - 1 \in Nat /\ (m + 1) + (need - 1) = last + 1
    BY <2>1
  <2>3. pr'.call.pc = "publish" <=> need = 1
    BY <1>3, <1>4
  <2> QED
    BY <2>1, <2>2, <2>3
<1>7. pr'.call.first = new[Fresh]
  <2>1. CASE Fresh < m
    <3>1. ring[Fresh] # NoBlock /\ new[Fresh] = ring[Fresh]
      BY <1>1, <1>2, <2>1 DEF Numbered
    <3> QED
      BY <1>2, <1>3, <2>1, <3>1
  <2>2. CASE Fresh = m
    <3>1. pr.call.first = NoBlock
      BY <1>1, <1>2, <2>2
    <3> QED
      BY <1>3, <2>2, <3>1 DEF Numbered
  <2> QED
    BY <1>1, <1>2, <2>1, <2>2
<1>8. tailIndex % BLOCK_SIZE # 0 => new[Fresh - 1] = ring[Fresh - 1]
  <2> SUFFICES ASSUME tailIndex % BLOCK_SIZE # 0 PROVE new[Fresh - 1] = ring[Fresh - 1]
    OBVIOUS
  <2>1. tailIndex # 0
    BY CqAssumption
  <2>2. Fresh > 0
    BY <1>1, <2>1, FreshIs
  <2>3. Fresh - 1 \in Nat /\ Fresh - 1 # m
    BY <1>1, <1>2, <2>2
  <2> QED
    BY <2>3 DEF Numbered
<1>9. pr'.call.origUsed \in 0..r /\ (tailIndex' > 0 => pr'.call.origUsed > 0)
  BY <1>2, <1>3
<1>10. Fresh' < m + 1 /\ Fresh' <= m + 1 /\ Fresh' # m + 1
  BY <1>1, <1>2
<1>11. pr'.call.n \in Nat \ {0} /\ tailIndex' + pr'.call.n <= CqItems
  BY <1>2, <1>3
<1>12. tailIndex' % BLOCK_SIZE # 0 => pr'.call.start = new[Fresh' - 1]
  BY <1>1, <1>2, <1>3, <1>8
<1> QED
  BY <1>1, <1>3, <1>5, <1>6, <1>7, <1>9, <1>10, <1>11, <1>12 DEF Enqueue, PrPcs

\* When blocks bs become as, there is nothing in b; the others have what they had.
OpensBlock(bs, as, n, m, ring, b) ==
  /\ IsBlock(as[b]) /\ \A s \in Slots : as[b].item[s] = NoItem /\ as[b].empty[s]
  /\ \A k \in Numbers(n, m) :
       IsBlock(as[ring[k]]) /\ as[ring[k]].item = bs[ring[k]].item /\ as[ring[k]].empty = bs[ring[k]].empty

\* Then all contain what they should; the flags will be reset later.
LEMMA ContentsOn ==
  ASSUME CqNumbers, NEW m \in Nat, NEW n \in Nat, NEW r \in Nat, r <= n + 1, r <= m + 1, NEW ring, NEW new, NEW b,
         Contents(blocks, n, m, ring), UNCHANGED <<tailIndex, headIndex, deq>>,
         pr.call.pc \in {"reuse", "add"}, pr'.call.pc \in {"reuse", "add", "publish"},
         Fresh <= m, Numbered(new, ring, m, b),
         OpensBlock(blocks, blocks', n, m, ring, b)
  PROVE  Contents(blocks, r, m + 1, new)'
<1>1. Fresh' = Fresh /\ Stored' = Stored /\ Opened(m + 1)' = Fresh /\ Opened(m) = Fresh /\ Stored = tailIndex
  BY DEF Fresh, Stored, Opened
<1>2. \A i : (Gone(i)' <=> Gone(i)) /\ (Flagged(i)' <=> Flagged(i))
  BY ProducerFrame
<1>a. /\ IsBlock(blocks'[b]) /\ \A s \in Slots : blocks'[b].item[s] = NoItem /\ blocks'[b].empty[s]
      /\ \A j \in Numbers(n, m) :
           /\ IsBlock(blocks'[ring[j]])
           /\ blocks'[ring[j]].item = blocks[ring[j]].item /\ blocks'[ring[j]].empty = blocks[ring[j]].empty
  BY DEF OpensBlock
<1> SUFFICES ASSUME NEW k \in Numbers(r, m + 1)
             PROVE  IsBlock(blocks'[new[k]]) /\ HasItems(blocks[new[k]], k, m + 1)'
  BY DEF Contents
<1>3. k \in Nat /\ k <= m
  BY DEF Numbers
<1>4. CASE k = m
  <2>1. new[k] = b /\ Fresh \in Nat /\ ~(m < Fresh)
    BY <1>4, FreshIs DEF Numbered
  <2>2. ASSUME NEW s \in Slots PROVE ~(Index(m, s) < tailIndex)
    <3>1. Index(m, s) \in Int /\ Number(Index(m, s)) = m
      BY IndexNumber
    <3>2. CASE Index(m, s) < tailIndex
      BY <2>1, <3>1, <3>2, FreshIs
    <3> QED
      BY <3>2
  <2>3. HasItems(blocks[new[k]], k, m + 1)'
    BY <1>1, <1>4, <1>a, <2>1, <2>2 DEF HasItems
  <2> QED
    BY <1>a, <2>1, <2>3
<1>5. CASE k # m
  <2>1. k \in Numbers(n, m)
    BY <1>3, <1>5 DEF Numbers
  <2>2. new[k] = ring[k]
    BY <1>3, <1>5 DEF Numbered
  <2>3. HasItems(blocks[ring[k]], k, m)
    BY <2>1 DEF Contents
  <2>4. /\ IsBlock(blocks'[ring[k]])
        /\ blocks'[ring[k]].item = blocks[ring[k]].item /\ blocks'[ring[k]].empty = blocks[ring[k]].empty
    BY <1>a, <2>1
  <2>5. HasItems(blocks[new[k]], k, m + 1)'
    BY <1>1, <1>2, <2>2, <2>3, <2>4 DEF HasItems
  <2> QED
    BY <2>2, <2>4, <2>5
<1> QED
  BY <1>4, <1>5

\* The oldest block becomes the newest.
LEMMA ReuseRing ==
  ASSUME NEW n \in Nat \ {0}, NEW m \in Nat, NEW bs, NEW ring, NEW new, Ring(bs, n, m, ring),
         Numbered(new, ring, m, ring[m - n])
  PROVE  Ring(bs, n, m + 1, new)
<1>1. /\ IsArray(bs, n) /\ n <= m
      /\ \A k \in Numbers(n, m) : ring[k] \in 1..n
      /\ \A j, k \in Numbers(n, m) : ring[j] = ring[k] => j = k
      /\ \A b \in 1..n : \E k \in Numbers(n, m) : ring[k] = b
      /\ \A k \in Numbers(n, m) : bs[ring[k]].next = IF k = m - 1 THEN ring[m - n] ELSE ring[k + 1]
  BY DEF Ring
<1>2. /\ new[m] = ring[m - n] /\ m - n \in Numbers(n, m) /\ m - n \in Nat
      /\ \A k \in Nat : k # m => new[k] = ring[k]
  BY <1>1 DEF Numbered, Numbers
<1>3. ASSUME NEW k \in Numbers(n, m + 1)
      PROVE  \/ k = m
             \/ /\ k # m /\ k \in Nat /\ k \in Numbers(n, m) /\ k # m - n /\ k < m /\ new[k] = ring[k]
  <2>1. k \in Nat /\ k <= m /\ m + 1 - n <= k
    BY <1>1 DEF Numbers
  <2>2. ASSUME k # m PROVE k \in Numbers(n, m) /\ k # m - n /\ k < m /\ new[k] = ring[k]
    BY <1>2, <2>1, <2>2 DEF Numbers
  <2> QED
    BY <2>1, <2>2
<1>4. \A k \in Numbers(n, m + 1) : new[k] \in 1..n
  BY <1>1, <1>2, <1>3
<1>5. \A j, k \in Numbers(n, m + 1) : new[j] = new[k] => j = k
  BY <1>1, <1>2, <1>3
<1>6. ASSUME NEW b \in 1..n PROVE \E k \in Numbers(n, m + 1) : new[k] = b
  <2>1. PICK k \in Numbers(n, m) : ring[k] = b
    BY <1>1
  <2>2. k \in Nat /\ k < m /\ m - n <= k
    BY <1>1 DEF Numbers
  <2>3. CASE k = m - n
    <3>1. m \in Numbers(n, m + 1)
      BY DEF Numbers
    <3> QED
      BY <1>2, <2>1, <2>3, <3>1
  <2>4. CASE k # m - n
    <3>1. k \in Numbers(n, m + 1) /\ k # m
      BY <1>1, <2>2, <2>4 DEF Numbers
    <3> QED
      BY <1>2, <2>1, <2>2, <3>1
  <2> QED
    BY <2>3, <2>4
<1>7. ASSUME NEW k \in Numbers(n, m + 1)
      PROVE  bs[new[k]].next = IF k = m THEN new[(m + 1) - n] ELSE new[k + 1]
  <2>1. CASE k = m
    <3>1. bs[new[k]].next = IF m - n = m - 1 THEN ring[m - n] ELSE ring[(m - n) + 1]
      BY <1>1, <1>2, <2>1
    <3>2. CASE n = 1
      <4>1. (m + 1) - n = m /\ m - n = m - 1
        BY <3>2
      <4> QED
        BY <1>2, <2>1, <3>1, <4>1
    <3>3. CASE n # 1
      <4>1. (m + 1) - n = (m - n) + 1 /\ (m - n) + 1 \in Nat /\ (m - n) + 1 # m /\ m - n # m - 1
        BY <1>1, <1>2, <3>3
      <4>2. new[(m - n) + 1] = ring[(m - n) + 1]
        BY <1>2, <4>1
      <4> QED
        BY <2>1, <3>1, <4>1, <4>2
    <3> QED
      BY <3>2, <3>3
  <2>2. CASE k # m
    <3>1. k \in Nat /\ k \in Numbers(n, m) /\ k < m /\ new[k] = ring[k] /\ k + 1 \in Nat
      BY <1>3, <2>2
    <3>2. bs[new[k]].next = IF k = m - 1 THEN ring[m - n] ELSE ring[k + 1]
      BY <1>1, <3>1
    <3>3. CASE k = m - 1
      <4>1. k + 1 = m
        BY <3>1, <3>3
      <4> QED
        BY <1>2, <2>2, <3>2, <3>3, <4>1
    <3>4. CASE k # m - 1
      <4>1. k + 1 # m
        BY <3>1, <3>4
      <4> QED
        BY <1>2, <2>2, <3>1, <3>2, <3>4, <4>1
    <3> QED
      BY <3>3, <3>4
  <2> QED
    BY <2>1, <2>2
<1>8. n <= m + 1 /\ (m + 1) - 1 = m
  BY <1>1
<1> QED
  BY <1>1, <1>4, <1>5, <1>6, <1>7, <1>8 DEF Ring

\* When blocks bs become as, there is one more, linked in after the last one.
Injected(bs, as, n, m, ring) ==
  /\ IsArray(as, n + 1) /\ as[n + 1].next = IF n = 0 THEN n + 1 ELSE ring[m - n]
  /\ \A k \in Numbers(n, m) : as[ring[k]].next = IF k = m - 1 THEN n + 1 ELSE bs[ring[k]].next

\* A new block joins the ring after the last one.
LEMMA AddRing ==
  ASSUME NEW n \in Nat, NEW m \in Nat, NEW bs, NEW as, NEW ring, NEW new, Ring(bs, n, m, ring),
         Numbered(new, ring, m, n + 1), Injected(bs, as, n, m, ring)
  PROVE  Ring(as, n + 1, m + 1, new)
<1>1. /\ n <= m
      /\ \A k \in Numbers(n, m) : ring[k] \in 1..n
      /\ \A j, k \in Numbers(n, m) : ring[j] = ring[k] => j = k
      /\ \A b \in 1..n : \E k \in Numbers(n, m) : ring[k] = b
      /\ \A k \in Numbers(n, m) : bs[ring[k]].next = IF k = m - 1 THEN ring[m - n] ELSE ring[k + 1]
  BY DEF Ring
<1>a. /\ IsArray(as, n + 1) /\ as[n + 1].next = IF n = 0 THEN n + 1 ELSE ring[m - n]
      /\ \A k \in Numbers(n, m) : as[ring[k]].next = IF k = m - 1 THEN n + 1 ELSE bs[ring[k]].next
  BY DEF Injected
<1>2. new[m] = n + 1 /\ m - n \in Nat /\ \A k \in Nat : k # m => new[k] = ring[k]
  BY <1>1 DEF Numbered
<1>3. ASSUME NEW k \in Numbers(n + 1, m + 1)
      PROVE  \/ k = m
             \/ /\ k # m /\ k \in Nat /\ k \in Numbers(n, m) /\ k < m /\ new[k] = ring[k]
  <2>1. k \in Nat /\ k <= m /\ m - n <= k
    BY <1>1 DEF Numbers
  <2>2. ASSUME k # m PROVE k \in Numbers(n, m) /\ k < m /\ new[k] = ring[k]
    BY <1>2, <2>1, <2>2 DEF Numbers
  <2> QED
    BY <2>1, <2>2
<1>4. ASSUME NEW k \in Numbers(n + 1, m + 1) PROVE new[k] \in 1..(n + 1) /\ (k # m => new[k] \in 1..n)
  BY <1>1, <1>2, <1>3
<1>5. ASSUME NEW j \in Numbers(n + 1, m + 1), NEW k \in Numbers(n + 1, m + 1), new[j] = new[k] PROVE j = k
  <2>1. CASE j = m /\ k # m
    BY <1>2, <1>4, <1>5, <2>1
  <2>2. CASE j # m /\ k = m
    BY <1>2, <1>4, <1>5, <2>2
  <2>3. CASE j # m /\ k # m
    BY <1>1, <1>3, <1>5, <2>3
  <2> QED
    BY <2>1, <2>2, <2>3
<1>6. ASSUME NEW b \in 1..(n + 1) PROVE \E k \in Numbers(n + 1, m + 1) : new[k] = b
  <2>1. CASE b = n + 1
    <3>1. m \in Numbers(n + 1, m + 1)
      BY DEF Numbers
    <3> QED
      BY <1>2, <2>1, <3>1
  <2>2. CASE b \in 1..n
    <3>1. PICK k \in Numbers(n, m) : ring[k] = b
      BY <1>1, <2>2
    <3>a. k \in Int /\ m - n <= k /\ k <= m - 1
      BY DEF Numbers
    <3>b. k \in Nat /\ k # m /\ (m + 1) - (n + 1) <= k /\ k <= (m + 1) - 1
      BY <1>1, <3>a
    <3>2. k \in Numbers(n + 1, m + 1) /\ k \in Nat /\ k # m
      BY <3>b DEF Numbers
    <3> QED
      BY <1>2, <3>1, <3>2
  <2> QED
    BY <2>1, <2>2
<1>7. ASSUME NEW k \in Numbers(n + 1, m + 1)
      PROVE  as[new[k]].next = IF k = m THEN new[m - n] ELSE new[k + 1]
  <2>1. CASE k = m
    <3>1. CASE n = 0
      <4>1. m - n = m
        BY <3>1
      <4> QED
        BY <1>2, <1>a, <2>1, <3>1, <4>1
    <3>2. CASE n # 0
      <4>1. m - n # m
        BY <3>2
      <4> QED
        BY <1>2, <1>a, <2>1, <3>2, <4>1
    <3> QED
      BY <3>1, <3>2
  <2>2. CASE k # m
    <3>1. k \in Nat /\ k \in Numbers(n, m) /\ k < m /\ new[k] = ring[k] /\ k + 1 \in Nat
      BY <1>3, <2>2
    <3>2. as[new[k]].next = IF k = m - 1 THEN n + 1 ELSE bs[ring[k]].next
      BY <1>a, <3>1
    <3>3. CASE k = m - 1
      <4>1. k + 1 = m
        BY <3>1, <3>3
      <4> QED
        BY <1>2, <2>2, <3>2, <3>3, <4>1
    <3>4. CASE k # m - 1
      <4>1. k + 1 # m
        BY <3>1, <3>4
      <4>2. bs[ring[k]].next = ring[k + 1]
        BY <1>1, <3>1, <3>4
      <4> QED
        BY <1>2, <2>2, <3>1, <3>2, <3>4, <4>1, <4>2
    <3> QED
      BY <3>3, <3>4
  <2> QED
    BY <2>1, <2>2
<1>8. n + 1 <= m + 1 /\ (m + 1) - 1 = m /\ (m + 1) - (n + 1) = m - n
  BY <1>1
<1>9. /\ \A k \in Numbers(n + 1, m + 1) : new[k] \in 1..(n + 1)
      /\ \A j, k \in Numbers(n + 1, m + 1) : new[j] = new[k] => j = k
      /\ \A b \in 1..(n + 1) : \E k \in Numbers(n + 1, m + 1) : new[k] = b
  BY <1>4, <1>5, <1>6
<1>10. \A k \in Numbers(n + 1, m + 1) :
         as[new[k]].next = IF k = (m + 1) - 1 THEN new[(m + 1) - (n + 1)] ELSE new[k + 1]
  BY <1>7, <1>8
<1> QED
  BY <1>a, <1>8, <1>9, <1>10 DEF Ring

\* The first block in use again is the oldest one, from which all items are gone.
LEMMA ReuseIsOldest ==
  ASSUME NEW n, NEW g, NEW m, NEW ring, NEW shift, Found(n, g, m, ring, shift), CqNumbers,
         pr.call.pc = "reuse", MayReuse
  PROVE  /\ n > 0 /\ blocks[pr.tailBlock].next = ring[m - n] /\ m - n \in Numbers(n, m) /\ m - n < Fresh
         /\ \A s \in Slots : blocks[ring[m - n]].empty[s] /\ Flagged(Index(m - n, s))
<1>1. /\ n \in Nat /\ m \in Nat /\ n <= m
      /\ pr.tailBlock = IF n = 0 THEN NoBlock ELSE ring[m - 1]
  BY FoundCall
<1>2. /\ pr.tailBlock # NoBlock /\ blocks[pr.tailBlock].next # pr.call.first
      /\ \A s \in Slots : blocks[blocks[pr.tailBlock].next].empty[s]
  BY DEF MayReuse, IsEmpty
<1>3. n > 0 /\ pr.tailBlock = ring[m - 1]
  BY <1>1, <1>2
<1>4. m - 1 \in Numbers(n, m) /\ m - n \in Numbers(n, m)
  BY <1>1, <1>3 DEF Numbers
<1>5. blocks[pr.tailBlock].next = ring[m - n]
  BY <1>3, <1>4 DEF Found, Ring
<1>6. Fresh \in Nat /\ Fresh <= m /\ pr.call.first = (IF Fresh < m THEN ring[Fresh] ELSE NoBlock)
      /\ (Fresh < m => Fresh \in Numbers(n, m))
  BY FreshIs DEF Found, Enqueue
<1>7. m - n < Fresh
  <2> SUFFICES ASSUME m - n >= Fresh PROVE FALSE
    BY <1>1, <1>6
  <2>1. Fresh < m
    BY <1>1, <1>3, <1>6
  <2>2. Fresh = m - n
    BY <1>1, <1>6, <2>1 DEF Numbers
  <2> QED
    BY <1>2, <1>5, <1>6, <2>1, <2>2
<1>8. HasItems(blocks[ring[m - n]], m - n, m)
  BY <1>4 DEF Found, Contents
<1>9. Opened(m) = Fresh
  BY DEF Opened
<1>10. \A s \in Slots : blocks[ring[m - n]].empty[s] /\ Flagged(Index(m - n, s))
  BY <1>2, <1>5, <1>7, <1>8, <1>9 DEF HasItems
<1> QED
  BY <1>3, <1>4, <1>5, <1>7, <1>10

\* A flagged item is gone, and nobody owns it.
LEMMA FlaggedIs ==
  ASSUME NEW i
  PROVE  /\ Flagged(i) => Gone(i)
         /\ \A c \in CqConsumers : i \in Owns(c) => ~Flagged(i)
  BY DEF Flagged, Gone

\* The index of a call's items keeps their entries when number m gets its own.
LEMMA EntryServes ==
  ASSUME NEW n, NEW g, NEW m, NEW ring, NEW shift, Found(n, g, m, ring, shift), CqNumbers, HeadWithinTail,
         NEW c \in CqConsumers, NEW u \in Nat, NEW as, NEW hs, NEW new, NEW next,
         g <= u, IndexKept(headers, as, g, shift, next), IndexKept(as, hs, u, next, next),
         \A h \in 1..g : as[h].front = headers[h].front,
         \A h \in 1..u : hs[h].front = as[h].front,
         \A h \in 1..g, k \in Nat : Shows(headers, h, ring, shift, k) => Shows(as, h, ring, next, k),
         \A h \in 1..u, k \in Nat :
           k < m /\ m < k + as[u].size /\ Shows(as, h, ring, next, k) => Shows(hs, h, new, next, k),
         as[u].size \in Nat, \A i \in Owns(c) : m < Number(i) + as[u].size
  PROVE  ServesCall(headers, hs, g, c, ring, new, shift, next)
<1>0. n \in Nat /\ m \in Nat /\ n <= m /\ g \in Nat /\ \A h \in 1..g : h \in 1..u
  BY FoundCall
<1>1. IndexKept(headers, hs, g, shift, next)
  BY <1>0 DEF IndexKept
<1>2. \A h \in 1..g : Filled(headers, h, headers[h].front) => Filled(hs, h, hs[h].front)
  <2> SUFFICES ASSUME NEW h \in 1..g, Filled(headers, h, headers[h].front) PROVE Filled(hs, h, hs[h].front)
    OBVIOUS
  <2>1. hs[h].front = headers[h].front
    BY <1>0
  <2>2. Filled(hs, h, headers[h].front)
    BY <1>1 DEF IndexKept
  <2> QED
    BY <2>1, <2>2
<1>3. \A h \in 1..g : \A i \in Owns(c) :
        Shows(headers, h, ring, shift, Number(i)) => Shows(hs, h, new, next, Number(i))
  <2> SUFFICES ASSUME NEW h \in 1..g, NEW i \in Owns(c), Shows(headers, h, ring, shift, Number(i))
               PROVE  Shows(hs, h, new, next, Number(i))
    OBVIOUS
  <2>1. Number(i) \in Nat /\ Number(i) \in Numbers(n, m)
    BY OwnedKept
  <2>2. Number(i) < m
    BY <1>0, <2>1 DEF Numbers
  <2>3. Shows(as, h, ring, next, Number(i)) /\ h \in 1..u
    BY <1>0, <2>1
  <2> QED
    BY <2>1, <2>2, <2>3
<1> QED
  BY <1>1, <1>2, <1>3 DEF ServesCall

\* A block is used again.
LEMMA ReuseBlockFinds ==
  ASSUME FindInv, CountInv, HeadWithinTail, ReuseBlock
  PROVE  FindInv'
<1>1. PICK n, g, m, ring, shift : Found(n, g, m, ring, shift)
  BY DEF FindInv
<1>2. CqNumbers
  BY DEF CountInv, CqKinds
<1>3. /\ n \in Nat /\ g \in Nat \ {0} /\ m \in Nat /\ n <= m
      /\ ring \in [Nat -> Nat] /\ shift \in [Nat -> Int]
      /\ DOMAIN pr = PrShape /\ DOMAIN pr.call = CallShape
      /\ pr.front = At(headers, g, shift, m) /\ pr.slotsUsed = n
  BY <1>1, FoundCall
<1>4. /\ pr.call.pc = "reuse" /\ MayReuse /\ UNCHANGED <<tailIndex, headIndex, deq, blocks>>
      /\ PutEntry(pr, headers, blocks[pr.tailBlock].next)
  BY DEF ReuseBlock, SharedByConsumers, pc
<1>5. /\ n > 0 /\ blocks[pr.tailBlock].next = ring[m - n] /\ m - n \in Numbers(n, m) /\ m - n < Fresh
      /\ \A s \in Slots : blocks[ring[m - n]].empty[s] /\ Flagged(Index(m - n, s))
  BY <1>1, <1>2, <1>4, ReuseIsOldest
<1>6. PICK b \in 1..n : b = ring[m - n]
  BY <1>1, <1>5 DEF Found, Ring
<1>7. PICK new \in [Nat -> Nat] : Numbered(new, ring, m, b)
  <2>1. [ring EXCEPT ![m] = b] \in [Nat -> Nat]
    BY <1>3
  <2>2. Numbered([ring EXCEPT ![m] = b], ring, m, b)
    BY <1>3 DEF Numbered
  <2> QED
    BY <2>1, <2>2
<1>8. /\ Enqueue(n, m, ring) /\ Contents(blocks, n, m, ring) /\ Ring(blocks, n, m, ring)
      /\ Indices(headers, g, n, m, ring, shift) /\ Kept(n, m) /\ Producer(n, g, m, ring, shift)
  BY <1>1 DEF Found
<1>9. Len(headers) = g /\ n <= headers[g].size /\ headers[g].size \in Nat
  <2>1. g \in 1..g
    BY <1>3
  <2> QED
    BY <1>8, <2>1, ArrayIs DEF Indices, IndexOK
<1>10. pr.call.cur = Start(m - 1) /\ Fresh <= m /\ Fresh \in Nat /\ (Fresh < m => Fresh \in Numbers(n, m))
  BY <1>2, <1>4, <1>8, FreshIs DEF Enqueue
<1>11. pr.call.cur + BLOCK_SIZE = Start(m)
  <2>1. m - 1 \in Int /\ (m - 1) + 1 = m
    BY <1>3
  <2> QED
    BY <1>10, <2>1, StartOf
<1>12. /\ headers' = PutAt(headers, g, At(headers, g, shift, m), [base |-> Start(m), block |-> b])
       /\ pr'.front = (At(headers, g, shift, m) + 1) % headers[g].size /\ TakesBlock(pr, b)
  <2>1. PutEntry(pr, headers, b)
    BY <1>4, <1>5, <1>6
  <2>2. /\ headers' = PutAt(headers, Len(headers), pr.front, [base |-> pr.call.cur + BLOCK_SIZE, block |-> b])
        /\ pr'.front = (pr.front + 1) % headers[Len(headers)].size /\ TakesBlock(pr, b)
    BY <1>3, <2>1, PutEntryIs
  <2> QED
    BY <1>3, <1>9, <1>11, <2>2
<1>14. new[m] = b /\ \A k \in Nat : k # m => new[k] = ring[k]
  BY <1>7 DEF Numbered
<1>15. /\ Indices(headers', g, n, m + 1, new, shift) /\ IndexKept(headers, headers', g, shift, shift)
       /\ \A h \in 1..g : headers'[h].front = headers[h].front
       /\ At(headers', g, shift, m + 1) = (At(headers, g, shift, m) + 1) % headers[g].size
       /\ \A h \in 1..g, k \in Nat :
            k < m /\ m < k + headers[g].size /\ Shows(headers, h, ring, shift, k) => Shows(headers', h, new, shift, k)
  <2>1. n <= n + 1 /\ n <= m + 1 /\ b \in Nat \ {0}
    BY <1>3
  <2>2. EntryPut(headers, headers', g, n, n, m, ring, new, shift, b)
    BY <1>7, <1>8, <1>9, <1>12, <2>1, Zenon DEF EntryPut
  <2>3. EntryThere(headers, headers', g, n, m, ring, new, shift)
    BY <1>3, <2>1, <2>2, PutEntryIndex, Zenon
  <2> QED
    BY <2>3 DEF EntryThere
<1>16. ASSUME NEW i \in Nat, Number(i) \in Numbers(n, m), ~Flagged(i)
       PROVE  Number(i) \in Numbers(n, m + 1) /\ m < Number(i) + n
  <2>1. Number(i) # m - n
    <3> SUFFICES ASSUME Number(i) = m - n PROVE FALSE
      OBVIOUS
    <3>1. i % BLOCK_SIZE \in Slots /\ Index(m - n, i % BLOCK_SIZE) = i
      BY NumberIndex
    <3> QED
      BY <1>5, <1>16, <3>1
  <2>2. Number(i) \in Int /\ m - n <= Number(i) /\ Number(i) <= m - 1
    BY <1>3, <1>16 DEF Numbers
  <2> QED
    BY <1>3, <2>1, <2>2 DEF Numbers
<1>17. \A c \in CqConsumers : ServesCall(headers, headers', g, c, ring, new, shift, shift)
  <2> SUFFICES ASSUME NEW c \in CqConsumers PROVE ServesCall(headers, headers', g, c, ring, new, shift, shift)
    OBVIOUS
  <2>1. ASSUME NEW i \in Owns(c) PROVE m < Number(i) + headers[g].size
    <3>1. i \in Nat /\ ~Flagged(i) /\ Number(i) \in Numbers(n, m) /\ Number(i) \in Nat
      BY <1>1, <1>2, OwnedKept
    <3>2. m < Number(i) + n
      BY <1>16, <3>1
    <3> QED
      <4>1. PICK z \in Nat, k \in Nat : z = headers[g].size /\ k = Number(i)
        BY <1>9, <3>1
      <4>2. n <= z /\ m < k + n
        BY <1>9, <3>2, <4>1
      <4>3. m < k + z
        BY <1>3, <4>2
      <4> QED
        BY <4>1, <4>3
  <2>2. IndexKept(headers, headers, g, shift, shift)
    BY DEF IndexKept
  <2>3. g \in Nat /\ g <= g
    BY <1>3
  <2> QED
    BY <1>1, <1>2, <1>9, <1>15, <2>1, <2>2, <2>3, EntryServes
<1>18. pr'.call.pc \in {"reuse", "publish"} /\ pr'.tailBlock = b /\ DOMAIN pr' = PrShape /\ pr'.slotsUsed = n
  BY <1>3, <1>4, <1>12 DEF TakesBlock
<1>19. Ring(blocks, n, m + 1, new)'
  <2>1. Ring(blocks, n, m + 1, new)
    BY <1>3, <1>5, <1>6, <1>7, <1>8, ReuseRing
  <2> QED
    BY <1>4, <2>1 DEF Ring
<1>20. Contents(blocks, n, m + 1, new)'
  <2>1. IsBlock(blocks[b]) /\ HasItems(blocks[b], m - n, m)
    BY <1>5, <1>6, <1>8 DEF Contents
  <2>2. \A s \in Slots : blocks'[b].item[s] = NoItem /\ blocks'[b].empty[s]
    BY <1>4, <1>5, <1>6, <2>1, FlaggedIs DEF HasItems
  <2>3. OpensBlock(blocks, blocks', n, m, ring, b)
    BY <1>4, <1>8, <2>1, <2>2 DEF Contents, OpensBlock
  <2>4. pr.call.pc \in {"reuse", "add"} /\ pr'.call.pc \in {"reuse", "add", "publish"} /\ n <= n + 1 /\ n <= m + 1
    BY <1>3, <1>4, <1>18
  <2> QED
    BY <1>2, <1>3, <1>4, <1>7, <1>8, <1>10, <2>3, <2>4, ContentsOn
<1>21. Kept(n, m + 1)'
  <2>1. Fresh' = Fresh
    BY <1>4 DEF Fresh
  <2> SUFFICES ASSUME NEW i \in Nat, Number(i) < Fresh, ~Flagged(i)' PROVE Number(i) \in Numbers(n, m + 1)
    BY <2>1 DEF Kept
  <2>2. ~Flagged(i)
    BY <1>4, ProducerFrame
  <2>3. Number(i) \in Numbers(n, m)
    BY <1>8, <2>2 DEF Kept
  <2> QED
    BY <1>16, <2>2, <2>3
<1>22. Producer(n, g, m + 1, new, shift)'
  <2>1. pr'.tailBlock = new[(m + 1) - 1]
    BY <1>3, <1>14, <1>18
  <2>2. tailIndex' > 0 \/ pr'.call.pc \in {"construct", "store"} => tailIndex > 0
    BY <1>4, <1>18
  <2>3. ASSUME tailIndex > 0 PROVE Filled(headers', g, headers'[g].front)
    <3>1. Filled(headers, g, headers[g].front)
      BY <1>8, <2>3 DEF Producer
    <3>2. g \in 1..g
      BY <1>3
    <3> QED
      BY <1>15, <3>1, <3>2 DEF IndexKept
  <2> QED
    BY <1>5, <1>12, <1>15, <1>18, <2>1, <2>2, <2>3 DEF Producer, PrShape
<1>23. Enqueue(n, m + 1, new)'
  <2>1. \A k \in Numbers(n, m) : ring[k] # NoBlock
    BY <1>3, <1>8 DEF Ring, NoBlock
  <2>2. Fresh \in Numbers(n, m + 1)
    <3>1. CASE Fresh = m
      BY <1>3, <1>5, <3>1 DEF Numbers
    <3>2. CASE Fresh # m
      BY <1>3, <1>5, <1>10, <3>2 DEF Numbers
    <3> QED
      BY <3>1, <3>2
  <2>3. b \in Nat \ {0} /\ n <= n
    BY <1>3
  <2> QED
    BY <1>2, <1>3, <1>4, <1>7, <1>8, <1>12, <2>1, <2>2, <2>3, TakesNumber
<1>24. m + 1 \in Nat /\ g \in Nat /\ g <= g /\ Indices(headers, g, n, m + 1, new, shift)'
  BY <1>3, <1>15
<1> QED
  BY <1>1, <1>3, <1>4, <1>17, <1>19, <1>20, <1>21, <1>22, <1>23, <1>24, ProducerLeaves

\* The new block, and the link to it.
LEMMA InjectIs ==
  ASSUME NEW n, NEW g, NEW m, NEW ring, NEW shift, Found(n, g, m, ring, shift), NEW bs, bs = Inject(n + 1)
  PROVE  Injected(blocks, bs, n, m, ring) /\ OpensBlock(blocks, bs, n, m, ring, n + 1)
<1>1. /\ n \in Nat /\ m \in Nat /\ n <= m
      /\ pr.tailBlock = IF n = 0 THEN NoBlock ELSE ring[m - 1]
  BY FoundCall
<1>2. /\ IsArray(blocks, n) /\ \A k \in Numbers(n, m) : ring[k] \in 1..n
      /\ \A j, k \in Numbers(n, m) : ring[j] = ring[k] => j = k
      /\ \A k \in Numbers(n, m) : blocks[ring[k]].next = IF k = m - 1 THEN ring[m - n] ELSE ring[k + 1]
      /\ \A k \in Numbers(n, m) : IsBlock(blocks[ring[k]])
  BY DEF Found, Ring, Contents
<1>3. NoItem \in Int
  BY DEF NoItem
<1>4. ASSUME NEW next
      PROVE  /\ IsBlock(FreshBlock(next)) /\ FreshBlock(next).next = next
             /\ \A s \in Slots : FreshBlock(next).item[s] = NoItem /\ FreshBlock(next).empty[s]
  BY <1>3 DEF FreshBlock, IsBlock
<1>a. IsArray(blocks, n)
  BY <1>2
<1>b. ASSUME NEW e
      PROVE  /\ IsArray(Append(blocks, e), n + 1) /\ Append(blocks, e)[n + 1] = e
             /\ \A b \in 1..n : Append(blocks, e)[b] = blocks[b]
  <2>1. Extended(Append(blocks, e), blocks, n, e)
    BY <1>a, ArrayAppend
  <2> QED
    BY <2>1 DEF Extended
<1>5. CASE n = 0
  <2>1. bs = Append(blocks, FreshBlock(n + 1))
    BY <1>1, <1>5 DEF Inject
  <2>2. IsArray(bs, n + 1) /\ bs[n + 1] = FreshBlock(n + 1)
    BY <1>b, <2>1
  <2>3. \A k : k \notin Numbers(n, m)
    BY <1>1, <1>5 DEF Numbers
  <2> QED
    BY <1>4, <1>5, <2>2, <2>3 DEF Injected, OpensBlock
<1>6. CASE n # 0
  <2>1. PICK t \in 1..n : t = pr.tailBlock /\ t = ring[m - 1] /\ t # NoBlock /\ m - 1 \in Numbers(n, m)
    <3>1. m - 1 \in Numbers(n, m)
      BY <1>1, <1>6 DEF Numbers
    <3>2. ring[m - 1] \in 1..n
      BY <1>2, <3>1
    <3> QED
      BY <1>1, <1>6, <3>1, <3>2 DEF NoBlock
  <2>a. PICK e : e = FreshBlock(ring[m - n])
    OBVIOUS
  <2>2. PICK as : as = Append(blocks, e)
    OBVIOUS
  <2>3. blocks[t].next = ring[m - n]
    BY <1>2, <2>1
  <2>4. bs = [as EXCEPT ![t].next = n + 1]
    BY <2>1, <2>2, <2>3, <2>a DEF Inject
  <2>5. IsArray(as, n + 1) /\ as[n + 1] = FreshBlock(ring[m - n]) /\ \A b \in 1..n : as[b] = blocks[b]
    BY <1>b, <2>2, <2>a
  <2>6. t \in 1..(n + 1) /\ n + 1 \in 1..(n + 1) /\ t # n + 1 /\ n + 1 \in Nat
        /\ \A b \in 1..n : b \in 1..(n + 1) /\ b # n + 1
    BY <1>1
  <2>7. IsArray(bs, n + 1) /\ \A b \in 1..(n + 1) : b # t => bs[b] = as[b]
    BY <2>4, <2>5, <2>6 DEF IsArray
  <2>8. bs[t] = [as[t] EXCEPT !.next = n + 1]
    BY <2>4, <2>5, <2>6 DEF IsArray
  <2>9. bs[n + 1] = FreshBlock(ring[m - n])
    BY <2>5, <2>6, <2>7
  <2>10. DOMAIN as[t] = {"next", "item", "empty"} /\ IsBlock(as[t]) /\ as[t] = blocks[t]
    <3>1. as[t] = blocks[t]
      BY <2>5
    <3>2. IsBlock(blocks[t])
      BY <1>2, <2>1
    <3> QED
      BY <3>1, <3>2 DEF IsBlock
  <2>11. bs[t].next = n + 1 /\ bs[t].item = blocks[t].item /\ bs[t].empty = blocks[t].empty
         /\ DOMAIN bs[t] = {"next", "item", "empty"}
    BY <2>8, <2>10
  <2>12. IsBlock(bs[t])
    BY <2>10, <2>11 DEF IsBlock
  <2>13. ASSUME NEW k \in Numbers(n, m)
         PROVE  /\ bs[ring[k]].next = IF k = m - 1 THEN n + 1 ELSE blocks[ring[k]].next
                /\ bs[ring[k]].item = blocks[ring[k]].item /\ bs[ring[k]].empty = blocks[ring[k]].empty
                /\ IsBlock(bs[ring[k]])
    <3>1. CASE k = m - 1
      BY <2>1, <2>11, <2>12, <3>1
    <3>2. CASE k # m - 1
      <4>1. ring[k] \in 1..n /\ ring[k] # t
        BY <1>2, <2>1, <3>2
      <4>2. bs[ring[k]] = blocks[ring[k]]
        BY <2>5, <2>6, <2>7, <4>1
      <4> QED
        BY <1>2, <3>2, <4>2
    <3> QED
      BY <3>1, <3>2
  <2> QED
    BY <1>4, <1>6, <2>7, <2>9, <2>13 DEF Injected, OpensBlock
<1> QED
  BY <1>5, <1>6

\* Block indices as serve the calls that headers serve, and are good for number m.
ReadyFor(as, u, n, g, m, ring, shift, next) ==
  /\ u \in Nat /\ g <= u /\ next \in [Nat -> Int]
  /\ Indices(as, u, n, m, ring, next) /\ n < as[u].size
  /\ IndexKept(headers, as, g, shift, next)
  /\ \A h \in 1..g : as[h].front = headers[h].front
  /\ \A h \in 1..g, k \in Nat : Shows(headers, h, ring, shift, k) => Shows(as, h, ring, next, k)
  /\ tailIndex > 0 => Filled(as, u, as[u].front)

\* What a call keeps while the index grows.
SameCall(p) ==
  /\ DOMAIN p = PrShape /\ DOMAIN p.call = CallShape
  /\ p.call.need = pr.call.need /\ p.call.cur = pr.call.cur
  /\ p.call.first = pr.call.first /\ p.call.n = pr.call.n /\ p.call.start = pr.call.start
  /\ p.call.origUsed = pr.call.origUsed

\* A block is added.
LEMMA AddFinds ==
  ASSUME NEW n, NEW g, NEW m, NEW ring, NEW shift, Found(n, g, m, ring, shift), CqNumbers, HeadWithinTail,
         pr.call.pc \in {"reuse", "add"}, UNCHANGED <<tailIndex, headIndex, deq>>, blocks' = Inject(n + 1),
         NEW STATE as, NEW STATE p, NEW u, NEW next, ReadyFor(as, u, n, g, m, ring, shift, next),
         SameCall(p), p.call.pc = "add", p.front = At(as, u, next, m), p.slotsUsed = n + 1,
         PutEntry(p, as, n + 1)
  PROVE  FindInv'
<1>1. /\ n \in Nat /\ g \in Nat \ {0} /\ m \in Nat /\ n <= m
      /\ ring \in [Nat -> Nat] /\ shift \in [Nat -> Int] /\ DOMAIN p = PrShape /\ DOMAIN p.call = CallShape
  BY FoundCall DEF SameCall
<1>2. /\ u \in Nat /\ g <= u /\ next \in [Nat -> Int]
      /\ Indices(as, u, n, m, ring, next) /\ n < as[u].size
      /\ IndexKept(headers, as, g, shift, next)
      /\ \A h \in 1..g : as[h].front = headers[h].front
      /\ \A h \in 1..g, k \in Nat : Shows(headers, h, ring, shift, k) => Shows(as, h, ring, next, k)
      /\ tailIndex > 0 => Filled(as, u, as[u].front)
  BY DEF ReadyFor
<1>3. Len(as) = u /\ as[u].size \in Nat /\ u \in 1..u
  <2>1. u \in 1..u
    BY <1>1, <1>2
  <2> QED
    BY <1>2, <2>1, ArrayIs DEF Indices, IndexOK
<1>4. PICK b \in Nat \ {0} : b = n + 1
  BY <1>1
<1>5. PICK new \in [Nat -> Nat] : Numbered(new, ring, m, b)
  <2>1. [ring EXCEPT ![m] = b] \in [Nat -> Nat]
    BY <1>1
  <2>2. Numbered([ring EXCEPT ![m] = b], ring, m, b)
    BY <1>1 DEF Numbered
  <2> QED
    BY <2>1, <2>2
<1>6. /\ Enqueue(n, m, ring) /\ Contents(blocks, n, m, ring) /\ Ring(blocks, n, m, ring)
      /\ Kept(n, m) /\ Producer(n, g, m, ring, shift)
  BY DEF Found
<1>7. pr.call.cur = Start(m - 1) /\ Fresh <= m /\ Fresh \in Nat /\ (Fresh < m => Fresh \in Numbers(n, m))
  BY <1>6, FreshIs DEF Enqueue
<1>8. p.call.cur + BLOCK_SIZE = Start(m)
  <2>1. m - 1 \in Int /\ (m - 1) + 1 = m /\ p.call.cur = pr.call.cur
    BY <1>1 DEF SameCall
  <2> QED
    BY <1>7, <2>1, StartOf
<1>9. /\ headers' = PutAt(as, u, At(as, u, next, m), [base |-> Start(m), block |-> b])
      /\ pr'.front = (At(as, u, next, m) + 1) % as[u].size /\ TakesBlock(p, b)
  <2>1. PutEntry(p, as, b)
    BY <1>4
  <2>2. /\ headers' = PutAt(as, Len(as), p.front, [base |-> p.call.cur + BLOCK_SIZE, block |-> b])
        /\ pr'.front = (p.front + 1) % as[Len(as)].size /\ TakesBlock(p, b)
    BY <1>1, <2>1, PutEntryIs
  <2> QED
    BY <1>3, <1>8, <2>2
<1>10. PICK size \in Nat : size = as[u].size /\ n < size
  BY <1>2, <1>3
<1>a. n < size
  BY <1>10
<1>11. /\ Indices(headers', u, b, m + 1, new, next) /\ IndexKept(as, headers', u, next, next)
       /\ \A h \in 1..u : headers'[h].front = as[h].front
       /\ At(headers', u, next, m + 1) = (At(as, u, next, m) + 1) % as[u].size
       /\ \A h \in 1..u, k \in Nat :
            k < m /\ m < k + as[u].size /\ Shows(as, h, ring, next, k) => Shows(headers', h, new, next, k)
  <2>1. b <= n + 1 /\ b <= m + 1 /\ b <= size
    BY <1>1, <1>4, <1>a
  <2>2. EntryPut(as, headers', u, n, b, m, ring, new, next, b)
    BY <1>2, <1>5, <1>9, <1>10, <2>1, Zenon DEF EntryPut
  <2>3. b \in Nat
    OBVIOUS
  <2>4. EntryThere(as, headers', u, b, m, ring, new, next)
    BY <1>1, <1>2, <2>2, <2>3, PutEntryIndex, Zenon
  <2> QED
    BY <2>4 DEF EntryThere
<1>12. \A c \in CqConsumers : ServesCall(headers, headers', g, c, ring, new, shift, next)
  <2> SUFFICES ASSUME NEW c \in CqConsumers PROVE ServesCall(headers, headers', g, c, ring, new, shift, next)
    OBVIOUS
  <2>1. ASSUME NEW i \in Owns(c) PROVE m < Number(i) + as[u].size
    <3>1. Number(i) \in Numbers(n, m) /\ Number(i) \in Nat
      BY OwnedKept
    <3>2. PICK k \in Nat : k = Number(i) /\ m - n <= k
      BY <1>1, <3>1 DEF Numbers
    <3>3. m < k + size
      BY <1>1, <1>a, <3>2
    <3> QED
      BY <1>10, <3>2, <3>3
  <2> QED
    BY <1>2, <1>3, <1>11, <2>1, EntryServes
<1>13. pr'.call.pc \in {"reuse", "add", "publish"} /\ pr'.tailBlock = b /\ DOMAIN pr' = PrShape /\ pr'.slotsUsed = b
  BY <1>4, <1>9 DEF TakesBlock
<1>14. Injected(blocks, blocks', n, m, ring) /\ OpensBlock(blocks, blocks', n, m, ring, n + 1)
  BY InjectIs
<1>15. Ring(blocks, b, m + 1, new)'
  <2>1. Ring(blocks', n + 1, m + 1, new)
    BY <1>1, <1>4, <1>5, <1>6, <1>14, AddRing
  <2> QED
    BY <1>4, <2>1
<1>16. Contents(blocks, b, m + 1, new)'
  <2>1. b <= n + 1 /\ b <= m + 1 /\ b \in Nat
    BY <1>1, <1>4
  <2>2. OpensBlock(blocks, blocks', n, m, ring, b)
    BY <1>4, <1>14
  <2> QED
    BY <1>1, <1>5, <1>6, <1>7, <1>13, <2>1, <2>2, ContentsOn
<1>17. Kept(b, m + 1)'
  <2>1. Fresh' = Fresh
    BY DEF Fresh
  <2> SUFFICES ASSUME NEW i \in Nat, Number(i) < Fresh, ~Flagged(i)' PROVE Number(i) \in Numbers(b, m + 1)
    BY <2>1 DEF Kept
  <2>2. ~Flagged(i)
    BY ProducerFrame
  <2>3. Number(i) \in Numbers(n, m)
    BY <1>6, <2>2 DEF Kept
  <2>4. PICK k \in Int : k = Number(i) /\ m - n <= k /\ k <= m - 1
    BY <1>1, <2>3 DEF Numbers
  <2>5. (m + 1) - b <= k /\ k <= (m + 1) - 1
    BY <1>1, <1>4, <2>4
  <2> QED
    BY <2>4, <2>5 DEF Numbers
<1>18. Producer(b, u, m + 1, new, next)'
  <2>1. pr'.tailBlock = new[(m + 1) - 1]
    BY <1>1, <1>5, <1>13 DEF Numbered
  <2>2. tailIndex' > 0 \/ pr'.call.pc \in {"construct", "store"} => tailIndex > 0
    BY <1>13
  <2>3. ASSUME tailIndex > 0 PROVE Filled(headers', u, headers'[u].front)
    <3>1. Filled(as, u, as[u].front)
      BY <1>2, <2>3
    <3> QED
      BY <1>3, <1>11, <3>1 DEF IndexKept
  <2>4. b # 0 /\ b > 0
    OBVIOUS
  <2> QED
    BY <1>9, <1>11, <1>13, <2>1, <2>2, <2>3, <2>4 DEF Producer, PrShape
<1>19. Enqueue(b, m + 1, new)'
  <2>1. \A k \in Numbers(n, m) : ring[k] # NoBlock
    BY <1>1, <1>6 DEF Ring, NoBlock
  <2>2. Fresh \in Numbers(b, m + 1)
    <3>1. CASE Fresh = m
      BY <1>1, <1>4, <3>1 DEF Numbers
    <3>2. CASE Fresh # m
      <4>1. PICK f \in Nat : f = Fresh /\ f < m /\ f \in Numbers(n, m)
        BY <1>1, <1>7, <3>2
      <4>2. m - n <= f
        BY <1>1, <4>1 DEF Numbers
      <4>3. f \in Numbers(n + 1, m + 1)
        BY <1>1, <4>1, <4>2 DEF Numbers
      <4> QED
        BY <1>4, <4>1, <4>3
    <3> QED
      BY <3>1, <3>2
  <2>3. b \in Nat /\ n <= b /\ p.call.pc \in {"reuse", "add"}
    BY <1>1, <1>4
  <2>4. /\ p.call.need = pr.call.need /\ p.call.cur = pr.call.cur
        /\ p.call.first = pr.call.first /\ p.call.n = pr.call.n /\ p.call.start = pr.call.start
        /\ p.call.origUsed = pr.call.origUsed
    BY DEF SameCall
  <2> QED
    BY <1>1, <1>5, <1>6, <1>9, <2>1, <2>2, <2>3, <2>4, TakesNumber
<1>20. m + 1 \in Nat /\ g \in Nat /\ Indices(headers, u, b, m + 1, new, next)'
  BY <1>1, <1>11
<1> QED
  BY <1>1, <1>2, <1>12, <1>15, <1>16, <1>17, <1>18, <1>19, <1>20, ProducerLeaves

\* There is no limit, or it is never reached.
Unlimited == CqItems + BLOCK_SIZE <= MAX_SUBQUEUE_SIZE

\* Then there is room for the next block of a call.
LEMMA NeverFull ==
  ASSUME NEW n, NEW g, NEW m, NEW ring, NEW shift, Found(n, g, m, ring, shift), CqNumbers, Unlimited,
         pr.call.pc \in {"reuse", "add"}
  PROVE  ~Full
<1>1. /\ pr.call.n \in Nat \ {0} /\ tailIndex + pr.call.n <= CqItems /\ pr.call.cur = Start(m - 1)
      /\ pr.call.need \in Nat /\ pr.call.need > 0 /\ m + pr.call.need = Number(tailIndex + pr.call.n - 1) + 1
      /\ m \in Nat
  BY FoundCall DEF Found, Enqueue
<1>2. PICK v \in Int : v = tailIndex + pr.call.n - 1 /\ v < CqItems
  BY <1>1, CqAssumption DEF CqNumbers
<1>3. PICK k \in Int, s \in Slots : k = Number(v) /\ s = v % BLOCK_SIZE /\ Index(k, s) = v
  BY NumberIndex
<1>4. m <= k
  BY <1>1, <1>2, <1>3
<1>5. 0 \in Slots /\ s >= 0 /\ s \in Int
  BY CqAssumption DEF Slots
<1>6. ~(Index(k, s) < Index(m, 0))
  BY <1>1, <1>4, <1>5, IndexOrder
<1>7. PICK x \in Int : x = Start(m) /\ x = Index(m, 0)
  BY <1>1, StartOf
<1>8. pr.call.cur + BLOCK_SIZE = x
  <2>1. m - 1 \in Int /\ (m - 1) + 1 = m
    BY <1>1
  <2> QED
    BY <1>1, <1>7, <2>1, StartOf
<1>9. x <= v
  BY <1>3, <1>6, <1>7
<1>10. /\ headIndex \in Nat /\ BLOCK_SIZE \in Nat /\ CqItems \in Nat /\ MAX_SUBQUEUE_SIZE \in Nat
       /\ CqItems + BLOCK_SIZE <= MAX_SUBQUEUE_SIZE
  BY CqAssumption DEF CqNumbers, Unlimited
<1>11. ~(x - headIndex > MAX_SUBQUEUE_SIZE - BLOCK_SIZE)
  <2>1. v < CqItems
    BY <1>2
  <2> QED
    BY <1>9, <1>10, <2>1
<1>12. PICK y \in Int : y = pr.call.cur
  <2>1. m - 1 \in Int
    BY <1>1
  <2> QED
    BY <1>1, <2>1, StartOf
<1>13. y + BLOCK_SIZE = x
  BY <1>8, <1>12
<1>14. ~(y + BLOCK_SIZE - headIndex > MAX_SUBQUEUE_SIZE - BLOCK_SIZE)
  BY <1>10, <1>11, <1>13
<1> QED
  BY <1>12, <1>14, Zenon DEF Full

\* A call for one item that gets no block has changed nothing yet.
LEMMA NothingToUndo ==
  ASSUME NEW n, NEW g, NEW m, NEW ring, NEW shift, Found(n, g, m, ring, shift), CqNumbers,
         pr.call.pc \in {"reuse", "add"}, pr.call.n = 1
  PROVE  /\ m = Fresh /\ pr.call.first = NoBlock /\ pr.call.origUsed = n
         /\ pr.call.origFront = pr.front /\ pr.call.start = pr.tailBlock
<1>1. /\ Fresh <= m /\ pr.call.need \in Nat /\ pr.call.need > 0
      /\ m + pr.call.need = Number(tailIndex + pr.call.n - 1) + 1 /\ m \in Nat
      /\ pr.call.first = (IF Fresh < m THEN ring[Fresh] ELSE NoBlock)
      /\ Fresh = m => pr.call.origUsed = n /\ pr.call.origFront = pr.front /\ pr.call.start = pr.tailBlock
  BY FoundCall DEF Found, Enqueue
<1>2. tailIndex \in Nat /\ Fresh \in Nat
      /\ (tailIndex % BLOCK_SIZE = 0 => Number(tailIndex) = Fresh)
      /\ (tailIndex % BLOCK_SIZE # 0 => Number(tailIndex) = Fresh - 1)
  BY FreshIs
<1>3. tailIndex + pr.call.n - 1 = tailIndex
  BY <1>2
<1>4. PICK k \in Int : k = Number(tailIndex) /\ k <= Fresh
  BY <1>2
<1>5. m + pr.call.need = k + 1
  BY <1>1, <1>3, <1>4
<1>6. m <= k
  BY <1>1, <1>4, <1>5
<1>7. m = Fresh
  BY <1>1, <1>2, <1>4, <1>6
<1> QED
  BY <1>1, <1>2, <1>7

\* An index that is full is replaced.
GrownIndex == Append(headers, NewBlockIndex(pr.call.origUsed))

\* The larger one is as it should be.
LEMMA NewIndexReady ==
  ASSUME NEW n, NEW g, NEW m, NEW ring, NEW shift, Found(n, g, m, ring, shift), CqNumbers,
         pr.call.pc \in {"reuse", "add"}, pr.slotsUsed = Header.size
  PROVE  \E next : /\ ReadyFor(GrownIndex, g + 1, n, g, m, ring, shift, next)
                   /\ At(GrownIndex, g + 1, next, m) = n
<1>1. /\ n \in Nat /\ g \in Nat \ {0} /\ m \in Nat /\ n <= m
      /\ ring \in [Nat -> Nat] /\ shift \in [Nat -> Int]
      /\ pr.front = At(headers, g, shift, m) /\ pr.slotsUsed = n
  BY FoundCall
<1>2. Indices(headers, g, n, m, ring, shift) /\ IsArray(headers, g)
  BY DEF Found, Indices
<1>3. Len(headers) = g /\ Header = headers[g]
  <2>1. Len(headers) = g
    BY <1>2, ArrayIs
  <2> QED
    BY <2>1 DEF Header
<1>4. IsFull(headers, g, n)
  BY <1>1, <1>3 DEF IsFull
<1>5. PICK exposed \in 0..n : exposed = pr.call.origUsed /\ (tailIndex > 0 => exposed > 0)
  BY DEF Found, Enqueue
<1>6. PICK nb : nb = NewBlockIndex(exposed)
  OBVIOUS
<1>7. IsLarger(nb, headers[g], n, At(headers, g, shift, m), exposed)
  BY <1>1, <1>3, <1>6 DEF IsLarger, NewBlockIndex
<1>8. PICK hs : hs = GrownIndex
  OBVIOUS
<1>9. Extended(hs, headers, g, nb)
  BY <1>2, <1>5, <1>6, <1>8, ArrayAppend DEF GrownIndex
<1>10. PICK d \in Int : d = n - m
  BY <1>1
<1>11. PICK next \in [Nat -> Int] : Shifted(next, shift, g, n - m)
  <2>1. [shift EXCEPT ![g + 1] = d] \in [Nat -> Int]
    BY <1>1
  <2>2. Shifted([shift EXCEPT ![g + 1] = d], shift, g, d)
    BY <1>1 DEF Shifted
  <2> QED
    BY <1>10, <2>1, <2>2
<1>12. \A k \in Numbers(n, m) : ring[k] # NoBlock
  BY <1>1 DEF Found, Ring, NoBlock
<1>13. g \in Nat
  BY <1>1
<1>14. /\ Indices(hs, g + 1, n, m, ring, next) /\ At(hs, g + 1, next, m) = n
       /\ exposed > 0 => Filled(hs, g + 1, hs[g + 1].front)
       /\ hs[g + 1].size = 2 * headers[g].size
       /\ IndexKept(headers, hs, g, shift, next)
       /\ \A h \in 1..g : hs[h] = headers[h]
       /\ \A h \in 1..g, k \in Nat : Shows(headers, h, ring, shift, k) => Shows(hs, h, ring, next, k)
  <2>1. Grown(headers, hs, g, n, m, ring, shift, next, exposed)
    BY <1>1, <1>2, <1>4, <1>7, <1>9, <1>11, <1>12, <1>13, GrowIndex
  <2> QED
    BY <2>1 DEF Grown
<1>15. n < hs[g + 1].size
  <2>1. g \in 1..g
    BY <1>1
  <2>2. headers[g].size = n /\ n \in Nat \ {0, 1}
    BY <1>2, <1>4, <2>1 DEF Indices, IndexOK, IsFull
  <2>3. hs[g + 1].size = 2 * n
    BY <1>14, <2>2
  <2>4. n < 2 * n
    BY <2>2
  <2> QED
    BY <2>3, <2>4
<1>16. g + 1 \in Nat /\ g <= g + 1
  BY <1>1
<1>17. ReadyFor(hs, g + 1, n, g, m, ring, shift, next)
  BY <1>5, <1>11, <1>14, <1>15, <1>16 DEF ReadyFor
<1> QED
  BY <1>8, <1>14, <1>17

\* What AddBlock does when the limit is not reached.
AddFails(p) ==
  pr.call.n = 1 /\ Undo(p) /\ UNCHANGED blocks
AddWorks(p, hs) ==
  blocks' = Inject(Len(blocks) + 1) /\ PutEntry([p EXCEPT !.slotsUsed = @ + 1, !.call.pc = "add"], hs, Len(blocks) + 1)
GrownPr == [pr EXCEPT !.front = pr.slotsUsed, !.call.origFront = pr.call.origUsed]

\* The outcomes of AddBlock.
LEMMA AddBlockIs ==
  ASSUME AddBlock, ~Full, ~BulkMayFail
  PROVE  /\ pr.call.pc \in {"reuse", "add"} /\ UNCHANGED <<tailIndex, headIndex, deq>>
         /\ \/ AddFails(pr) /\ UNCHANGED headers
            \/ pr.slotsUsed = Header.size /\ AddFails(GrownPr) /\ headers' = GrownIndex
            \/ pr.slotsUsed # Header.size /\ AddWorks(pr, headers)
            \/ pr.slotsUsed = Header.size /\ AddWorks(GrownPr, GrownIndex)
<1>1. pr.call.pc \in {"reuse", "add"} /\ UNCHANGED <<tailIndex, headIndex, deq>>
  BY DEF AddBlock, SharedByConsumers, pc
<1>2. Allocation = IF pr.call.n = 1 THEN BOOLEAN ELSE {TRUE}
  BY DEF Allocation
<1>3. CASE pr.slotsUsed = Header.size
  <2>1. PICK indexOk \in Allocation, blockOk \in Allocation :
          \/ ~indexOk /\ Undo(pr) /\ UNCHANGED <<headers, blocks>>
          \/ ~blockOk /\ Undo(GrownPr) /\ headers' = GrownIndex /\ UNCHANGED blocks
          \/ AddWorks(GrownPr, GrownIndex)
    BY <1>3 DEF AddBlock, AddWorks, GrownPr, GrownIndex
  <2>2. ~indexOk \/ ~blockOk => pr.call.n = 1
    BY <1>2
  <2> QED
    BY <1>1, <1>3, <2>1, <2>2 DEF AddFails
<1>4. CASE pr.slotsUsed # Header.size
  <2>1. PICK blockOk \in Allocation :
          \/ ~blockOk /\ Undo(pr) /\ UNCHANGED <<headers, blocks>>
          \/ AddWorks(pr, headers)
    BY <1>4 DEF AddBlock, AddWorks
  <2>2. ~blockOk => pr.call.n = 1
    BY <1>2
  <2> QED
    BY <1>1, <1>4, <2>1, <2>2 DEF AddFails
<1> QED
  BY <1>3, <1>4

\* What is undone.
LEMMA UndoIs ==
  ASSUME NEW STATE p, DOMAIN p = PrShape, Undo(p)
  PROVE  /\ DOMAIN pr' = PrShape /\ pr'.call = PrIdle /\ pr'.front = p.call.origFront
         /\ pr'.slotsUsed = p.call.origUsed
         /\ pr'.tailBlock = IF p.call.start = NoBlock THEN p.call.first ELSE p.call.start
         /\ DOMAIN pr'.call = CallShape /\ pr'.call.pc = "idle"
<1>1. /\ DOMAIN pr' = PrShape /\ pr'.call = PrIdle /\ pr'.front = p.call.origFront
      /\ pr'.slotsUsed = p.call.origUsed
      /\ pr'.tailBlock = IF p.call.start = NoBlock THEN p.call.first ELSE p.call.start
  BY DEF Undo, PrShape
<1>2. DOMAIN PrIdle = CallShape /\ PrIdle.pc = "idle"
  BY DEF PrIdle, CallShape
<1> QED
  BY <1>1, <1>2

\* The call with a larger index.
LEMMA GrownPrIs ==
  ASSUME DOMAIN pr = PrShape, DOMAIN pr.call = CallShape
  PROVE  /\ SameCall(GrownPr) /\ GrownPr.front = pr.slotsUsed /\ GrownPr.slotsUsed = pr.slotsUsed
         /\ GrownPr.call.origFront = pr.call.origUsed
<1>1. /\ DOMAIN GrownPr = PrShape /\ GrownPr.front = pr.slotsUsed /\ GrownPr.slotsUsed = pr.slotsUsed
      /\ GrownPr.call = [pr.call EXCEPT !.origFront = pr.call.origUsed]
  BY DEF GrownPr, PrShape
<1>2. PICK x : x = GrownPr.call
  OBVIOUS
<1>3. /\ DOMAIN x = CallShape /\ x.origFront = pr.call.origUsed
      /\ x.need = pr.call.need /\ x.cur = pr.call.cur /\ x.first = pr.call.first /\ x.n = pr.call.n
      /\ x.start = pr.call.start /\ x.origUsed = pr.call.origUsed
  BY <1>1, <1>2 DEF CallShape
<1> QED
  BY <1>1, <1>2, <1>3 DEF SameCall

\* ... and with one more block.
LEMMA AddedPrIs ==
  ASSUME NEW STATE p, SameCall(p), NEW STATE q, q = [p EXCEPT !.slotsUsed = @ + 1, !.call.pc = "add"]
  PROVE  SameCall(q) /\ q.call.pc = "add" /\ q.front = p.front /\ q.slotsUsed = p.slotsUsed + 1
<1>1. /\ DOMAIN p = PrShape /\ DOMAIN p.call = CallShape
      /\ p.call.need = pr.call.need /\ p.call.cur = pr.call.cur
      /\ p.call.first = pr.call.first /\ p.call.n = pr.call.n /\ p.call.start = pr.call.start
      /\ p.call.origUsed = pr.call.origUsed
  BY DEF SameCall
<1>2. /\ DOMAIN q = PrShape /\ q.front = p.front /\ q.slotsUsed = p.slotsUsed + 1
      /\ q.call = [p.call EXCEPT !.pc = "add"]
  BY <1>1 DEF PrShape
<1>3. PICK x : x = q.call
  OBVIOUS
<1>4. /\ DOMAIN x = CallShape /\ x.pc = "add"
      /\ x.need = p.call.need /\ x.cur = p.call.cur /\ x.first = p.call.first /\ x.n = p.call.n
      /\ x.start = p.call.start /\ x.origUsed = p.call.origUsed
  BY <1>1, <1>2, <1>3 DEF CallShape
<1> QED
  BY <1>1, <1>2, <1>3, <1>4 DEF SameCall

\* No block could be added to the index that there is.
LEMMA AddFailsFinds ==
  ASSUME NEW n, NEW g, NEW m, NEW ring, NEW shift, Found(n, g, m, ring, shift), CqNumbers,
         pr.call.pc \in {"reuse", "add"}, UNCHANGED <<tailIndex, headIndex, deq>>,
         NEW STATE p, SameCall(p), p.call.origFront = p.front, AddFails(p),
         NEW u \in Nat, g <= u, NEW next \in [Nat -> Int], p.front = At(headers', u, next, m),
         Indices(headers', u, n, m, ring, next), tailIndex > 0 => Filled(headers', u, headers'[u].front),
         \A c \in CqConsumers : ServesCall(headers, headers', g, c, ring, ring, shift, next)
  PROVE  FindInv'
<1>1. /\ n \in Nat /\ g \in Nat /\ m \in Nat /\ n <= m
      /\ ring \in [Nat -> Nat] /\ shift \in [Nat -> Int]
      /\ pr.tailBlock = IF n = 0 THEN NoBlock ELSE ring[m - 1]
  BY FoundCall
<1>2. pr.call.n = 1 /\ Undo(p) /\ blocks' = blocks
  BY DEF AddFails
<1>3. /\ m = Fresh /\ pr.call.first = NoBlock /\ pr.call.origUsed = n /\ pr.call.start = pr.tailBlock
  BY <1>2, NothingToUndo
<1>4. /\ DOMAIN pr' = PrShape /\ pr'.front = p.call.origFront /\ pr'.slotsUsed = p.call.origUsed
      /\ pr'.tailBlock = (IF p.call.start = NoBlock THEN p.call.first ELSE p.call.start)
      /\ DOMAIN pr'.call = CallShape /\ pr'.call.pc = "idle"
  BY <1>2, UndoIs DEF SameCall
<1>5. pr'.slotsUsed = n /\ pr'.tailBlock = pr.tailBlock
  BY <1>3, <1>4 DEF SameCall
<1>6. Fresh' = Fresh /\ Stored' = Stored /\ Opened(m)' = Opened(m)
  BY <1>3, <1>4 DEF Fresh, Stored, Opened
<1>7. Ring(blocks, n, m, ring) /\ Contents(blocks, n, m, ring) /\ Kept(n, m) /\ Producer(n, g, m, ring, shift)
  BY DEF Found
<1>8. Ring(blocks, n, m, ring)'
  BY <1>2, <1>7
<1>9. \A i : (Gone(i)' <=> Gone(i)) /\ (Flagged(i)' <=> Flagged(i))
  BY ProducerFrame
<1>10. Contents(blocks, n, m, ring)'
  BY <1>1, <1>2, <1>6, <1>7, <1>9, SameContents
<1>11. Kept(n, m)'
  BY <1>6, <1>7, <1>9 DEF Kept
<1>12. Producer(n, u, m, ring, next)'
  <2>1. tailIndex > 0 => n > 0
    BY <1>7 DEF Producer
  <2> QED
    BY <1>1, <1>4, <1>5, <2>1 DEF Producer, PrShape
<1>13. Enqueue(n, m, ring)'
  BY <1>3, <1>4, <1>6 DEF Enqueue, PrPcs
<1>14. Indices(headers, u, n, m, ring, next)'
  OBVIOUS
<1> QED
  BY <1>1, <1>8, <1>10, <1>11, <1>12, <1>13, <1>14, ProducerLeaves

\* No block can be used again.
LEMMA AddBlockFinds ==
  ASSUME FindInv, CountInv, HeadWithinTail, AddBlock, ~BulkMayFail, Unlimited
  PROVE  FindInv'
<1>1. PICK n, g, m, ring, shift : Found(n, g, m, ring, shift)
  BY DEF FindInv
<1>2. CqNumbers /\ pr.call.pc \in {"reuse", "add"}
  BY DEF CountInv, CqKinds, AddBlock, pc
<1>3. ~Full
  BY <1>1, <1>2, NeverFull
<1>4. /\ UNCHANGED <<tailIndex, headIndex, deq>>
      /\ \/ AddFails(pr) /\ UNCHANGED headers
         \/ pr.slotsUsed = Header.size /\ AddFails(GrownPr) /\ headers' = GrownIndex
         \/ pr.slotsUsed # Header.size /\ AddWorks(pr, headers)
         \/ pr.slotsUsed = Header.size /\ AddWorks(GrownPr, GrownIndex)
  BY <1>3, AddBlockIs
<1>5. /\ n \in Nat /\ g \in Nat /\ g > 0 /\ m \in Nat /\ n <= m /\ g <= g
      /\ ring \in [Nat -> Nat] /\ shift \in [Nat -> Int]
      /\ DOMAIN pr = PrShape /\ DOMAIN pr.call = CallShape
      /\ pr.front = At(headers, g, shift, m) /\ pr.slotsUsed = n
  BY <1>1, FoundCall
<1>6. Indices(headers, g, n, m, ring, shift) /\ IsArray(headers, g) /\ IsArray(blocks, n)
      /\ (tailIndex > 0 => Filled(headers, g, headers[g].front))
  BY <1>1 DEF Found, Indices, Producer, Ring
<1>7. Len(headers) = g /\ Header = headers[g] /\ Len(blocks) = n
  <2>1. Len(headers) = g /\ Len(blocks) = n
    BY <1>6, ArrayIs
  <2> QED
    BY <2>1 DEF Header
<1>8. SameCall(pr)
  BY <1>5 DEF SameCall
<1>9. /\ SameCall(GrownPr) /\ GrownPr.front = n /\ GrownPr.slotsUsed = n
      /\ GrownPr.call.origFront = pr.call.origUsed
  BY <1>5, GrownPrIs
<1>10. CASE AddFails(pr) /\ UNCHANGED headers
  <2>1. pr.call.origFront = pr.front
    BY <1>1, <1>2, <1>10, NothingToUndo DEF AddFails
  <2>2. \A c \in CqConsumers : ServesCall(headers, headers', g, c, ring, ring, shift, shift)
    BY <1>10, SameServes
  <2>3. /\ pr.front = At(headers', g, shift, m) /\ Indices(headers', g, n, m, ring, shift)
        /\ tailIndex > 0 => Filled(headers', g, headers'[g].front)
    BY <1>5, <1>6, <1>10
  <2> QED
    BY <1>1, <1>2, <1>4, <1>5, <1>8, <1>10, <2>1, <2>2, <2>3, AddFailsFinds
<1>11. CASE pr.slotsUsed = Header.size
  <2>1. PICK next : /\ ReadyFor(GrownIndex, g + 1, n, g, m, ring, shift, next)
                    /\ At(GrownIndex, g + 1, next, m) = n
    BY <1>1, <1>2, <1>11, NewIndexReady
  <2>2. CASE AddFails(GrownPr) /\ headers' = GrownIndex
    <3>1. GrownPr.call.origFront = n
      BY <1>1, <1>2, <1>9, <2>2, NothingToUndo DEF AddFails
    <3>2. /\ g + 1 \in Nat /\ g <= g + 1 /\ next \in [Nat -> Int]
          /\ Indices(headers', g + 1, n, m, ring, next)
          /\ IndexKept(headers, headers', g, shift, next)
          /\ \A h \in 1..g : headers'[h].front = headers[h].front
          /\ \A h \in 1..g, k \in Nat : Shows(headers, h, ring, shift, k) => Shows(headers', h, ring, next, k)
          /\ tailIndex > 0 => Filled(headers', g + 1, headers'[g + 1].front)
      BY <2>1, <2>2 DEF ReadyFor
    <3>3. ASSUME NEW c \in CqConsumers PROVE ServesCall(headers, headers', g, c, ring, ring, shift, next)
      <4>1. \A i \in Owns(c) : Number(i) \in Nat
        BY <1>1, <1>2, OwnedKept
      <4> QED
        BY <3>2, <4>1 DEF ServesCall, IndexKept
    <3>4. GrownPr.front = At(headers', g + 1, next, m) /\ GrownPr.call.origFront = GrownPr.front
      BY <1>9, <2>1, <2>2, <3>1
    <3> QED
      BY <1>1, <1>2, <1>4, <1>9, <2>2, <3>2, <3>3, <3>4, AddFailsFinds
  <2>3. CASE AddWorks(GrownPr, GrownIndex)
    <3> DEFINE q == [GrownPr EXCEPT !.slotsUsed = @ + 1, !.call.pc = "add"]
    <3>1. SameCall(q) /\ q.call.pc = "add" /\ q.front = GrownPr.front /\ q.slotsUsed = GrownPr.slotsUsed + 1
      BY <1>9, AddedPrIs
    <3>2. blocks' = Inject(n + 1) /\ PutEntry(q, GrownIndex, n + 1)
      BY <1>7, <2>3 DEF AddWorks
    <3> HIDE DEF q
    <3>3. q.front = At(GrownIndex, g + 1, next, m) /\ q.slotsUsed = n + 1
      BY <1>9, <2>1, <3>1
    <3> QED
      BY <1>1, <1>2, <1>4, <2>1, <3>1, <3>2, <3>3, AddFinds
  <2> QED
    BY <1>4, <1>10, <1>11, <2>2, <2>3
<1>12. CASE pr.slotsUsed # Header.size /\ AddWorks(pr, headers)
  <2> DEFINE q == [pr EXCEPT !.slotsUsed = @ + 1, !.call.pc = "add"]
  <2>1. SameCall(q) /\ q.call.pc = "add" /\ q.front = pr.front /\ q.slotsUsed = pr.slotsUsed + 1
    BY <1>8, AddedPrIs
  <2>2. blocks' = Inject(n + 1) /\ PutEntry(q, headers, n + 1)
    BY <1>7, <1>12 DEF AddWorks
  <2> HIDE DEF q
  <2>3. q.front = At(headers, g, shift, m) /\ q.slotsUsed = n + 1
    BY <1>5, <2>1
  <2>4. n < headers[g].size
    <3>1. g \in 1..g
      BY <1>5
    <3>2. PICK z \in Nat : z = headers[g].size
      BY <1>6, <3>1 DEF Indices, IndexOK
    <3>3. n <= z
      BY <1>6, <3>2 DEF Indices
    <3>4. n # z
      BY <1>5, <1>7, <1>12, <3>2
    <3>5. n < z
      BY <1>5, <3>3, <3>4
    <3> QED
      BY <3>2, <3>5
  <2>5. ReadyFor(headers, g, n, g, m, ring, shift, shift)
    BY <1>5, <1>6, <2>4 DEF ReadyFor, IndexKept
  <2> QED
    BY <1>1, <1>2, <1>4, <2>1, <2>2, <2>3, <2>5, AddFinds
<1> QED
  BY <1>4, <1>10, <1>11, <1>12

\* f lists the blocks that are met from b on.
Follows(f, b) == f = [k \in Nat |-> IF k = 0 THEN b ELSE blocks[f[k - 1]].next]

\* NthBlock does, if anything does.
LEMMA NthFollows ==
  ASSUME NEW b, NEW f, Follows(f, b)
  PROVE  Follows(NthBlock(b), b)
<1>1. NthBlock(b) = CHOOSE g : Follows(g, b)
  BY DEF NthBlock, Follows
<1> QED
  BY <1>1

\* From one block on, one meets the blocks with the next numbers.
LEMMA NthIs ==
  ASSUME NEW n \in Nat, NEW m \in Nat, NEW ring, Ring(blocks, n, m, ring), NEW a \in Numbers(n, m)
  PROVE  \A j \in Nat : a + j < m => NthBlock(ring[a])[j] = ring[a + j]
<1>1. /\ n <= m
      /\ \A k \in Numbers(n, m) : blocks[ring[k]].next = IF k = m - 1 THEN ring[m - n] ELSE ring[k + 1]
  BY DEF Ring
<1>2. a \in Nat /\ m - n <= a /\ a <= m - 1 /\ n \in Nat \ {0}
  BY <1>1 DEF Numbers
<1>3. PICK o \in Nat, d \in Nat : o = m - n /\ d = a - o
  BY <1>1, <1>2
<1>4. d \in 0..(n - 1) /\ a = o + d /\ m = o + n
  BY <1>2, <1>3
<1> DEFINE At2(k) == (d + k) % n
           f == [k \in Nat |-> ring[o + At2(k)]]
<1>5. ASSUME NEW k \in Nat PROVE At2(k) \in 0..(n - 1)
  <2>1. PICK x \in Int : x = d + k
    OBVIOUS
  <2> QED
    BY <1>2, <2>1, DivMod
<1>6. At2(0) = d
  BY <1>2, <1>4, RingLow
<1>7. ASSUME NEW k \in Nat PROVE blocks[ring[o + At2(k)]].next = ring[o + At2(k + 1)]
  <2>1. PICK p \in 0..(n - 1) : p = At2(k)
    BY <1>5
  <2>2. (p + 1) % n = At2(k + 1)
    <3>1. PICK x \in Int, u \in Int : x = d + k /\ u = 1
      OBVIOUS
    <3>2. ((x % n) + u) % n = (x + u) % n
      BY <1>2, RingAdd
    <3>3. x + u = d + (k + 1)
      BY <3>1
    <3> QED
      BY <2>1, <3>1, <3>2, <3>3
  <2> HIDE DEF At2
  <2>3. o + p \in Numbers(n, m)
    BY <1>1, <1>3, <1>4 DEF Numbers
  <2>4. blocks[ring[o + p]].next = IF o + p = m - 1 THEN ring[o] ELSE ring[(o + p) + 1]
    BY <1>1, <1>3, <2>3
  <2>5. CASE p = n - 1
    <3>1. o + p = m - 1 /\ p + 1 = n
      BY <1>4, <2>5
    <3>2. n % n = 0
      <4>1. PICK q \in Int, r \in 0..(n - 1), i \in Int : q = 1 /\ r = 0 /\ i = n
        BY <1>2
      <4>2. i = n * q + r
        BY <4>1
      <4> QED
        BY <1>2, <4>1, <4>2, DivModOf
    <3>3. At2(k + 1) = 0
      BY <2>2, <3>1, <3>2
    <3> QED
      BY <1>3, <2>1, <2>4, <3>1, <3>3
  <2>6. CASE p # n - 1
    <3>1. o + p # m - 1 /\ p + 1 \in 0..(n - 1)
      BY <1>2, <1>4, <2>6
    <3>2. At2(k + 1) = p + 1
      BY <1>2, <2>2, <3>1, RingLow
    <3>3. o + (p + 1) = (o + p) + 1
      BY <1>2
    <3> QED
      BY <2>1, <2>4, <3>1, <3>2, <3>3
  <2> QED
    BY <2>5, <2>6
<1> HIDE DEF At2
<1>8. Follows(f, ring[a])
  <2>1. f[0] = ring[a]
    BY <1>4, <1>6
  <2>2. ASSUME NEW k \in Nat, k # 0 PROVE f[k] = blocks[f[k - 1]].next
    <3>1. PICK j \in Nat : j = k - 1
      BY <2>2
    <3>2. j + 1 = k
      BY <3>1
    <3>3. f[j] = ring[o + At2(j)] /\ f[k] = ring[o + At2(k)]
      OBVIOUS
    <3> QED
      BY <1>7, <3>1, <3>2, <3>3
  <2>3. DOMAIN f = Nat /\ f = [k \in Nat |-> f[k]]
    OBVIOUS
  <2> HIDE DEF f
  <2>4. \A k \in Nat : f[k] = IF k = 0 THEN ring[a] ELSE blocks[f[k - 1]].next
    BY <2>1, <2>2
  <2> QED
    BY <2>3, <2>4 DEF Follows
<1> HIDE DEF f
<1>9. Follows(NthBlock(ring[a]), ring[a])
  BY <1>8, NthFollows
<1>10. PICK nth : nth = NthBlock(ring[a])
  OBVIOUS
<1>11. nth[0] = ring[a] /\ \A k \in Nat : k # 0 => nth[k] = blocks[nth[k - 1]].next
  BY <1>9, <1>10 DEF Follows
<1> DEFINE Bad == {j \in Nat : a + j < m /\ nth[j] # ring[a + j]}
<1>12. ASSUME Bad # {} PROVE FALSE
  <2>1. PICK j \in Bad : \A i \in Bad : j <= i
    <3>1. Bad \subseteq Nat
      OBVIOUS
    <3> QED
      BY <1>12, <3>1, Least
  <2>2. j \in Nat /\ a + j < m /\ nth[j] # ring[a + j]
    OBVIOUS
  <2>3. j # 0
    <3>1. a + 0 = a
      BY <1>2
    <3> QED
      BY <1>11, <2>2, <3>1
  <2>4. PICK i \in Nat : i = j - 1
    BY <2>2, <2>3
  <2>5. i \notin Bad /\ a + i < m /\ i + 1 = j
    <3>1. ~(j <= i)
      BY <2>2, <2>4
    <3> QED
      BY <1>2, <2>1, <2>2, <2>4, <3>1
  <2>6. nth[i] = ring[a + i]
    BY <2>5
  <2>7. a + i \in Numbers(n, m) /\ a + i # m - 1 /\ (a + i) + 1 = a + j
    BY <1>2, <2>2, <2>5 DEF Numbers
  <2>8. blocks[ring[a + i]].next = ring[a + j]
    BY <1>1, <2>7
  <2> QED
    BY <1>11, <2>2, <2>3, <2>4, <2>6, <2>8
<1> QED
  BY <1>10, <1>12

\* The blocks that are met from block b on until block e.
StepsTo(nth, e) == CHOOSE k \in 0..Len(blocks) : nth[k] = e /\ \A j \in 0..(k - 1) : nth[j] # e
UpTo(b, e) == {NthBlock(b)[k] : k \in 0..StepsTo(NthBlock(b), e)}

\* The last block is reached from block number a after the blocks with the numbers between.
LEMMA OpenedAre ==
  ASSUME NEW n \in Nat, NEW m \in Nat, NEW ring, Ring(blocks, n, m, ring), NEW a \in Numbers(n, m)
  PROVE  \A b : b \in UpTo(ring[a], ring[m - 1]) <=> \E j \in a..(m - 1) : b = ring[j]
<1>a. PICK nth : nth = NthBlock(ring[a])
  OBVIOUS
<1>b. PICK len : len = StepsTo(nth, ring[m - 1])
  OBVIOUS
<1>1. /\ IsArray(blocks, n) /\ n <= m /\ Len(blocks) = n
      /\ \A j, k \in Numbers(n, m) : ring[j] = ring[k] => j = k
  BY ArrayIs DEF Ring
<1>2. a \in Nat /\ m - n <= a /\ a <= m - 1
  BY <1>1 DEF Numbers
<1>3. PICK d \in Nat : d = m - 1 - a
  BY <1>2
<1>4. d \in 0..n /\ a + d = m - 1
  BY <1>2, <1>3
<1>5. \A j \in 0..d : nth[j] = ring[a + j]
  <2>1. \A j \in Nat : a + j < m => nth[j] = ring[a + j]
    BY <1>a, NthIs
  <2>2. \A j \in 0..d : j \in Nat /\ a + j < m
    BY <1>2, <1>4
  <2> QED
    BY <2>1, <2>2
<1> DEFINE P(k) == nth[k] = ring[m - 1] /\ \A j \in 0..(k - 1) : nth[j] # ring[m - 1]
<1>6. \A j \in 0..(d - 1) : nth[j] # ring[m - 1]
  <2> SUFFICES ASSUME NEW j \in 0..(d - 1) PROVE nth[j] # ring[m - 1]
    OBVIOUS
  <2>1. a + j \in Numbers(n, m) /\ m - 1 \in Numbers(n, m) /\ a + j # m - 1 /\ j \in 0..d
    BY <1>1, <1>2, <1>4 DEF Numbers
  <2> QED
    BY <1>1, <1>5, <2>1
<1>7. P(d)
  BY <1>4, <1>5, <1>6
<1>8. ASSUME NEW k \in 0..n, P(k) PROVE k = d
  <2>1. ~(k < d)
    <3>1. ASSUME k < d PROVE FALSE
      <4>1. k \in 0..(d - 1)
        BY <3>1
      <4> QED
        BY <1>6, <1>8, <4>1
    <3> QED
      BY <3>1
  <2>2. ~(d < k)
    <3>1. ASSUME d < k PROVE FALSE
      <4>1. d \in 0..(k - 1)
        BY <3>1
      <4> QED
        BY <1>7, <1>8, <4>1
    <3> QED
      BY <3>1
  <2> QED
    BY <2>1, <2>2
<1>9. len = CHOOSE k \in 0..n : P(k)
  BY <1>1, <1>b DEF StepsTo
<1> HIDE DEF P
<1>10. len = d
  BY <1>4, <1>7, <1>8, <1>9
<1> SUFFICES ASSUME NEW b PROVE b \in {nth[k] : k \in 0..d} <=> \E j \in a..(m - 1) : b = ring[j]
  BY <1>10, <1>a, <1>b DEF UpTo
<1>11. ASSUME NEW k \in 0..d, b = nth[k] PROVE \E j \in a..(m - 1) : b = ring[j]
  <2>1. a + k \in a..(m - 1)
    BY <1>2, <1>4
  <2> QED
    BY <1>5, <1>11, <2>1
<1>12. ASSUME NEW j \in a..(m - 1), b = ring[j] PROVE b \in {nth[k] : k \in 0..d}
  <2>1. PICK k \in 0..d : k = j - a
    BY <1>2, <1>3
  <2>2. a + k = j
    BY <1>2, <2>1
  <2> QED
    BY <1>5, <1>12, <2>1, <2>2
<1> QED
  BY <1>11, <1>12

\* Block index g gets another front.
SetFront(as, g, p) == [as EXCEPT ![g].front = p]
FrontSet(as, hs, g, n, m, ring, shift, p) ==
  /\ Indices(as, g, n, m, ring, shift) /\ Filled(as, g, p) /\ hs = SetFront(as, g, p)
FrontThere(as, hs, g, n, m, ring, shift, p) ==
  /\ Indices(hs, g, n, m, ring, shift) /\ IndexKept(as, hs, g, shift, shift)
  /\ hs[g].front = p /\ Filled(hs, g, p) /\ hs[g].size = as[g].size
  /\ \A h \in 1..g : h # g => hs[h] = as[h]
  /\ \A h \in 1..g : \A k : Shows(as, h, ring, shift, k) => Shows(hs, h, ring, shift, k)

\* Nothing else changes in it.
LEMMA FrontIndex ==
  ASSUME NEW n, NEW g, NEW m, NEW ring, NEW shift, NEW as, NEW hs, NEW p,
         FrontSet(as, hs, g, n, m, ring, shift, p)
  PROVE  FrontThere(as, hs, g, n, m, ring, shift, p)
<1>1. /\ IsArray(as, g) /\ g \in Nat /\ g > 0 /\ n <= as[g].size
      /\ \A h \in 1..g : IndexOK(as, h, shift)
      /\ \A k \in Numbers(n, m) : Shows(as, g, ring, shift, k)
  BY DEF FrontSet, Indices, IsArray
<1>2. g \in 1..g
  BY <1>1
<1>3. DOMAIN as = 1..g
  BY <1>1, ArrayIs
<1>4. hs = [as EXCEPT ![g].front = p] /\ Filled(as, g, p)
  BY DEF FrontSet, SetFront
<1>5. DOMAIN as[g] = {"size", "front", "entries"}
  BY <1>1, <1>2 DEF IndexOK
<1>6. DOMAIN hs = 1..g /\ \A h \in 1..g : h # g => hs[h] = as[h]
  BY <1>3, <1>4
<1>7. /\ DOMAIN hs[g] = {"size", "front", "entries"} /\ hs[g].front = p
      /\ hs[g].size = as[g].size /\ hs[g].entries = as[g].entries
  BY <1>2, <1>3, <1>4, <1>5
<1>8. IsArray(hs, g)
  <2>1. hs = [h \in 1..g |-> hs[h]]
    BY <1>4, <1>6
  <2> QED
    BY <1>1, <2>1 DEF IsArray
<1>9. \A h \in 1..g : hs[h].size = as[h].size /\ hs[h].entries = as[h].entries
  BY <1>6, <1>7
<1>10. \A h \in 1..g : \A q : Filled(hs, h, q) <=> Filled(as, h, q)
  BY <1>9 DEF Filled
<1>11. \A h \in 1..g : \A k : At(hs, h, shift, k) = At(as, h, shift, k)
  BY <1>9 DEF At
<1>12. \A h \in 1..g : \A k : Shows(hs, h, ring, shift, k) <=> Shows(as, h, ring, shift, k)
  BY <1>9, <1>11 DEF Shows
<1>13. p \in -1..(as[g].size - 1)
  <2>1. p \in 0..(as[g].size - 1) /\ as[g].size \in Nat
    BY <1>1, <1>2, <1>4 DEF Filled, IndexOK
  <2>2. PICK z \in Nat : z = as[g].size
    BY <2>1
  <2>3. p \in 0..(z - 1)
    BY <2>1, <2>2
  <2>4. p \in -1..(z - 1)
    BY <2>3
  <2> QED
    BY <2>2, <2>4
<1>14. \A h \in 1..g : IndexOK(hs, h, shift)
  <2> SUFFICES ASSUME NEW h \in 1..g PROVE IndexOK(hs, h, shift)
    OBVIOUS
  <2>1. CASE h # g
    BY <1>1, <1>6, <2>1, SameIndex
  <2>2. CASE h = g
    <3>1. IndexOK(as, g, shift)
      BY <1>1, <1>2
    <3>2. /\ \A q : Filled(hs, g, q) <=> Filled(as, g, q)
          /\ \A k : At(hs, g, shift, k) = At(as, g, shift, k)
      BY <1>2, <1>10, <1>11
    <3> QED
      BY <1>7, <1>13, <2>2, <3>1, <3>2 DEF IndexOK
  <2> QED
    BY <2>1, <2>2
<1>15. Indices(hs, g, n, m, ring, shift)
  BY <1>1, <1>2, <1>7, <1>8, <1>12, <1>14 DEF Indices
<1>16. IndexKept(as, hs, g, shift, shift)
  BY <1>9, <1>10 DEF IndexKept
<1> QED
  BY <1>2, <1>4, <1>6, <1>7, <1>10, <1>12, <1>15, <1>16 DEF FrontThere

\* Blocks as are blocks bs with the flags of those in S reset.
WasReset(bs, as, n, S) ==
  /\ IsArray(as, n)
  /\ \A b \in 1..n : /\ as[b].next = bs[b].next /\ as[b].item = bs[b].item /\ IsBlock(as[b])
                     /\ \A s \in Slots : as[b].empty[s] = IF b \in S THEN FALSE ELSE bs[b].empty[s]

\* ResetEmpty does that.
LEMMA ResetIs ==
  ASSUME NEW n, NEW bs, IsArray(bs, n), NEW S, NEW as, as = ResetEmpty(bs, S),
         \A b \in 1..n : IsBlock(bs[b])
  PROVE  WasReset(bs, as, n, S)
<1>1. DOMAIN bs = 1..n /\ n \in Nat
  BY ArrayIs
<1>2. as = [b \in 1..n |-> IF b \in S THEN [bs[b] EXCEPT !.empty = [i \in Slots |-> FALSE]] ELSE bs[b]]
  BY <1>1 DEF ResetEmpty
<1>3. IsArray(as, n)
  BY <1>1, <1>2 DEF IsArray
<1>4. ASSUME NEW b \in 1..n
      PROVE  /\ as[b].next = bs[b].next /\ as[b].item = bs[b].item /\ IsBlock(as[b])
             /\ \A s \in Slots : as[b].empty[s] = IF b \in S THEN FALSE ELSE bs[b].empty[s]
  <2>1. CASE b \notin S
    <3>1. as[b] = bs[b]
      BY <1>2, <2>1
    <3> QED
      BY <2>1, <3>1
  <2>2. CASE b \in S
    <3>1. PICK e : e = [i \in Slots |-> FALSE]
      OBVIOUS
    <3>2. as[b] = [bs[b] EXCEPT !.empty = e]
      BY <1>2, <2>2, <3>1
    <3>3. DOMAIN bs[b] = {"next", "item", "empty"} /\ bs[b].item \in [Slots -> Int]
      BY DEF IsBlock
    <3>4. /\ DOMAIN as[b] = {"next", "item", "empty"} /\ as[b].next = bs[b].next
          /\ as[b].item = bs[b].item /\ as[b].empty = e
      BY <3>2, <3>3
    <3>5. e \in [Slots -> BOOLEAN] /\ \A s \in Slots : e[s] = FALSE
      BY <3>1
    <3> QED
      BY <2>2, <3>3, <3>4, <3>5 DEF IsBlock
  <2> QED
    BY <2>1, <2>2
<1> QED
  BY <1>3, <1>4 DEF WasReset

\* Every block has what Contents says of one with its number.
LEMMA AllBlocks ==
  ASSUME NEW bs, NEW n \in Nat, NEW m \in Nat, NEW ring, Ring(bs, n, m, ring), Contents(bs, n, m, ring)
  PROVE  \A b \in 1..n : IsBlock(bs[b])
  BY DEF Ring, Contents

\* Nothing with a number that is not in use yet is flagged.
LEMMA FreshUnflagged ==
  ASSUME CqNumbers, HeadWithinTail, NEW k \in Nat, k >= Fresh, NEW s \in Slots
  PROVE  ~Flagged(Index(k, s))
<1>1. Index(k, s) \in Int /\ Number(Index(k, s)) = k
  BY IndexNumber
<1>2. PICK i \in Int : i = Index(k, s) /\ Number(i) = k
  BY <1>1
<1>3. i >= tailIndex
  BY <1>2, FreshIs
<1>4. tailIndex \in Nat /\ headIndex \in Nat /\ headIndex <= tailIndex
  BY DEF CqNumbers, HeadWithinTail
<1>5. ~(i < headIndex)
  BY <1>3, <1>4
<1> QED
  BY <1>2, <1>5 DEF Flagged

\* The blocks in use are no longer empty, and the index shows the last of them.
LEMMA PublishFrontFinds ==
  ASSUME FindInv, CountInv, HeadWithinTail, PublishFront
  PROVE  FindInv'
<1>1. PICK n, g, m, ring, shift : Found(n, g, m, ring, shift)
  BY DEF FindInv
<1>2. CqNumbers /\ tailIndex \in Nat
  BY DEF CountInv, CqKinds, CqNumbers
<1>3. /\ n \in Nat /\ g \in Nat \ {0} /\ m \in Nat /\ n <= m
      /\ ring \in [Nat -> Nat] /\ shift \in [Nat -> Int]
      /\ DOMAIN pr = PrShape /\ DOMAIN pr.call = CallShape
      /\ pr.tailBlock = IF n = 0 THEN NoBlock ELSE ring[m - 1]
      /\ pr.front = At(headers, g, shift, m) /\ pr.slotsUsed = n
  BY <1>1, FoundCall
<1>4. pr.call.pc = "publish" /\ Goes([pc |-> "construct"]) /\ UNCHANGED <<tailIndex, headIndex, deq>>
  BY DEF PublishFront, SharedByConsumers, pc
<1>5. /\ Enqueue(n, m, ring) /\ Contents(blocks, n, m, ring) /\ Ring(blocks, n, m, ring)
      /\ Indices(headers, g, n, m, ring, shift) /\ Kept(n, m) /\ Producer(n, g, m, ring, shift)
  BY <1>1 DEF Found
<1>6. Fresh \in Nat /\ Fresh < m /\ Fresh \in Numbers(n, m) /\ pr.call.first = ring[Fresh]
  BY <1>2, <1>4, <1>5, FreshIs DEF Enqueue
<1>7. n > 0 /\ pr.tailBlock = ring[m - 1] /\ m - 1 \in Numbers(n, m)
  BY <1>3, <1>6 DEF Numbers
<1>8. Len(headers) = g /\ headers[g].size \in Nat \ {0, 1} /\ Header = headers[g]
  <2>1. g \in 1..g
    BY <1>3
  <2> QED
    BY <1>5, <2>1, ArrayIs DEF Indices, IndexOK, Header
<1>9. PICK S : blocks' = ResetEmpty(blocks, S) /\ \A b : b \in S <=> \E j \in Fresh..(m - 1) : b = ring[j]
  <2>1. blocks' = ResetEmpty(blocks, UpTo(ring[Fresh], ring[m - 1]))
    BY <1>6, <1>7 DEF PublishFront, UpTo, StepsTo
  <2>2. \A b : b \in UpTo(ring[Fresh], ring[m - 1]) <=> \E j \in Fresh..(m - 1) : b = ring[j]
    <3>1. PICK a \in Numbers(n, m) : a = Fresh
      BY <1>6
    <3>2. n \in Nat /\ m \in Nat /\ Ring(blocks, n, m, ring)
      BY <1>3, <1>5
    <3>3. \A b : b \in UpTo(ring[a], ring[m - 1]) <=> \E j \in a..(m - 1) : b = ring[j]
      BY <3>1, <3>2, OpenedAre
    <3> QED
      BY <3>1, <3>3
  <2> QED
    BY <2>1, <2>2
<1>10. PICK p : p = At(headers, g, shift, m - 1) /\ headers' = SetFront(headers, g, p)
  <2>a. shift[g] \in Int
    BY <1>3
  <2>b. PICK z \in Nat \ {0} : z = headers[g].size
    BY <1>8
  <2>c. PICK i \in Int, u \in Int : i = m + shift[g] /\ u = -1
    BY <1>3, <2>a
  <2>1. z = headers[g].size /\ i = m + shift[g] /\ u = -1
    BY <2>b, <2>c
  <2>2. ((i % z) + u) % z = (i + u) % z
    BY RingAdd
  <2>3. PICK a \in Int : a = i % z
    BY DivMod
  <2>4. pr.front = a
    BY <1>3, <2>1, <2>3 DEF At
  <2>5. a + u = a - 1 /\ i + u = (m - 1) + shift[g]
    BY <1>3, <2>1, <2>a
  <2>6. (a - 1) % z = ((m - 1) + shift[g]) % z
    BY <2>2, <2>3, <2>5
  <2>7. (pr.front - 1) % Header.size = At(headers, g, shift, m - 1)
    BY <1>8, <2>1, <2>4, <2>6 DEF At
  <2>8. headers' = [headers EXCEPT ![g].front = At(headers, g, shift, m - 1)]
    BY <1>8, <2>7 DEF PublishFront
  <2> QED
    BY <2>8 DEF SetFront
<1>11. Filled(headers, g, p)
  <2>1. Shows(headers, g, ring, shift, m - 1)
    BY <1>5, <1>7 DEF Indices
  <2>2. ring[m - 1] # NoBlock
    BY <1>3, <1>5, <1>7 DEF Ring, NoBlock
  <2>3. p \in 0..(headers[g].size - 1)
    <3>a. shift[g] \in Int
      BY <1>3
    <3>b. PICK z \in Nat \ {0} : z = headers[g].size
      BY <1>8
    <3>c. PICK i \in Int : i = (m - 1) + shift[g]
      BY <1>3, <3>a
    <3>1. z = headers[g].size /\ i = (m - 1) + shift[g]
      BY <3>b, <3>c
    <3>2. i % z \in 0..(z - 1)
      BY DivMod
    <3> QED
      BY <1>10, <3>1, <3>2 DEF At
  <2> QED
    BY <1>10, <2>1, <2>2, <2>3 DEF Filled, Shows
<1>12. /\ Indices(headers', g, n, m, ring, shift) /\ IndexKept(headers, headers', g, shift, shift)
       /\ headers'[g].front = p /\ Filled(headers', g, p) /\ headers'[g].size = headers[g].size
       /\ \A h \in 1..g : h # g => headers'[h] = headers[h]
       /\ \A h \in 1..g : \A k : Shows(headers, h, ring, shift, k) => Shows(headers', h, ring, shift, k)
  <2>1. FrontSet(headers, headers', g, n, m, ring, shift, p)
    BY <1>5, <1>10, <1>11 DEF FrontSet
  <2>2. FrontThere(headers, headers', g, n, m, ring, shift, p)
    BY <2>1, FrontIndex
  <2> QED
    BY <2>2 DEF FrontThere
<1>13. \A c \in CqConsumers : ServesCall(headers, headers', g, c, ring, ring, shift, shift)
  <2>1. \A h \in 1..g : Filled(headers, h, headers[h].front) => Filled(headers', h, headers'[h].front)
    <3> SUFFICES ASSUME NEW h \in 1..g, Filled(headers, h, headers[h].front)
                 PROVE  Filled(headers', h, headers'[h].front)
      OBVIOUS
    <3>1. CASE h = g
      BY <1>12, <3>1
    <3>2. CASE h # g
      BY <1>12, <3>2 DEF IndexKept
    <3> QED
      BY <3>1, <3>2
  <2> QED
    BY <1>12, <2>1 DEF ServesCall
<1>14. /\ DOMAIN pr' = PrShape /\ pr'.front = pr.front /\ pr'.slotsUsed = pr.slotsUsed
       /\ pr'.tailBlock = pr.tailBlock /\ DOMAIN pr'.call = CallShape
       /\ pr'.call.pc = "construct" /\ \A k \in CallShape : k # "pc" => pr'.call[k] = pr.call[k]
  <2>1. DOMAIN [pc |-> "construct"] = {"pc"} /\ [pc |-> "construct"].pc = "construct"
    OBVIOUS
  <2>2. /\ DOMAIN pr' = PrShape /\ pr'.front = pr.front /\ pr'.slotsUsed = pr.slotsUsed
        /\ pr'.tailBlock = pr.tailBlock /\ DOMAIN pr'.call = CallShape
        /\ \A k \in CallShape : pr'.call[k] = IF k \in DOMAIN [pc |-> "construct"] THEN [pc |-> "construct"][k] ELSE pr.call[k]
    BY <1>3, <1>4, GoesIs
  <2>3. \A k \in CallShape : pr'.call[k] = IF k = "pc" THEN "construct" ELSE pr.call[k]
    BY <2>1, <2>2
  <2>4. "pc" \in CallShape
    BY DEF CallShape
  <2> QED
    BY <2>2, <2>3, <2>4
<1>15. Fresh' = Fresh /\ Stored' = Stored /\ Opened(m)' = m /\ Opened(m) = Fresh
  BY <1>4, <1>14 DEF Fresh, Stored, Opened
<1>16. /\ IsArray(blocks', n)
       /\ \A b \in 1..n : /\ blocks'[b].next = blocks[b].next /\ blocks'[b].item = blocks[b].item
                          /\ IsBlock(blocks'[b])
                          /\ \A s \in Slots : blocks'[b].empty[s] = IF b \in S THEN FALSE ELSE blocks[b].empty[s]
  <2>1. IsArray(blocks, n)
    BY <1>5 DEF Ring
  <2>2. \A b \in 1..n : IsBlock(blocks[b])
    BY <1>3, <1>5, AllBlocks
  <2>3. blocks' = ResetEmpty(blocks, S)
    BY <1>9
  <2>4. WasReset(blocks, blocks', n, S)
    BY <2>1, <2>2, <2>3, ResetIs
  <2> QED
    BY <2>4 DEF WasReset
<1>17. Ring(blocks, n, m, ring)'
  BY <1>5, <1>16, RingKept
<1>18. Contents(blocks, n, m, ring)'
  <2> SUFFICES ASSUME NEW k \in Numbers(n, m)
               PROVE  IsBlock(blocks'[ring[k]]) /\ HasItems(blocks[ring[k]], k, m)'
    BY DEF Contents
  <2>1. k \in Nat /\ k < m /\ ring[k] \in 1..n
    BY <1>3, <1>5 DEF Numbers, Ring
  <2>2. PICK b \in 1..n : b = ring[k]
    BY <2>1
  <2>3. HasItems(blocks[b], k, m)
    BY <1>5, <2>2 DEF Contents
  <2>4. b \in S <=> k >= Fresh
    <3>1. ASSUME b \in S PROVE k >= Fresh
      <4>1. PICK j \in Fresh..(m - 1) : b = ring[j]
        BY <1>9, <3>1
      <4>2. j \in Numbers(n, m) /\ j >= Fresh
        BY <1>3, <1>6 DEF Numbers
      <4>3. \A i, l \in Numbers(n, m) : ring[i] = ring[l] => i = l
        BY <1>5 DEF Ring
      <4>4. j = k
        BY <2>2, <4>1, <4>2, <4>3
      <4> QED
        BY <4>2, <4>4
    <3>2. ASSUME k >= Fresh PROVE b \in S
      <4>1. k \in Fresh..(m - 1)
        BY <1>3, <1>6, <2>1, <3>2
      <4> QED
        BY <1>9, <2>2, <4>1
    <3> QED
      BY <3>1, <3>2
  <2>5. ASSUME NEW s \in Slots
        PROVE  /\ blocks'[b].item[s] = IF Index(k, s) < Stored' /\ ~Gone(Index(k, s))' THEN Index(k, s) ELSE NoItem
               /\ blocks'[b].empty[s] <=> (k < Opened(m)' => Flagged(Index(k, s))')
    <3>1. (Gone(Index(k, s))' <=> Gone(Index(k, s))) /\ (Flagged(Index(k, s))' <=> Flagged(Index(k, s)))
      BY <1>4, ProducerFrame
    <3>2. /\ blocks[b].item[s] = IF Index(k, s) < Stored /\ ~Gone(Index(k, s)) THEN Index(k, s) ELSE NoItem
          /\ blocks[b].empty[s] <=> (k < Fresh => Flagged(Index(k, s)))
      BY <1>15, <2>3 DEF HasItems
    <3>3. blocks'[b].item[s] = IF Index(k, s) < Stored' /\ ~Gone(Index(k, s))' THEN Index(k, s) ELSE NoItem
      BY <1>15, <1>16, <3>1, <3>2
    <3>4. CASE k >= Fresh
      <4>1. ~Flagged(Index(k, s))
        BY <1>2, <2>1, <3>4, FreshUnflagged
      <4> QED
        BY <1>15, <1>16, <2>1, <2>4, <3>1, <3>3, <3>4, <4>1
    <3>5. CASE ~(k >= Fresh)
      <4>1. k < Fresh
        BY <1>6, <2>1, <3>5
      <4>2. blocks'[b].empty[s] = blocks[b].empty[s]
        BY <1>16, <2>4, <3>5
      <4> QED
        BY <1>15, <2>1, <3>1, <3>2, <3>3, <4>1, <4>2
    <3> QED
      BY <3>4, <3>5
  <2>6. HasItems(blocks[ring[k]], k, m)'
    BY <2>2, <2>5 DEF HasItems
  <2> QED
    BY <1>16, <2>2, <2>6
<1>19. Kept(n, m)'
  BY <1>4, <1>5, <1>15, ProducerFrame DEF Kept
<1>20. Producer(n, g, m, ring, shift)'
  <2>1. At(headers', g, shift, m) = At(headers, g, shift, m)
    BY <1>12 DEF At
  <2>2. Filled(headers', g, headers'[g].front)
    BY <1>12
  <2> QED
    BY <1>3, <1>7, <1>14, <2>1, <2>2 DEF Producer, PrShape
<1>21. Enqueue(n, m, ring)'
  <2>1. \A k \in {"n", "need", "cur", "start", "first", "origFront", "origUsed"} : pr'.call[k] = pr.call[k]
    BY <1>14 DEF CallShape
  <2> QED
    BY <1>4, <1>5, <1>14, <1>15, <2>1 DEF Enqueue, PrPcs
<1>22. g \in Nat /\ g <= g /\ Indices(headers, g, n, m, ring, shift)'
  BY <1>3, <1>12
<1> QED
  BY <1>1, <1>3, <1>4, <1>13, <1>17, <1>18, <1>19, <1>20, <1>21, <1>22, ProducerLeaves

\* The indices of the items that the call constructs.
NewItems == tailIndex..(tailIndex + pr.call.n - 1)

\* Their blocks have their numbers, and they are met one after the other.
LEMMA PlaceIs ==
  ASSUME NEW n, NEW g, NEW m, NEW ring, NEW shift, Found(n, g, m, ring, shift), CqNumbers, HeadWithinTail,
         pr.call.pc = "construct", NEW i \in NewItems
  PROVE  Place(i) = ring[Number(i)] /\ Number(i) \in Numbers(n, m) /\ i \in Nat
<1>1. /\ n \in Nat /\ m \in Nat /\ n <= m
      /\ Enqueue(n, m, ring) /\ Ring(blocks, n, m, ring) /\ Kept(n, m)
  BY FoundCall DEF Found
<1>2. tailIndex \in Nat /\ headIndex \in Nat /\ headIndex <= tailIndex
  BY DEF CqNumbers, HeadWithinTail
<1>3. /\ pr.call.n \in Nat \ {0} /\ pr.call.need = 0 /\ m + pr.call.need = Number(tailIndex + pr.call.n - 1) + 1
      /\ pr.call.first = (IF Fresh < m THEN ring[Fresh] ELSE NoBlock)
      /\ Fresh < m => Fresh \in Numbers(n, m)
      /\ tailIndex % BLOCK_SIZE # 0 => pr.call.start = ring[Fresh - 1]
  BY <1>1 DEF Enqueue
<1>4. PICK t \in Nat, u \in Nat : t = tailIndex /\ u = tailIndex + pr.call.n - 1 /\ t <= i /\ i <= u /\ i \in Nat
  BY <1>2, <1>3 DEF NewItems
<1>5. PICK a \in Nat, k \in Nat, l \in Nat : a = Number(t) /\ k = Number(i) /\ l = Number(u)
  BY <1>4, NumberIndex
<1>6. a <= k /\ k <= l
  BY <1>4, <1>5, NumberOrder
<1>7. l = m - 1
  <2>1. m + 0 = l + 1
    BY <1>3, <1>4, <1>5
  <2> QED
    BY <1>1, <2>1
<1>8. PICK from : from = IF tailIndex % BLOCK_SIZE = 0 THEN pr.call.first ELSE pr.call.start
  OBVIOUS
<1>9. from = ring[a] /\ a \in Numbers(n, m)
  <2>1. CASE tailIndex % BLOCK_SIZE = 0
    <3>1. a = Fresh
      BY <1>4, <1>5, <2>1, FreshIs
    <3>2. Fresh < m
      BY <1>1, <1>6, <1>7, <3>1
    <3> QED
      BY <1>3, <1>8, <2>1, <3>1, <3>2
  <2>2. CASE tailIndex % BLOCK_SIZE # 0
    <3>1. a = Fresh - 1 /\ Fresh \in Nat
      BY <1>4, <1>5, <2>2, FreshIs
    <3>2. ~Flagged(t)
      BY <1>2, <1>4 DEF Flagged
    <3>3. Number(t) < Fresh
      BY <1>5, <3>1
    <3>4. a \in Numbers(n, m)
      BY <1>1, <1>5, <3>2, <3>3 DEF Kept
    <3> QED
      BY <1>3, <1>8, <2>2, <3>1, <3>4
  <2> QED
    BY <2>1, <2>2
<1>10. (Base(i) - Base(tailIndex)) \div BLOCK_SIZE = k - a
  <2>1. t \in Int /\ i \in Int
    BY <1>4
  <2>2. Base(i) = Start(k) /\ Base(t) = Start(a)
    BY <1>5, <2>1, StartOf
  <2>3. (Start(k) - Start(a)) \div BLOCK_SIZE = k - a
    BY StartOf
  <2> QED
    BY <1>4, <2>2, <2>3
<1>11. PICK j \in Nat : j = k - a
  BY <1>6
<1>12. Place(i) = NthBlock(from)[j]
  BY <1>8, <1>10, <1>11 DEF Place
<1>13. NthBlock(ring[a])[j] = ring[a + j]
  <2>1. a + j < m
    BY <1>1, <1>6, <1>7, <1>11
  <2> QED
    BY <1>1, <1>9, <2>1, NthIs
<1>14. a + j = k
  BY <1>11
<1>15. k \in Numbers(n, m)
  BY <1>1, <1>6, <1>7, <1>9 DEF Numbers
<1> QED
  BY <1>4, <1>5, <1>9, <1>12, <1>13, <1>14, <1>15

\* Where the new items are, and that nobody has claimed them.
LEMMA NewAre ==
  ASSUME NEW n, NEW g, NEW m, NEW ring, NEW shift, Found(n, g, m, ring, shift), CqNumbers, HeadWithinTail,
         pr.call.pc = "construct", NEW k \in Numbers(n, m), NEW s \in Slots
  PROVE  /\ \A i \in NewItems : Place(i) = ring[k] /\ i % BLOCK_SIZE = s => i = Index(k, s)
         /\ Index(k, s) \in NewItems =>
              /\ Place(Index(k, s)) = ring[k] /\ Index(k, s) % BLOCK_SIZE = s
              /\ ~Gone(Index(k, s)) /\ ~Flagged(Index(k, s))
<1>1. /\ n \in Nat /\ m \in Nat /\ n <= m /\ k \in Nat
      /\ \A i, j \in Numbers(n, m) : ring[i] = ring[j] => i = j
  <2>1. n \in Nat /\ m \in Nat /\ n <= m /\ Ring(blocks, n, m, ring)
    BY FoundCall DEF Found
  <2>2. \A i, j \in Numbers(n, m) : ring[i] = ring[j] => i = j
    BY <2>1 DEF Ring
  <2>3. k \in Nat
    BY <2>1 DEF Numbers
  <2> QED
    BY <2>1, <2>2, <2>3
<1>2. ASSUME NEW i \in NewItems, Place(i) = ring[k], i % BLOCK_SIZE = s PROVE i = Index(k, s)
  <2>1. Place(i) = ring[Number(i)] /\ Number(i) \in Numbers(n, m) /\ i \in Nat
    BY PlaceIs
  <2>2. Number(i) = k
    BY <1>1, <1>2, <2>1
  <2>3. Index(Number(i), i % BLOCK_SIZE) = i
    BY <2>1, NumberIndex
  <2> QED
    BY <1>2, <2>2, <2>3
<1>3. ASSUME Index(k, s) \in NewItems
      PROVE  /\ Place(Index(k, s)) = ring[k] /\ Index(k, s) % BLOCK_SIZE = s
             /\ ~Gone(Index(k, s)) /\ ~Flagged(Index(k, s))
  <2>1. PICK i \in NewItems : i = Index(k, s)
    BY <1>3
  <2>2. Place(i) = ring[Number(i)] /\ i \in Nat
    BY PlaceIs
  <2>3. Number(i) = k /\ i % BLOCK_SIZE = s
    BY <1>1, <2>1, IndexNumber
  <2>4. ~(i < headIndex)
    <3>1. tailIndex \in Nat /\ headIndex \in Nat /\ headIndex <= tailIndex
      BY DEF CqNumbers, HeadWithinTail
    <3>2. tailIndex <= i
      BY <2>2 DEF NewItems
    <3> QED
      BY <2>2, <3>1, <3>2
  <2> QED
    BY <2>1, <2>2, <2>3, <2>4 DEF Gone, Flagged
<1> QED
  BY <1>2, <1>3

\* What slot s of block b has once the items are constructed.
ItemAfter(b, s) ==
  IF \E i \in NewItems : Place(i) = b /\ i % BLOCK_SIZE = s
  THEN CHOOSE i \in NewItems : Place(i) = b /\ i % BLOCK_SIZE = s
  ELSE blocks[b].item[s]

\* The items are constructed, and nothing else changes in the blocks.
LEMMA ConstructIs ==
  ASSUME Construct, NEW n, IsArray(blocks, n), \A b \in 1..n : IsBlock(blocks[b])
  PROVE  /\ IsArray(blocks', n)
         /\ \A b \in 1..n :
              /\ DOMAIN blocks'[b] = {"next", "item", "empty"}
              /\ blocks'[b].next = blocks[b].next /\ blocks'[b].empty = blocks[b].empty
              /\ blocks'[b].item = [s \in Slots |-> ItemAfter(b, s)]
<1>1. DOMAIN blocks = 1..n /\ n \in Nat
  BY ArrayIs
<1>2. blocks' = [b \in 1..n |-> [blocks[b] EXCEPT !.item = [s \in Slots |-> ItemAfter(b, s)]]]
  BY <1>1 DEF Construct, ItemAfter, NewItems
<1>3. IsArray(blocks', n)
  BY <1>1, <1>2 DEF IsArray
<1>4. ASSUME NEW b \in 1..n
      PROVE  /\ DOMAIN blocks'[b] = {"next", "item", "empty"}
             /\ blocks'[b].next = blocks[b].next /\ blocks'[b].empty = blocks[b].empty
             /\ blocks'[b].item = [s \in Slots |-> ItemAfter(b, s)]
  <2>1. PICK f : f = [s \in Slots |-> ItemAfter(b, s)]
    OBVIOUS
  <2>2. blocks'[b] = [blocks[b] EXCEPT !.item = f]
    BY <1>2, <2>1
  <2>3. DOMAIN blocks[b] = {"next", "item", "empty"}
    BY DEF IsBlock
  <2>4. /\ DOMAIN blocks'[b] = {"next", "item", "empty"} /\ blocks'[b].item = f
        /\ blocks'[b].next = blocks[b].next /\ blocks'[b].empty = blocks[b].empty
    BY <2>2, <2>3
  <2> QED
    BY <2>1, <2>4
<1> QED
  BY <1>3, <1>4

\* The items of the call are constructed in their blocks.
LEMMA ConstructFinds ==
  ASSUME FindInv, CountInv, HeadWithinTail, Construct
  PROVE  FindInv'
<1>1. PICK n, g, m, ring, shift : Found(n, g, m, ring, shift)
  BY DEF FindInv
<1>2. CqNumbers /\ tailIndex \in Nat
  BY DEF CountInv, CqKinds, CqNumbers
<1>3. /\ n \in Nat /\ g \in Nat \ {0} /\ m \in Nat /\ n <= m
      /\ ring \in [Nat -> Nat] /\ shift \in [Nat -> Int]
      /\ DOMAIN pr = PrShape /\ DOMAIN pr.call = CallShape
      /\ pr.tailBlock = (IF n = 0 THEN NoBlock ELSE ring[m - 1])
      /\ pr.front = At(headers, g, shift, m) /\ pr.slotsUsed = n
  BY <1>1, FoundCall
<1>4. pr.call.pc = "construct" /\ Goes([pc |-> "store"]) /\ UNCHANGED <<tailIndex, headIndex, deq, headers>>
  BY DEF Construct, SharedByConsumers, pc
<1>5. /\ Enqueue(n, m, ring) /\ Contents(blocks, n, m, ring) /\ Ring(blocks, n, m, ring)
      /\ Indices(headers, g, n, m, ring, shift) /\ Kept(n, m) /\ Producer(n, g, m, ring, shift)
  BY <1>1 DEF Found
<1>6. pr.call.n \in Nat \ {0} /\ n > 0 /\ Filled(headers, g, headers[g].front)
  BY <1>4, <1>5 DEF Enqueue, Producer
<1>7. /\ DOMAIN pr' = PrShape /\ pr'.front = pr.front /\ pr'.slotsUsed = pr.slotsUsed
      /\ pr'.tailBlock = pr.tailBlock /\ DOMAIN pr'.call = CallShape
      /\ pr'.call.pc = "store" /\ \A k \in CallShape : k # "pc" => pr'.call[k] = pr.call[k]
  <2>1. DOMAIN [pc |-> "store"] = {"pc"} /\ [pc |-> "store"].pc = "store"
    OBVIOUS
  <2>2. /\ DOMAIN pr' = PrShape /\ pr'.front = pr.front /\ pr'.slotsUsed = pr.slotsUsed
        /\ pr'.tailBlock = pr.tailBlock /\ DOMAIN pr'.call = CallShape
        /\ \A k \in CallShape : pr'.call[k] = IF k \in DOMAIN [pc |-> "store"] THEN [pc |-> "store"][k] ELSE pr.call[k]
    BY <1>3, <1>4, GoesIs
  <2>3. \A k \in CallShape : pr'.call[k] = IF k = "pc" THEN "store" ELSE pr.call[k]
    BY <2>1, <2>2
  <2>4. "pc" \in CallShape
    BY DEF CallShape
  <2> QED
    BY <2>2, <2>3, <2>4
<1>8. \A k \in {"n", "need", "cur", "start", "first", "origFront", "origUsed"} : pr'.call[k] = pr.call[k]
  BY <1>7 DEF CallShape
<1>9. Fresh' = Fresh /\ Stored = tailIndex /\ Stored' = tailIndex + pr.call.n /\ Opened(m)' = m /\ Opened(m) = m
  BY <1>4, <1>7, <1>8 DEF Fresh, Stored, Opened
<1>10. /\ IsArray(blocks', n)
       /\ \A b \in 1..n :
            /\ DOMAIN blocks'[b] = {"next", "item", "empty"}
            /\ blocks'[b].next = blocks[b].next /\ blocks'[b].empty = blocks[b].empty
            /\ blocks'[b].item = [s \in Slots |-> ItemAfter(b, s)]
  <2>1. IsArray(blocks, n)
    BY <1>5 DEF Ring
  <2>2. \A b \in 1..n : IsBlock(blocks[b])
    BY <1>3, <1>5, AllBlocks
  <2> QED
    BY <2>1, <2>2, ConstructIs
<1>11. Ring(blocks, n, m, ring)'
  BY <1>5, <1>10, RingKept
<1>12. Contents(blocks, n, m, ring)'
  <2> SUFFICES ASSUME NEW k \in Numbers(n, m)
               PROVE  IsBlock(blocks'[ring[k]]) /\ HasItems(blocks[ring[k]], k, m)'
    BY DEF Contents
  <2>1. k \in Nat /\ k < m /\ ring[k] \in 1..n
    BY <1>3, <1>5 DEF Numbers, Ring
  <2>2. PICK b \in 1..n : b = ring[k]
    BY <2>1
  <2>3. HasItems(blocks[b], k, m) /\ IsBlock(blocks[b])
    BY <1>5, <2>2 DEF Contents
  <2>4. ASSUME NEW s \in Slots
        PROVE  /\ ItemAfter(b, s) = IF Index(k, s) < Stored' /\ ~Gone(Index(k, s))' THEN Index(k, s) ELSE NoItem
               /\ blocks[b].empty[s] <=> (k < Opened(m)' => Flagged(Index(k, s))')
    <3>1. (Gone(Index(k, s))' <=> Gone(Index(k, s))) /\ (Flagged(Index(k, s))' <=> Flagged(Index(k, s)))
      BY <1>4, ProducerFrame
    <3>2. /\ blocks[b].item[s] = (IF Index(k, s) < tailIndex /\ ~Gone(Index(k, s)) THEN Index(k, s) ELSE NoItem)
          /\ blocks[b].empty[s] <=> (k < m => Flagged(Index(k, s)))
      BY <1>9, <2>3 DEF HasItems
    <3>3. PICK x \in Nat, l \in Nat \ {0} : x = Index(k, s) /\ l = pr.call.n
      BY <1>6, <2>1, IndexNumber
    <3>4. /\ \A i \in NewItems : Place(i) = b /\ i % BLOCK_SIZE = s => i = x
          /\ x \in NewItems => Place(x) = b /\ x % BLOCK_SIZE = s /\ ~Gone(x)
      BY <1>1, <1>2, <1>4, <2>2, <3>3, NewAre
    <3>5. x \in NewItems <=> tailIndex <= x /\ x < tailIndex + l
      BY <1>2, <3>3 DEF NewItems
    <3>6. CASE x \in NewItems
      <4>1. ItemAfter(b, s) = x
        BY <3>4, <3>6 DEF ItemAfter
      <4> QED
        BY <1>9, <3>1, <3>2, <3>3, <3>4, <3>5, <3>6, <4>1
    <3>7. CASE x \notin NewItems
      <4>1. ItemAfter(b, s) = blocks[b].item[s]
        BY <3>4, <3>7 DEF ItemAfter
      <4>2. x < tailIndex <=> x < tailIndex + l
        BY <1>2, <3>5, <3>7
      <4> QED
        BY <1>9, <3>1, <3>2, <3>3, <4>1, <4>2
    <3> QED
      BY <3>6, <3>7
  <2>5. IsBlock(blocks'[b])
    <3>1. \A s \in Slots : ItemAfter(b, s) \in Int
      <4> SUFFICES ASSUME NEW s \in Slots PROVE ItemAfter(b, s) \in Int
        OBVIOUS
      <4>1. Index(k, s) \in Int /\ NoItem \in Int
        BY <2>1, IndexNumber DEF NoItem
      <4> QED
        BY <2>4, <4>1
    <3>2. blocks'[b].item \in [Slots -> Int]
      BY <1>10, <3>1
    <3> QED
      BY <1>10, <2>3, <3>2 DEF IsBlock
  <2>6. HasItems(blocks[ring[k]], k, m)'
    <3>1. \A s \in Slots : blocks'[b].item[s] = ItemAfter(b, s) /\ blocks'[b].empty[s] = blocks[b].empty[s]
      BY <1>10
    <3> QED
      BY <2>2, <2>4, <3>1 DEF HasItems
  <2> QED
    BY <2>2, <2>5, <2>6
<1>13. Kept(n, m)'
  BY <1>4, <1>5, <1>9, ProducerFrame DEF Kept
<1>14. Producer(n, g, m, ring, shift)'
  <2>1. At(headers', g, shift, m) = At(headers, g, shift, m)
    BY <1>4
  <2>2. Filled(headers', g, headers'[g].front)
    BY <1>4, <1>6
  <2> QED
    BY <1>3, <1>6, <1>7, <2>1, <2>2 DEF Producer, PrShape
<1>15. Enqueue(n, m, ring)'
  BY <1>4, <1>5, <1>7, <1>8, <1>9 DEF Enqueue, PrPcs
<1>16. g \in Nat /\ g <= g /\ Indices(headers, g, n, m, ring, shift)'
  <2>1. Indices(headers', g, n, m, ring, shift)
    BY <1>4, <1>5
  <2> QED
    BY <1>3, <2>1
<1>17. \A c \in CqConsumers : ServesCall(headers, headers', g, c, ring, ring, shift, shift)
  BY <1>4, SameServes
<1> QED
  BY <1>1, <1>3, <1>4, <1>11, <1>12, <1>13, <1>14, <1>15, <1>16, <1>17, ProducerLeaves

-----------------------------------------------------------------------------
(* ExplicitProducer: the theorems                                          *)

\* Nothing is there at first.
LEMMA FindInit == CqInit => FindInv
<1> SUFFICES ASSUME CqInit PROVE FindInv
  OBVIOUS
<1>1. CqNumbers /\ CqShape /\ tailIndex = 0
  BY CountInit DEF CountInv, CqKinds, CqInit
<1>2. PICK ring \in [Nat -> Nat], shift \in [Nat -> Int] : \A k \in Nat : shift[k] = 0
  <2>1. [k \in Nat |-> 0] \in [Nat -> Nat] /\ [k \in Nat |-> 0] \in [Nat -> Int]
    OBVIOUS
  <2>2. \A k \in Nat : [j \in Nat |-> 0][k] = 0
    OBVIOUS
  <2> QED
    BY <2>1, <2>2
<1>3. \A k : k \notin Numbers(0, 0)
  BY DEF Numbers
<1>4. PICK z \in Nat \ {0, 1} : z = EXPLICIT_INITIAL_INDEX_SIZE
  BY CqAssumption
<1>5. PICK h : h = [size |-> z, front |-> -1, entries |-> [i \in 0..(z - 1) |-> NoEntry]]
  OBVIOUS
<1>6. headers = <<h>> /\ blocks = <<>> /\ pr = [call |-> PrIdle, slotsUsed |-> 0, front |-> 0, tailBlock |-> NoBlock]
  BY <1>4, <1>5 DEF CqInit
<1>7. /\ DOMAIN h = {"size", "front", "entries"} /\ h.size = z /\ h.front = -1
      /\ h.entries = [i \in 0..(z - 1) |-> NoEntry]
  BY <1>5
<1>8. headers[1] = h /\ IsArray(headers, 1) /\ IsArray(blocks, 0)
  <2>1. headers[1] = h /\ DOMAIN headers = 1..1
    BY <1>6
  <2>2. headers = [i \in 1..1 |-> headers[i]]
    BY <1>6, <2>1
  <2>3. DOMAIN blocks = 1..0 /\ blocks = [i \in 1..0 |-> blocks[i]]
    BY <1>6
  <2> QED
    BY <2>1, <2>2, <2>3 DEF IsArray
<1>9. \A p : ~Filled(headers, 1, p)
  <2>1. NoEntry.block = NoBlock
    BY DEF NoEntry
  <2> QED
    BY <1>7, <1>8, <2>1 DEF Filled
<1>10. IndexOK(headers, 1, shift)
  <2>1. DOMAIN NoEntry = {"base", "block"}
    BY DEF NoEntry
  <2>2. /\ DOMAIN headers[1].entries = 0..(headers[1].size - 1)
        /\ \A p \in 0..(headers[1].size - 1) : DOMAIN headers[1].entries[p] = {"base", "block"}
    <3>1. PICK e : e = h.entries
      OBVIOUS
    <3>2. DOMAIN e = 0..(z - 1) /\ \A p \in 0..(z - 1) : e[p] = NoEntry
      BY <1>7, <3>1
    <3>3. headers[1].entries = e /\ headers[1].size = z
      BY <1>7, <1>8, <3>1
    <3> QED
      BY <2>1, <3>2, <3>3
  <2>3. headers[1].size \in Nat \ {0, 1} /\ headers[1].front \in -1..(headers[1].size - 1)
    <3>1. -1 \in -1..(z - 1)
      OBVIOUS
    <3>2. headers[1].size = z /\ headers[1].front = -1
      BY <1>7, <1>8
    <3> QED
      BY <3>1, <3>2
  <2>4. DOMAIN headers[1] = {"size", "front", "entries"}
    BY <1>7, <1>8
  <2> QED
    BY <1>9, <2>2, <2>3, <2>4 DEF IndexOK
<1>11. Indices(headers, 1, 0, 0, ring, shift)
  <2>1. \A i \in 1..1 : i = 1
    OBVIOUS
  <2>2. 0 <= headers[1].size /\ 1 > 0
    BY <1>7, <1>8
  <2>3. \A i \in 1..1 : IndexOK(headers, i, shift)
    BY <1>10, <2>1
  <2> QED
    BY <1>3, <1>8, <2>2, <2>3 DEF Indices
<1>12. Ring(blocks, 0, 0, ring) /\ Contents(blocks, 0, 0, ring)
  BY <1>3, <1>8 DEF Ring, Contents
<1>13. Fresh = 0
  BY <1>1, FreshIs
<1>14. Kept(0, 0)
  <2>1. \A i \in Nat : Number(i) \in Nat
    BY NumberIndex
  <2> QED
    BY <1>13, <2>1 DEF Kept
<1>15. /\ DOMAIN pr = {"call", "slotsUsed", "front", "tailBlock"} /\ pr.call = PrIdle /\ pr.slotsUsed = 0
       /\ pr.front = 0 /\ pr.tailBlock = NoBlock
  BY <1>6
<1>16. PrIdle.pc = "idle" /\ DOMAIN PrIdle = CallShape
  BY DEF PrIdle, CallShape
<1>17. Producer(0, 1, 0, ring, shift)
  <2>1. At(headers, 1, shift, 0) = 0
    <3>1. 0 \in 0..(z - 1) /\ z \in Nat \ {0}
      OBVIOUS
    <3>2. 0 % z = 0
      BY <3>1, RingLow
    <3>3. shift[1] = 0
      BY <1>2
    <3>4. At(headers, 1, shift, 0) = (0 + 0) % z
      BY <1>7, <1>8, <3>3 DEF At
    <3> QED
      BY <3>2, <3>4
  <2> QED
    BY <1>1, <1>15, <1>16, <2>1 DEF Producer
<1>18. Enqueue(0, 0, ring)
  BY <1>13, <1>15, <1>16 DEF Enqueue, PrPcs
<1>19. \A c \in CqConsumers : X(c).pc = "idle"
  BY DEF CqInit, X, Idle
<1>20. Apart /\ \A c \in CqConsumers : Lookup(headers, 1, c, ring, shift)
  BY <1>19 DEF Apart, Owns, Lookup, LookupPcs
<1>21. Found(0, 1, 0, ring, shift)
  BY <1>11, <1>12, <1>14, <1>17, <1>18, <1>20 DEF Found
<1> QED
  BY <1>21 DEF FindInv

\* Every step of the producer keeps the invariant.
LEMMA ProducerFinds ==
  ASSUME FindInv, CountInv, HeadWithinTail, ~BulkMayFail, Unlimited, ProducerStep
  PROVE  FindInv'
<1>1. CASE EnqueueOne
  BY <1>1, StartCallFinds DEF EnqueueOne
<1>2. CASE EnqueueMany
  <2>1. PICK t \in 2..CqBulk : StartCall(t)
    BY <1>2 DEF EnqueueMany
  <2>2. t \in Nat \ {0}
    OBVIOUS
  <2> QED
    BY <2>1, <2>2, StartCallFinds
<1>3. CASE ReuseBlock
  BY <1>3, ReuseBlockFinds
<1>4. CASE AddBlock
  BY <1>4, AddBlockFinds
<1>5. CASE PublishFront
  BY <1>5, PublishFrontFinds
<1>6. CASE Construct
  BY <1>6, ConstructFinds
<1>7. CASE StoreTail
  BY <1>7, StoreTailFinds
<1> QED
  BY <1>1, <1>2, <1>3, <1>4, <1>5, <1>6, <1>7 DEF ProducerStep

\* A step that changes nothing keeps the invariant.
LEMMA FindUnchanged == FindInv /\ UNCHANGED cqVars => FindInv'
<1> SUFFICES ASSUME FindInv, UNCHANGED cqVars PROVE FindInv'
  OBVIOUS
<1>1. PICK n, g, m, ring, shift : Found(n, g, m, ring, shift)
  BY DEF FindInv
<1>2. UNCHANGED <<headIndex, deq, blocks, headers, pr, tailIndex>>
  BY DEF cqVars
<1>3. Stored' = Stored /\ Opened(m)' = Opened(m) /\ Fresh' = Fresh
  BY <1>2 DEF Stored, Opened, Fresh
<1>4. Kept(n, m) /\ Producer(n, g, m, ring, shift) /\ Enqueue(n, m, ring)
  BY <1>1 DEF Found
<1>5. Kept(n, m)'
  BY <1>2, <1>3, <1>4, ProducerFrame DEF Kept
<1>6. Producer(n, g, m, ring, shift)'
  BY <1>2, <1>4 DEF Producer
<1>7. Enqueue(n, m, ring)'
  BY <1>2, <1>3, <1>4 DEF Enqueue
<1> QED
  BY <1>1, <1>2, <1>3, <1>5, <1>6, <1>7, ProducerReads

\* ExplicitProducer: the invariant holds while an enqueue_bulk does not fail half way.
THEOREM FindInvariance ==
  ASSUME ~BulkMayFail, Unlimited
  PROVE  CqSpec => []FindInv
<1>1. CqInit => FindInv
  BY FindInit
<1>2. FindInv /\ CountInv /\ CountInv' /\ [CqNext]_cqVars => FindInv'
  <2> SUFFICES ASSUME FindInv, CountInv, CountInv', [CqNext]_cqVars PROVE FindInv'
    OBVIOUS
  <2>1. HeadWithinTail
    BY CountInvAgrees DEF CountsAgree
  <2>2. CASE ProducerStep
    BY <2>1, <2>2, ProducerFinds
  <2>3. ASSUME NEW c \in CqConsumers, ConsumerStep(c) PROVE FindInv'
    BY <2>1, <2>3, ConsumerFinds
  <2>4. CASE UNCHANGED cqVars
    BY <2>4, FindUnchanged
  <2> QED
    BY <2>2, <2>3, <2>4 DEF CqNext
<1> QED
  BY <1>1, <1>2, CountInvariance, PTL DEF CqSpec

\* What the invariant says of the items of a block.
LEMMA ItemsOf ==
  ASSUME NEW n, NEW g, NEW m, NEW ring, NEW shift, Found(n, g, m, ring, shift), CqNumbers,
         NEW k \in Numbers(n, m), NEW s \in Slots
  PROVE  /\ k \in Nat /\ Index(k, s) \in Nat /\ ring[k] \in 1..n
         /\ blocks[ring[k]].item[s] = IF Index(k, s) < Stored /\ ~Gone(Index(k, s)) THEN Index(k, s) ELSE NoItem
         /\ blocks[ring[k]].empty[s] <=> (k < Opened(m) => Flagged(Index(k, s)))
         /\ Stored \in Nat /\ tailIndex <= Stored
<1>1. /\ n \in Nat /\ m \in Nat /\ n <= m /\ Ring(blocks, n, m, ring) /\ Contents(blocks, n, m, ring)
      /\ Enqueue(n, m, ring)
  BY FoundCall DEF Found
<1>2. k \in Nat /\ ring[k] \in 1..n /\ HasItems(blocks[ring[k]], k, m)
  BY <1>1 DEF Numbers, Ring, Contents
<1>3. Index(k, s) \in Nat
  BY <1>2, IndexNumber
<1>4. Stored \in Nat /\ tailIndex <= Stored
  <2>1. tailIndex \in Nat
    BY DEF CqNumbers
  <2>2. pr.call.pc = "store" => pr.call.n \in Nat
    BY <1>1 DEF Enqueue
  <2> QED
    BY <2>1, <2>2 DEF Stored
<1> QED
  BY <1>2, <1>3, <1>4 DEF HasItems

\* A call finds its items.
LEMMA FindsItem == FindInv /\ CqNumbers /\ HeadWithinTail => ClaimFindsItem
<1> SUFFICES ASSUME FindInv, CqNumbers, HeadWithinTail, NEW c \in CqConsumers, X(c).pc = "move"
             PROVE  FoundBlock(c) # NoBlock /\ \A i \in Part(c) : blocks[FoundBlock(c)].item[i % BLOCK_SIZE] = i
  BY DEF ClaimFindsItem, AtPc
<1>1. PICK n, g, m, ring, shift : Found(n, g, m, ring, shift)
  BY DEF FindInv
<1>2. /\ X(c).first \in Nat /\ X(c).n \in Nat \ {0} /\ X(c).first + X(c).n <= headIndex
      /\ Number(X(c).first) \in Numbers(n, m) /\ FoundBlock(c) = ring[Number(X(c).first)]
  BY <1>1, BlockFound
<1>3. ring[Number(X(c).first)] \in 1..n /\ n \in Nat
  BY <1>1, <1>2, FoundCall DEF Found, Ring
<1>4. ASSUME NEW i \in Part(c) PROVE blocks[FoundBlock(c)].item[i % BLOCK_SIZE] = i
  <2>1. PICK f \in Nat, l \in Nat \ {0} : f = X(c).first /\ l = X(c).n
    BY <1>2
  <2>2. PICK k \in 1..l :
          /\ Part(c) = f..(f + k - 1)
          /\ \A j \in f..(f + l - 1) : j \in Part(c) <=> Number(j) = Number(f)
    BY <2>1, PartIs
  <2>3. i \in Nat /\ i \in f..(f + l - 1) /\ Number(i) = Number(f)
    <3>1. i \in f..(f + k - 1)
      BY <2>2
    <3>2. i \in Nat /\ i \in f..(f + l - 1)
      BY <3>1
    <3> QED
      BY <2>2, <3>2
  <2>4. i \in Owns(c) /\ MovedOut(c) = {}
    BY <2>1, <2>3 DEF Owns, MovedOut, LookupPcs
  <2>5. ~Gone(i)
    BY <2>4 DEF Gone
  <2>6. i < headIndex /\ headIndex \in Nat /\ tailIndex \in Nat /\ headIndex <= tailIndex
    BY <1>2, <2>1, <2>3 DEF CqNumbers, HeadWithinTail
  <2>7. PICK a \in Numbers(n, m), s \in Slots : a = Number(i) /\ s = i % BLOCK_SIZE /\ Index(a, s) = i
    BY <1>2, <2>1, <2>3, NumberIndex
  <2>8. /\ blocks[ring[a]].item[s] = (IF i < Stored /\ ~Gone(i) THEN i ELSE NoItem)
        /\ Stored \in Nat /\ tailIndex <= Stored
    BY <1>1, <2>7, ItemsOf
  <2>9. i < Stored
    BY <2>3, <2>6, <2>8
  <2> QED
    BY <1>2, <2>1, <2>3, <2>5, <2>7, <2>8, <2>9
<1> QED
  BY <1>2, <1>3, <1>4 DEF NoBlock

\* The places of the new items are free.
LEMMA PlacesFree == FindInv /\ CqNumbers /\ HeadWithinTail => NeverOverwrites
<1> SUFFICES ASSUME FindInv, CqNumbers, HeadWithinTail, pr.call.pc = "construct", NEW i \in NewItems
             PROVE  blocks[Place(i)].item[i % BLOCK_SIZE] = NoItem /\ ~blocks[Place(i)].empty[i % BLOCK_SIZE]
  BY DEF NeverOverwrites, NewItems, pc
<1>1. PICK n, g, m, ring, shift : Found(n, g, m, ring, shift)
  BY DEF FindInv
<1>2. Place(i) = ring[Number(i)] /\ Number(i) \in Numbers(n, m) /\ i \in Nat
  BY <1>1, PlaceIs
<1>3. PICK k \in Numbers(n, m), s \in Slots : k = Number(i) /\ s = i % BLOCK_SIZE /\ Index(k, s) = i
  BY <1>2, NumberIndex
<1>4. /\ blocks[ring[k]].item[s] = (IF i < Stored /\ ~Gone(i) THEN i ELSE NoItem)
      /\ blocks[ring[k]].empty[s] <=> (k < Opened(m) => Flagged(i))
  BY <1>1, <1>3, ItemsOf
<1>5. Stored = tailIndex /\ Opened(m) = m
  BY DEF Stored, Opened
<1>6. tailIndex \in Nat /\ tailIndex <= i
  BY <1>2 DEF CqNumbers, NewItems
<1>7. ~(i < Stored)
  BY <1>2, <1>5, <1>6
<1>8. ~Flagged(i)
  BY <1>1, <1>3, NewAre
<1>9. k < Opened(m)
  BY <1>1, <1>5, FoundCall DEF Numbers
<1> QED
  BY <1>2, <1>3, <1>4, <1>7, <1>8, <1>9

\* The links stay inside the list of blocks, the positions inside the index.
LEMMA FoundTypes == FindInv /\ CqNumbers => CqTypeOK
<1> SUFFICES ASSUME FindInv, CqNumbers PROVE CqTypeOK
  OBVIOUS
<1>1. PICK n, g, m, ring, shift : Found(n, g, m, ring, shift)
  BY DEF FindInv
<1>2. /\ n \in Nat /\ g \in Nat \ {0} /\ m \in Nat /\ n <= m /\ shift \in [Nat -> Int]
      /\ pr.front = At(headers, g, shift, m) /\ pr.slotsUsed = n
  BY <1>1, FoundCall
<1>3. Ring(blocks, n, m, ring) /\ Indices(headers, g, n, m, ring, shift)
  BY <1>1 DEF Found
<1>4. DOMAIN blocks = 1..n /\ DOMAIN headers = 1..g /\ Len(headers) = g
  BY <1>3, ArrayIs DEF Ring, Indices
<1>5. ASSUME NEW b \in DOMAIN blocks PROVE blocks[b].next \in DOMAIN blocks
  <2>1. PICK k \in Numbers(n, m) : ring[k] = b
    BY <1>3, <1>4, <1>5 DEF Ring
  <2>2. blocks[b].next = IF k = m - 1 THEN ring[m - n] ELSE ring[k + 1]
    BY <1>3, <2>1 DEF Ring
  <2>3. m - n \in Numbers(n, m) /\ (k # m - 1 => k + 1 \in Numbers(n, m))
    BY <1>2, <2>1 DEF Numbers
  <2> QED
    BY <1>3, <1>4, <2>2, <2>3 DEF Ring
<1>6. ASSUME NEW h \in DOMAIN headers PROVE headers[h].front \in -1..(headers[h].size - 1)
  BY <1>3, <1>4 DEF Indices, IndexOK
<1>7. PICK z \in Nat \ {0} : z = headers[g].size /\ z = Header.size /\ n <= z
  BY <1>2, <1>3, <1>4 DEF Indices, IndexOK, Header
<1>8. pr.front \in 0..(z - 1)
  <2>1. shift[g] \in Int
    BY <1>2
  <2>2. PICK i \in Int : i = m + shift[g]
    BY <1>2, <2>1
  <2>3. i % z \in 0..(z - 1)
    BY DivMod
  <2> QED
    BY <1>2, <1>7, <2>2, <2>3 DEF At
<1>9. pr.slotsUsed \in 0..z
  BY <1>2, <1>7
<1>10. {tailIndex, headIndex, dequeueOptimisticCount, dequeueOvercommit} \subseteq Nat
  BY DEF CqNumbers
<1> QED
  BY <1>5, <1>6, <1>7, <1>8, <1>9, <1>10 DEF CqTypeOK

\* The entries of the blocks from the oldest on, and those that end before the head.
EntryFrom(k) == Header.entries[(pr.front - pr.slotsUsed + k) % Header.size]
Past(k) == EntryFrom(k).base + BLOCK_SIZE < headIndex

\* They are in the order of the numbers.
LEMMA EntryFromIs ==
  ASSUME NEW n, NEW g, NEW m, NEW ring, NEW shift, Found(n, g, m, ring, shift), NEW k \in 0..(n - 1)
  PROVE  /\ m - n + k \in Numbers(n, m)
         /\ EntryFrom(k).base = Start(m - n + k) /\ EntryFrom(k).block = ring[m - n + k]
<1>1. /\ n \in Nat /\ g \in Nat \ {0} /\ m \in Nat /\ n <= m /\ shift \in [Nat -> Int]
      /\ pr.front = At(headers, g, shift, m) /\ pr.slotsUsed = n
  BY FoundCall
<1>2. Indices(headers, g, n, m, ring, shift)
  BY DEF Found
<1>3. PICK z \in Nat \ {0} : z = headers[g].size /\ Header = headers[g]
  <2>1. g \in 1..g
    BY <1>1
  <2>2. headers[g].size \in Nat \ {0, 1}
    BY <1>2, <2>1 DEF Indices, IndexOK
  <2>3. Len(headers) = g
    BY <1>2, ArrayIs DEF Indices
  <2> QED
    BY <2>2, <2>3 DEF Header
<1>4. m - n + k \in Numbers(n, m)
  BY <1>1 DEF Numbers
<1>5. Shows(headers, g, ring, shift, m - n + k)
  BY <1>2, <1>4 DEF Indices
<1>6. (pr.front - pr.slotsUsed + k) % Header.size = At(headers, g, shift, m - n + k)
  <2>1. shift[g] \in Int
    BY <1>1
  <2>2. PICK i \in Int, u \in Int : i = m + shift[g] /\ u = k - n
    BY <1>1, <2>1
  <2>3. ((i % z) + u) % z = (i + u) % z
    BY RingAdd
  <2>4. PICK a \in Int : a = i % z
    <3>1. i % z \in 0..(z - 1)
      BY DivMod
    <3> QED
      BY <3>1
  <2>5. pr.front = a
    BY <1>1, <1>3, <2>2, <2>4 DEF At
  <2>6. a + u = a - n + k /\ i + u = (m - n + k) + shift[g]
    BY <1>1, <2>1, <2>2
  <2>7. (a - n + k) % z = ((m - n + k) + shift[g]) % z
    BY <2>3, <2>4, <2>6
  <2> QED
    BY <1>1, <1>3, <2>5, <2>7 DEF At
<1> QED
  BY <1>3, <1>4, <1>5, <1>6 DEF EntryFrom, Shows

\* Where the first item is that was not dequeued, when it does not begin a block.
LEMMA HalfDequeuedIs ==
  ASSUME NEW n, NEW g, NEW m, NEW ring, NEW shift, Found(n, g, m, ring, shift), CqNumbers,
         headIndex % BLOCK_SIZE # 0, Number(headIndex) \in Numbers(n, m)
  PROVE  HalfDequeued = ring[Number(headIndex)]
<1>1. n \in Nat /\ m \in Nat /\ n <= m /\ headIndex \in Nat
  BY FoundCall DEF CqNumbers
<1>2. PICK h \in Numbers(n, m), s \in Slots :
        h = Number(headIndex) /\ s = headIndex % BLOCK_SIZE /\ Index(h, s) = headIndex
  BY <1>1, NumberIndex
<1>3. h \in Nat /\ m - n <= h /\ h <= m - 1 /\ s > 0 /\ s \in Nat /\ BLOCK_SIZE \in Nat \ {0}
  BY <1>1, <1>2, CqAssumption DEF Numbers, Slots
<1>4. PICK d \in 0..(n - 1) : d = h - (m - n)
  BY <1>1, <1>3
<1>5. \A k \in 0..(n - 1) : Past(k) <=> k < d
  <2> SUFFICES ASSUME NEW k \in 0..(n - 1) PROVE Past(k) <=> k < d
    OBVIOUS
  <2>1. EntryFrom(k).base = Start(m - n + k)
    BY EntryFromIs
  <2>2. PICK j \in Int : j = m - n + k
    BY <1>1
  <2>3. PICK l \in Int, o \in Slots : l = j + 1 /\ o = 0
    BY <1>3 DEF Slots
  <2>4. Start(j) \in Int /\ Start(j) + BLOCK_SIZE = Start(l) /\ Start(l) = Index(l, o)
    BY <2>3, StartOf
  <2>5. Index(l, o) < Index(h, s) <=> l < h \/ (l = h /\ o < s)
    BY <1>3, IndexOrder
  <2>6. Past(k) <=> Index(l, o) < headIndex
    BY <2>1, <2>2, <2>4 DEF Past
  <2>7. (l < h \/ (l = h /\ o < s)) <=> k < d
    BY <1>1, <1>3, <1>4, <2>2, <2>3
  <2> QED
    BY <1>2, <2>5, <2>6, <2>7
<1>6. PICK z \in Nat : z = Header.size /\ n <= z
  <2>1. g \in 1..g /\ Indices(headers, g, n, m, ring, shift)
    BY FoundCall DEF Found
  <2> QED
    BY <2>1, ArrayIs DEF Indices, IndexOK, Header
<1> DEFINE P(k) == ~Past(k) /\ \A j \in 0..(k - 1) : Past(j)
<1>7. d \in 0..z /\ P(d)
  <2>1. d \in 0..z /\ \A j \in 0..(d - 1) : j \in 0..(n - 1) /\ j < d
    BY <1>1, <1>6
  <2> QED
    BY <1>5, <2>1
<1>8. ASSUME NEW k \in 0..z, P(k) PROVE k = d
  <2>1. ASSUME k < d PROVE FALSE
    <3>1. k \in 0..(n - 1)
      BY <1>1, <2>1
    <3> QED
      BY <1>5, <1>8, <2>1, <3>1
  <2>2. ASSUME d < k PROVE FALSE
    <3>1. d \in 0..(k - 1)
      BY <2>2
    <3> QED
      BY <1>7, <1>8, <3>1
  <2> QED
    BY <2>1, <2>2
<1>9. HalfDequeued = EntryFrom(CHOOSE k \in 0..z : P(k)).block
  BY <1>6 DEF HalfDequeued, EntryFrom, Past
<1> HIDE DEF P
<1>10. HalfDequeued = EntryFrom(d).block
  BY <1>7, <1>8, <1>9
<1>11. EntryFrom(d).block = ring[m - n + d]
  BY EntryFromIs
<1>12. m - n + d = h
  BY <1>1, <1>3, <1>4
<1> QED
  BY <1>2, <1>10, <1>11, <1>12

\* No call is under way.
AtRest == Quiescent /\ pr.call.pc = "idle"

\* Then an item is there, and not flagged, exactly from the head to the tail.
LEMMA RestIs ==
  ASSUME NEW n, NEW g, NEW m, NEW ring, NEW shift, Found(n, g, m, ring, shift), CqNumbers, AtRest,
         NEW k \in Numbers(n, m), NEW s \in Slots
  PROVE  /\ k \in Nat /\ ring[k] \in 1..n /\ m = Fresh /\ k < m
         /\ blocks[ring[k]].item[s] # NoItem <=> headIndex <= Index(k, s) /\ Index(k, s) < tailIndex
         /\ blocks[ring[k]].empty[s] <=> Index(k, s) < headIndex
<1>1. /\ k \in Nat /\ Index(k, s) \in Nat /\ ring[k] \in 1..n
      /\ blocks[ring[k]].item[s] = (IF Index(k, s) < Stored /\ ~Gone(Index(k, s)) THEN Index(k, s) ELSE NoItem)
      /\ blocks[ring[k]].empty[s] <=> (k < Opened(m) => Flagged(Index(k, s)))
  BY ItemsOf
<1>2. m \in Nat /\ n \in Nat /\ headIndex \in Nat /\ tailIndex \in Nat
  BY FoundCall DEF CqNumbers
<1>3. m = Fresh /\ k < m
  BY <1>2 DEF AtRest, Found, Enqueue, Numbers
<1>4. Stored = tailIndex /\ Opened(m) = m
  BY DEF AtRest, Stored, Opened
<1>5. \A c \in CqConsumers : Owns(c) = {}
  BY DEF AtRest, Quiescent, AtPc, Owns, LookupPcs
<1>6. \A i : (Gone(i) <=> i < headIndex) /\ (Flagged(i) <=> i < headIndex)
  BY <1>5 DEF Gone, Flagged
<1>7. PICK x \in Nat : x = Index(k, s) /\ x # NoItem
  BY <1>1 DEF NoItem
<1> QED
  BY <1>1, <1>2, <1>3, <1>4, <1>6, <1>7

\* The last part of a block that is not empty is what is left of it.
LEMMA HeadEdge ==
  ASSUME NEW n, NEW g, NEW m, NEW ring, NEW shift, Found(n, g, m, ring, shift), CqNumbers, HeadWithinTail,
         AtRest, NEW k \in Numbers(n, m), NEW s \in Slots
  PROVE  ~IsEmpty(ring[k]) /\ (ring[k] = HalfDequeued => s >= headIndex % BLOCK_SIZE) <=> headIndex <= Index(k, s)
<1>1. k \in Nat /\ ring[k] \in 1..n /\ m = Fresh /\ k < m /\ Ring(blocks, n, m, ring) /\ Kept(n, m)
  BY RestIs DEF Found
<1>2. n \in Nat /\ m \in Nat /\ headIndex \in Nat /\ tailIndex \in Nat /\ headIndex <= tailIndex
  BY FoundCall DEF CqNumbers, HeadWithinTail
<1>3. PICK h \in Nat, u \in Slots : h = Number(headIndex) /\ u = headIndex % BLOCK_SIZE /\ Index(h, u) = headIndex
  BY <1>2, NumberIndex
<1>4. PICK l \in Slots : l = BLOCK_SIZE - 1 /\ \A t \in Slots : t \in Nat /\ t <= l
  BY CqAssumption DEF Slots
<1>5. \A t \in Slots : Index(k, t) \in Int /\ (Index(k, t) < headIndex <=> k < h \/ (k = h /\ t < u))
  <2> SUFFICES ASSUME NEW t \in Slots
               PROVE  Index(k, t) \in Int /\ (Index(k, t) < headIndex <=> k < h \/ (k = h /\ t < u))
    OBVIOUS
  <2>1. Index(k, t) \in Int
    BY <1>1, IndexNumber
  <2>2. Index(k, t) < Index(h, u) <=> k < h \/ (k = h /\ t < u)
    BY <1>1, IndexOrder
  <2> QED
    BY <1>3, <2>1, <2>2
<1>6. ~IsEmpty(ring[k]) <=> h <= k
  <2>1. IsEmpty(ring[k]) <=> \A t \in Slots : Index(k, t) < headIndex
    BY RestIs DEF IsEmpty
  <2>2. ASSUME k < h PROVE \A t \in Slots : Index(k, t) < headIndex
    BY <1>5, <2>2
  <2>3. ASSUME ~(k < h) PROVE ~(Index(k, l) < headIndex)
    <3>1. u <= l /\ u \in Nat /\ l \in Nat
      BY <1>4
    <3>2. ~(l < u)
      BY <3>1
    <3> QED
      BY <1>5, <2>3, <3>2
  <2> QED
    BY <1>1, <1>3, <2>1, <2>2, <2>3
<1>7. headIndex <= Index(k, s) <=> h < k \/ (h = k /\ u <= s)
  <2>1. PICK x \in Int : x = Index(k, s) /\ (x < headIndex <=> k < h \/ (k = h /\ s < u))
    BY <1>5
  <2>2. s \in Nat /\ u \in Nat
    BY <1>4
  <2>3. headIndex <= x <=> ~(x < headIndex)
    BY <1>2
  <2>4. ~(k < h \/ (k = h /\ s < u)) <=> h < k \/ (h = k /\ u <= s)
    BY <1>1, <2>2
  <2> QED
    BY <2>1, <2>3, <2>4
<1>8. CASE u = 0
  <2>1. HalfDequeued = NoBlock
    BY <1>3, <1>8 DEF HalfDequeued
  <2>2. ring[k] # HalfDequeued
    BY <1>1, <1>2, <2>1 DEF NoBlock
  <2>3. u <= s
    BY <1>4, <1>8
  <2>4. h <= k <=> h < k \/ h = k
    BY <1>1
  <2> QED
    BY <1>6, <1>7, <2>2, <2>3, <2>4
<1>9. CASE u # 0
  <2>1. h < Fresh
    <3>1. CASE headIndex = tailIndex
      <4>1. h = Fresh - 1 /\ Fresh \in Nat
        BY <1>3, <1>9, <3>1, FreshIs
      <4> QED
        BY <4>1
    <3>2. CASE headIndex # tailIndex
      <4>1. headIndex < tailIndex /\ headIndex \in Int
        BY <1>2, <3>2
      <4> QED
        BY <1>3, <4>1, FreshIs
    <3> QED
      BY <3>1, <3>2
  <2>2. ~Flagged(headIndex)
    BY <1>2 DEF Flagged
  <2>3. h \in Numbers(n, m)
    BY <1>1, <1>2, <1>3, <2>1, <2>2 DEF Kept
  <2>4. HalfDequeued = ring[h]
    BY <1>3, <1>9, <2>3, HalfDequeuedIs
  <2>5. ring[k] = HalfDequeued <=> k = h
    BY <1>1, <2>3, <2>4 DEF Ring
  <2>6. s >= u <=> u <= s
    OBVIOUS
  <2>7. h <= k <=> h < k \/ h = k
    BY <1>1
  <2>8. h < k => k # h
    BY <1>1
  <2> QED
    BY <1>3, <1>6, <1>7, <2>5, <2>6, <2>7, <2>8
<1> QED
  BY <1>8, <1>9

\* The last block ends at the tail.
LastOf == IF tailIndex % BLOCK_SIZE = 0 THEN BLOCK_SIZE ELSE tailIndex % BLOCK_SIZE

\* Of the last block, only that much is used.
LEMMA TailEdge ==
  ASSUME NEW n, NEW g, NEW m, NEW ring, NEW shift, Found(n, g, m, ring, shift), CqNumbers, AtRest,
         NEW k \in Numbers(n, m), NEW s \in Slots
  PROVE  (ring[k] = pr.tailBlock => s < LastOf) <=> Index(k, s) < tailIndex
<1>1. k \in Nat /\ m = Fresh /\ k < m /\ Ring(blocks, n, m, ring)
  BY RestIs DEF Found
<1>2. n \in Nat /\ m \in Nat /\ tailIndex \in Nat /\ n <= m /\ pr.tailBlock = IF n = 0 THEN NoBlock ELSE ring[m - 1]
  BY FoundCall DEF CqNumbers
<1>3. pr.tailBlock = ring[m - 1] /\ m - 1 \in Numbers(n, m)
  BY <1>1, <1>2 DEF Numbers
<1>4. ring[k] = pr.tailBlock <=> k = m - 1
  BY <1>1, <1>3 DEF Ring
<1>5. PICK h \in Nat, u \in Slots : h = Number(tailIndex) /\ u = tailIndex % BLOCK_SIZE /\ Index(h, u) = tailIndex
  BY <1>2, NumberIndex
<1>6. Index(k, s) < tailIndex <=> k < h \/ (k = h /\ s < u)
  BY <1>1, <1>5, IndexOrder
<1>7. s \in Nat /\ s < BLOCK_SIZE /\ BLOCK_SIZE \in Nat /\ u \in Nat
  BY CqAssumption DEF Slots
<1>8. CASE u = 0
  <2>1. LastOf = BLOCK_SIZE /\ h = m
    BY <1>1, <1>5, <1>8, FreshIs DEF LastOf
  <2> QED
    BY <1>1, <1>6, <1>7, <2>1
<1>9. CASE u # 0
  <2>1. LastOf = u
    BY <1>5, <1>9 DEF LastOf
  <2>2. h = m - 1
    BY <1>1, <1>5, <1>9, FreshIs
  <2>3. k < h \/ k = h
    BY <1>1, <1>2, <2>2
  <2>4. k < h => k # h
    BY <1>1
  <2> QED
    BY <1>4, <1>6, <2>1, <2>2, <2>3, <2>4
<1> QED
  BY <1>8, <1>9

\* The destructor destroys what is left.
LEMMA DestroysLeft == FindInv /\ CqNumbers /\ HeadWithinTail => DestructorExact
<1> SUFFICES ASSUME FindInv, CqNumbers, HeadWithinTail, AtRest PROVE Destroyed = Live
  BY DEF DestructorExact, AtRest, pc
<1>1. PICK n, g, m, ring, shift : Found(n, g, m, ring, shift)
  BY DEF FindInv
<1>2. Ring(blocks, n, m, ring) /\ DOMAIN blocks = 1..n
  BY <1>1, ArrayIs DEF Found, Ring
<1>3. ASSUME NEW b \in 1..n, NEW s \in Slots
      PROVE  /\ ~IsEmpty(b)
             /\ b = HalfDequeued => s >= headIndex % BLOCK_SIZE
             /\ b = pr.tailBlock => s < LastOf
             <=> blocks[b].item[s] # NoItem
  <2>1. PICK k \in Numbers(n, m) : ring[k] = b
    BY <1>2 DEF Ring
  <2>2. ~IsEmpty(b) /\ (b = HalfDequeued => s >= headIndex % BLOCK_SIZE) <=> headIndex <= Index(k, s)
    BY <1>1, <2>1, HeadEdge
  <2>3. (b = pr.tailBlock => s < LastOf) <=> Index(k, s) < tailIndex
    BY <1>1, <2>1, TailEdge
  <2>4. blocks[b].item[s] # NoItem <=> headIndex <= Index(k, s) /\ Index(k, s) < tailIndex
    BY <1>1, <2>1, RestIs
  <2> QED
    BY <2>2, <2>3, <2>4
<1>4. Destroyed = {at \in (1..n) \X Slots :
                     /\ ~IsEmpty(at[1])
                     /\ at[1] = HalfDequeued => at[2] >= headIndex % BLOCK_SIZE
                     /\ at[1] = pr.tailBlock => at[2] < LastOf}
  BY <1>2 DEF Destroyed, LastOf
<1>5. Live = {at \in (1..n) \X Slots : blocks[at[1]].item[at[2]] # NoItem}
  BY <1>2 DEF Live
<1>6. ASSUME NEW at \in (1..n) \X Slots
      PROVE  /\ ~IsEmpty(at[1])
             /\ at[1] = HalfDequeued => at[2] >= headIndex % BLOCK_SIZE
             /\ at[1] = pr.tailBlock => at[2] < LastOf
             <=> blocks[at[1]].item[at[2]] # NoItem
  <2>1. at[1] \in 1..n /\ at[2] \in Slots
    OBVIOUS
  <2> QED
    BY <1>3, <2>1
<1> QED
  BY <1>4, <1>5, <1>6

\* ExplicitProducer: a claimed index leads every consumer to the block that holds the
\* item, through whatever index and front it read; no item is constructed over one that
\* is still there; and the destructor destroys exactly what was not dequeued.
THEOREM CqInvHolds ==
  ASSUME ~BulkMayFail, Unlimited
  PROVE  CqSpec => []CqInv
<1>1. FindInv /\ CountInv => CqInv
  <2> SUFFICES ASSUME FindInv, CountInv PROVE CqInv
    OBVIOUS
  <2>1. CqNumbers /\ HeadWithinTail
    BY CountInvAgrees DEF CountInv, CqKinds, CountsAgree
  <2> QED
    BY <2>1, FoundTypes, FindsItem, PlacesFree, DestroysLeft DEF CqInv
<1> QED
  BY <1>1, FindInvariance, CountInvariance, PTL
=============================================================================
