------------------------ MODULE SelectorCallbacksProofs ------------------------
(***************************************************************************)
(* Proofs about SelectorCallbacks, for any number of threads, any limit on *)
(* the functions run per event and any number of functions.                *)
(***************************************************************************)
EXTENDS SelectorCallbacks, FiniteSetTheorems, SequenceTheorems, TLAPS

USE ThreadsAssumption, BoundsAssumption, KindsAssumption

-----------------------------------------------------------------------------
(* The inductive invariant                                                 *)

(* to_run_mutex_ is held exactly by a thread between the push and the      *)
(* store to have_to_run_, and outside of it the flag tells of the queue.   *)
FlagFollowsQueue ==
    /\ \A t \in Threads : tpc[t] = "flag" <=> lock = t
    /\ to_run # <<>> /\ ~have_to_run => lock # "free"

(* A batch exists only while it is run, and fits under the limit.          *)
BatchFits ==
    /\ batch # <<>> => lpc = "run"
    /\ run_count + num_run + Len(batch) <= MaxPerEvent

(* A thread inside Stop() is the only one, has taken thread_ away, and     *)
(* is_started_ stays set for as long as it is there; without it no thread  *)
(* is in the loop.                                                         *)
OneStop ==
    /\ \A t \in Threads :
        /\ tpc[t] \in {"exit", "join"} => stopping[t]
        /\ tpc[t] = "idle" => ~stopping[t]
        /\ stopping[t] => is_started /\ ~thread
        /\ \A u \in Threads : stopping[t] /\ stopping[u] => t = u
    /\ thread => is_started
    /\ ~is_started => lpc = "off"

(* There is a function left to name for a Stop() under way.                *)
PlaceKept == (\E t \in Threads : tpc[t] = "exit") => next_id < MaxCallbacks

(* Whatever was queued before a function was run or is in front of it.     *)
QueuedInOrder ==
    /\ \A j \in 1 .. Len(batch) : \A k \in 1 .. batch[j].id - 1 :
        k \in ran \/ \E i \in 1 .. j - 1 : batch[i].id = k
    /\ \A j \in 1 .. Len(to_run) : \A k \in 1 .. to_run[j].id - 1 :
        k \in ran \/ k \in Ids(batch) \/ \E i \in 1 .. j - 1 : to_run[i].id = k

CallbacksIInv ==
    /\ CallbacksInv
    /\ FlagFollowsQueue
    /\ BatchFits
    /\ OneStop
    /\ PlaceKept
    /\ QueuedInOrder
    /\ NoLostWakeup

-----------------------------------------------------------------------------
(* Lemmas on the operators                                                 *)

(* emplace_back adds one function to those queued.                         *)
LEMMA IdsAppend ==
  ASSUME NEW S, NEW s \in Seq(S), NEW e \in S
  PROVE  /\ Append(s, e) \in Seq(S) /\ Len(Append(s, e)) = Len(s) + 1
         /\ \A i \in 1 .. Len(s) : Append(s, e)[i] = s[i]
         /\ Append(s, e)[Len(s) + 1] = e
         /\ Ids(Append(s, e)) = Ids(s) \cup {e.id}
<1>1. /\ Append(s, e) \in Seq(S) /\ Len(Append(s, e)) = Len(s) + 1
      /\ \A i \in 1 .. Len(s) : Append(s, e)[i] = s[i]
      /\ Append(s, e)[Len(s) + 1] = e
      /\ DOMAIN s = 1 .. Len(s)
      /\ DOMAIN Append(s, e) = 1 .. Len(s) + 1
      /\ Len(s) \in Nat
  OBVIOUS
<1>2. DOMAIN Append(s, e) = DOMAIN s \cup {Len(s) + 1}
  BY <1>1
<1>3. Ids(Append(s, e)) = Ids(s) \cup {e.id}
  BY <1>1, <1>2 DEF Ids
<1>4. QED
  BY <1>1, <1>3

(* pop_front takes the first function and leaves the others in order.      *)
LEMMA IdsTail ==
  ASSUME NEW S, NEW s \in Seq(S), s # <<>>
  PROVE  /\ Head(s) \in S /\ Head(s) = s[1]
         /\ Tail(s) \in Seq(S) /\ Len(s) \in Nat \ {0} /\ Len(Tail(s)) = Len(s) - 1
         /\ \A i \in 1 .. Len(s) - 1 : Tail(s)[i] = s[i + 1]
         /\ Ids(s) = Ids(Tail(s)) \cup {Head(s).id}
<1>1. /\ Head(s) \in S /\ Head(s) = s[1]
      /\ Tail(s) \in Seq(S) /\ Len(s) \in Nat \ {0} /\ Len(Tail(s)) = Len(s) - 1
      /\ \A i \in 1 .. Len(s) - 1 : Tail(s)[i] = s[i + 1]
      /\ DOMAIN s = 1 .. Len(s) /\ DOMAIN Tail(s) = 1 .. Len(s) - 1
  OBVIOUS
<1>2. \A i \in DOMAIN s : i = 1 \/ (i - 1 \in DOMAIN Tail(s) /\ s[i] = Tail(s)[i - 1])
  BY <1>1
<1>3. \A i \in DOMAIN Tail(s) : i + 1 \in DOMAIN s
  BY <1>1
<1>4. Ids(s) = Ids(Tail(s)) \cup {Head(s).id}
  BY <1>1, <1>2, <1>3 DEF Ids
<1>5. QED
  BY <1>1, <1>4

(* What is left of a queue once n elements were taken.                     *)
LEMMA SuffixProperties ==
  ASSUME NEW S, NEW s \in Seq(S), NEW n \in 0 .. Len(s)
  PROVE  /\ SubSeq(s, n + 1, Len(s)) \in Seq(S)
         /\ Len(SubSeq(s, n + 1, Len(s))) = Len(s) - n
         /\ \A i \in 1 .. Len(s) - n : SubSeq(s, n + 1, Len(s))[i] = s[n + i]
<1> DEFINE m == n + 1
<1>1. m \in Int /\ 1 <= m /\ m <= Len(s) + 1 /\ Len(s) - m + 1 = Len(s) - n
  OBVIOUS
<1>2. \A i \in 1 .. Len(s) - n : m + i - 1 = n + i
  OBVIOUS
<1> HIDE DEF m
<1>3. Len(s) \in Int /\ \A i \in m .. Len(s) : s[i] \in S
  BY <1>1
<1>4. /\ SubSeq(s, m, Len(s)) \in Seq(S)
      /\ Len(SubSeq(s, m, Len(s))) = IF m <= Len(s) THEN Len(s) - m + 1 ELSE 0
      /\ \A i \in 1 .. Len(s) - m + 1 : SubSeq(s, m, Len(s))[i] = s[m + i - 1]
  BY <1>1, <1>3, SubSeqProperties
<1>5. ~(m <= Len(s)) => Len(s) - m + 1 = 0
  BY <1>1, <1>3
<1>6. Len(SubSeq(s, m, Len(s))) = Len(s) - m + 1
  BY <1>4, <1>5
<1>7. /\ SubSeq(s, m, Len(s)) \in Seq(S)
      /\ Len(SubSeq(s, m, Len(s))) = Len(s) - n
      /\ \A i \in 1 .. Len(s) - n : SubSeq(s, m, Len(s))[i] = s[n + i]
  BY <1>1, <1>2, <1>4, <1>6, Zenon
<1>8. QED
  BY <1>7, Zenon DEF m

(* Cutting the queue in two loses no function.                             *)
LEMMA IdsSplit ==
  ASSUME NEW S, NEW s \in Seq(S), NEW n \in 0 .. Len(s)
  PROVE  LET a == SubSeq(s, 1, n)
             b == SubSeq(s, n + 1, Len(s))
         IN  /\ a \in Seq(S) /\ Len(a) = n /\ \A i \in 1 .. n : a[i] = s[i]
             /\ b \in Seq(S) /\ Len(b) = Len(s) - n
             /\ \A i \in 1 .. Len(s) - n : b[i] = s[n + i]
             /\ Ids(s) = Ids(a) \cup Ids(b)
<1> DEFINE a == SubSeq(s, 1, n)
           b == SubSeq(s, n + 1, Len(s))
<1>0. Len(s) \in Nat /\ DOMAIN s = 1 .. Len(s)
  OBVIOUS
<1>1. a \in Seq(S) /\ Len(a) = n /\ DOMAIN a = 1 .. n /\ \A i \in 1 .. n : a[i] = s[i]
  BY <1>0
<1>2. /\ b \in Seq(S) /\ Len(b) = Len(s) - n
      /\ \A i \in 1 .. Len(s) - n : b[i] = s[n + i]
  BY SuffixProperties, Zenon
<1> HIDE DEF a, b
<1>3. \A i \in DOMAIN s : \/ i \in DOMAIN a /\ s[i] = a[i]
                          \/ i - n \in DOMAIN b /\ s[i] = b[i - n]
  <2>1. \A i \in n + 1 .. Len(s) : i - n \in 1 .. Len(s) - n /\ n + (i - n) = i
    BY <1>0
  <2>2. \A i \in DOMAIN s : i \in 1 .. n \/ i \in n + 1 .. Len(s)
    BY <1>0
  <2>3. QED
    BY <1>1, <1>2, <2>1, <2>2
<1>4. DOMAIN b = 1 .. Len(s) - n
  BY <1>0, <1>2
<1>5. /\ \A i \in DOMAIN a : i \in DOMAIN s
      /\ \A i \in DOMAIN b : i + n \in DOMAIN s /\ b[i] = s[i + n]
  BY <1>0, <1>1, <1>2, <1>4
<1>6. Ids(s) = Ids(a) \cup Ids(b)
  BY <1>1, <1>3, <1>5 DEF Ids
<1>7. QED
  BY <1>1, <1>2, <1>6, Zenon DEF a, b

(* The place counted for the one Stop() under way.                         *)
LEMMA RoomFacts ==
  ASSUME CallbacksTypeOK, OneStop, Room
  PROVE  /\ next_id < MaxCallbacks
         /\ (\E t \in Threads : tpc[t] = "exit") => next_id + 1 < MaxCallbacks
<1> DEFINE E == {t \in Threads : tpc[t] = "exit"}
<1>1. CASE E = {}
  <2>1. Cardinality(E) = 0
    BY <1>1, FS_EmptySet
  <2>2. QED
    BY <1>1, <2>1 DEF Room, CallbacksTypeOK
<1>2. ASSUME NEW t \in E PROVE E = {t}
  BY DEF OneStop
<1>3. CASE E # {}
  <2>1. PICK t : E = {t}
    BY <1>2, <1>3
  <2>2. Cardinality(E) = 1
    BY <2>1, FS_Singleton
  <2>3. QED
    BY <2>2 DEF Room, CallbacksTypeOK
<1>4. QED
  BY <1>1, <1>3

-----------------------------------------------------------------------------
(* The invariant holds initially                                           *)

LEMMA CallbacksInitIInv == CallbacksInit => CallbacksIInv
<1> SUFFICES ASSUME CallbacksInit PROVE CallbacksIInv
  OBVIOUS
<1> USE DEF CallbacksInit
<1>1. CallbacksTypeOK
  <2>1. <<>> \in Seq(Callbacks) /\ 0 \in 0 .. MaxPerEvent /\ 0 \in 0 .. MaxCallbacks
    OBVIOUS
  <2>2. 0 \in 0 .. MaxFailures
    OBVIOUS
  <2>3. QED
    BY <2>1, <2>2 DEF CallbacksTypeOK, LoopSteps
<1>2. NoCallbackLost /\ RunInOrder
  BY DEF NoCallbackLost, RunInOrder, Ids
<1>3. FlagFollowsQueue
  BY DEF FlagFollowsQueue
<1>4. BatchFits /\ OneStop /\ PlaceKept /\ QueuedInOrder /\ NoLostWakeup
  BY DEF BatchFits, OneStop, PlaceKept, QueuedInOrder, NoLostWakeup
<1>5. QED
  BY <1>1, <1>2, <1>3, <1>4 DEF CallbacksIInv, CallbacksInv

-----------------------------------------------------------------------------
(* Every step preserves it                                                 *)

(* RunInSelectLoop and MakeLoopExit queue a function under the mutex: it   *)
(* is the last one, nothing queued before it is overtaken, and the thread  *)
(* that holds the mutex is the one about to set the flag.                  *)
LEMMA PushKeeps ==
  ASSUME CallbacksIInv, NEW t \in Threads, NEW kind \in {"plain", "again", "exit"},
         tpc[t] \in {"idle", "exit"}, next_id < MaxCallbacks,
         \A u \in Threads \ {t} : tpc[u] = "exit" => next_id + 1 < MaxCallbacks,
         Push(t, kind), UNCHANGED stopping
  PROVE  CallbacksIInv'
<1> DEFINE f == [id |-> next_id + 1, kind |-> kind]
<1> USE DEF CallbacksIInv, CallbacksInv, Push, loop, owner
<1>1. f \in Callbacks /\ next_id + 1 \in 1 .. MaxCallbacks /\ next_id \in Nat
  BY DEF Callbacks, CallbacksTypeOK
<1>2. /\ to_run' \in Seq(Callbacks) /\ Len(to_run') = Len(to_run) + 1
      /\ \A i \in 1 .. Len(to_run) : to_run'[i] = to_run[i]
      /\ to_run'[Len(to_run) + 1] = f
      /\ Ids(to_run') = Ids(to_run) \cup {next_id + 1}
      /\ Len(to_run) \in Nat
  <2>1. to_run \in Seq(Callbacks) /\ to_run' = Append(to_run, f)
    BY DEF CallbacksTypeOK
  <2>2. f.id = next_id + 1
    OBVIOUS
  <2> HIDE DEF f
  <2>3. QED
    BY <1>1, <2>1, <2>2, IdsAppend
<1>3. CallbacksTypeOK'
  BY <1>1, <1>2 DEF CallbacksTypeOK
<1>4. NoCallbackLost' /\ RunInOrder'
  <2>1. 1 .. next_id + 1 = (1 .. next_id) \cup {next_id + 1}
    BY <1>1
  <2>2. Ids(batch') = Ids(batch)
    OBVIOUS
  <2>3. QED
    BY <1>2, <2>1, <2>2 DEF NoCallbackLost, RunInOrder
<1>5. FlagFollowsQueue'
  BY DEF FlagFollowsQueue, CallbacksTypeOK
<1>6. BatchFits' /\ OneStop' /\ PlaceKept'
  BY <1>1 DEF BatchFits, OneStop, PlaceKept, CallbacksTypeOK
<1>7. QueuedInOrder'
  <2>1. Ids(batch') = Ids(batch) /\ ran' = ran /\ batch' = batch
    OBVIOUS
  <2>2. ASSUME NEW j \in 1 .. Len(to_run'), NEW k \in 1 .. to_run'[j].id - 1
        PROVE  k \in ran \/ k \in Ids(batch) \/ \E i \in 1 .. j - 1 : to_run'[i].id = k
    <3>1. CASE j \in 1 .. Len(to_run)
      <4>1. k \in 1 .. to_run[j].id - 1
        BY <1>2, <3>1
      <4>2. \/ k \in ran \/ k \in Ids(batch)
            \/ \E i \in 1 .. j - 1 : to_run[i].id = k
        BY <3>1, <4>1 DEF QueuedInOrder
      <4>3. \A i \in 1 .. j - 1 : to_run'[i] = to_run[i]
        BY <1>2, <3>1
      <4>4. QED
        BY <4>2, <4>3
    <3>2. CASE j = Len(to_run) + 1
      <4>1. k \in 1 .. next_id
        BY <1>1, <1>2, <3>2
      <4>2. CASE k \in Ids(to_run)
        <5>1. PICK i \in DOMAIN to_run : to_run[i].id = k
          BY <4>2 DEF Ids
        <5>2. i \in 1 .. Len(to_run)
          BY DEF CallbacksTypeOK
        <5>3. QED
          BY <1>2, <3>2, <5>1, <5>2
      <4>3. QED
        BY <4>1, <4>2 DEF NoCallbackLost
    <3>3. QED
      BY <1>2, <3>1, <3>2
  <2>3. QED
    BY <2>1, <2>2 DEF QueuedInOrder
<1>8. NoLostWakeup'
  BY DEF NoLostWakeup, CallbacksTypeOK
<1>9. QED
  BY <1>3, <1>4, <1>5, <1>6, <1>7, <1>8

(* PopCallbacks cuts the queue in two: the batch fits under the limit, the *)
(* rest stays in order behind it, and the flag stays set for the rest.     *)
LEMMA PopKeeps ==
  ASSUME CallbacksIInv, PopCallbacks
  PROVE  CallbacksIInv'
<1> DEFINE room == MaxPerEvent - run_count
           n == IF Len(to_run) < room THEN Len(to_run) ELSE room
<1> USE DEF CallbacksIInv, CallbacksInv
<1>1. /\ lpc = "pop" /\ lock = "free"
      /\ batch' = SubSeq(to_run, 1, n) /\ to_run' = SubSeq(to_run, n + 1, Len(to_run))
      /\ have_to_run' = (to_run' # <<>>) /\ num_run' = 0 /\ lpc' = "run"
      /\ UNCHANGED <<lock, signalled, should_end, tid, zero_timeout, run_count,
                     callers, owner, hist, failures>>
  BY DEF PopCallbacks
<1>2. n \in 0 .. Len(to_run) /\ n <= room /\ Len(to_run) \in Nat
  BY DEF CallbacksTypeOK
<1> HIDE DEF n
<1>3. /\ batch' \in Seq(Callbacks) /\ Len(batch') = n
      /\ \A i \in 1 .. n : batch'[i] = to_run[i]
      /\ to_run' \in Seq(Callbacks) /\ Len(to_run') = Len(to_run) - n
      /\ \A i \in 1 .. Len(to_run) - n : to_run'[i] = to_run[n + i]
      /\ Ids(to_run) = Ids(batch') \cup Ids(to_run')
  <2>1. to_run \in Seq(Callbacks)
    BY DEF CallbacksTypeOK
  <2>2. LET a == SubSeq(to_run, 1, n)
            b == SubSeq(to_run, n + 1, Len(to_run))
        IN  /\ a \in Seq(Callbacks) /\ Len(a) = n /\ \A i \in 1 .. n : a[i] = to_run[i]
            /\ b \in Seq(Callbacks) /\ Len(b) = Len(to_run) - n
            /\ \A i \in 1 .. Len(to_run) - n : b[i] = to_run[n + i]
            /\ Ids(to_run) = Ids(a) \cup Ids(b)
    BY <1>2, <2>1, IdsSplit
  <2>3. QED
    BY <1>1, <2>2, Zenon
<1>4. batch = <<>> /\ Ids(batch) = {}
  BY <1>1 DEF BatchFits, Ids
<1>5. CallbacksTypeOK'
  <2>1. 0 \in 0 .. MaxPerEvent /\ have_to_run' \in BOOLEAN
    BY <1>1
  <2>2. QED
    BY <1>1, <1>3, <2>1 DEF CallbacksTypeOK, callers, owner, hist, LoopSteps
<1>6. NoCallbackLost' /\ RunInOrder'
  BY <1>1, <1>3, <1>4 DEF NoCallbackLost, RunInOrder, hist
<1>7. FlagFollowsQueue'
  BY <1>1 DEF FlagFollowsQueue, callers
<1>8. BatchFits'
  BY <1>1, <1>2, <1>3 DEF BatchFits, CallbacksTypeOK
<1>9. OneStop' /\ PlaceKept'
  BY <1>1 DEF OneStop, PlaceKept, callers, owner, hist
<1>10. QueuedInOrder'
  <2>1. \A j \in 1 .. Len(to_run) : \A k \in 1 .. to_run[j].id - 1 :
          k \in ran \/ \E i \in 1 .. j - 1 : to_run[i].id = k
    BY <1>4 DEF QueuedInOrder
  <2>2. ASSUME NEW j \in 1 .. n, NEW k \in 1 .. batch'[j].id - 1
        PROVE  k \in ran \/ \E i \in 1 .. j - 1 : batch'[i].id = k
    <3>1. j \in 1 .. Len(to_run) /\ \A i \in 1 .. j - 1 : i \in 1 .. n
      BY <1>2
    <3>2. batch'[j] = to_run[j] /\ \A i \in 1 .. j - 1 : batch'[i] = to_run[i]
      BY <1>3, <3>1
    <3>3. k \in 1 .. to_run[j].id - 1
      BY <3>2
    <3>4. QED
      BY <2>1, <3>1, <3>2, <3>3
  <2>3. ASSUME NEW j \in 1 .. Len(to_run'), NEW k \in 1 .. to_run'[j].id - 1, k \notin ran
        PROVE  k \in Ids(batch') \/ \E i \in 1 .. j - 1 : to_run'[i].id = k
    <3>1. n + j \in 1 .. Len(to_run) /\ to_run'[j] = to_run[n + j]
      BY <1>2, <1>3
    <3>2. PICK i \in 1 .. n + j - 1 : to_run[i].id = k
      <4>1. PICK m : m = n + j
        OBVIOUS
      <4>2. m \in 1 .. Len(to_run) /\ k \in 1 .. to_run[m].id - 1
        BY <3>1, <4>1
      <4>3. \E i \in 1 .. m - 1 : to_run[i].id = k
        BY <2>1, <2>3, <4>2
      <4>4. QED
        BY <1>2, <4>1, <4>3
    <3>3. CASE i <= n
      <4>1. i \in DOMAIN batch' /\ batch'[i].id = k
        BY <1>2, <1>3, <3>2, <3>3
      <4>2. QED
        BY <4>1 DEF Ids
    <3>4. CASE ~(i <= n)
      <4>1. i - n \in 1 .. j - 1 /\ i - n \in 1 .. Len(to_run) - n /\ n + (i - n) = i
        BY <1>2, <1>3, <3>4
      <4>2. to_run'[i - n].id = k
        BY <1>3, <3>2, <4>1
      <4>3. QED
        BY <4>1, <4>2
    <3>5. QED
      BY <3>3, <3>4
  <2>4. ran' = ran /\ Len(batch') = n
    BY <1>1, <1>3 DEF hist
  <2>5. QED
    BY <2>2, <2>3, <2>4, Zenon DEF QueuedInOrder
<1>11. NoLostWakeup'
  BY <1>1 DEF NoLostWakeup
<1>12. QED
  BY <1>5, <1>6, <1>7, <1>8, <1>9, <1>10, <1>11

(* Running the first function of a batch: everything queued before it was  *)
(* run, and a function that queues itself again is not lost.               *)
LEMMA RunOneKeeps ==
  ASSUME CallbacksIInv, RunOne
  PROVE  CallbacksIInv'
<1> DEFINE f == Head(batch)
<1> USE DEF CallbacksIInv, CallbacksInv
<1>1. /\ lpc = "run" /\ batch # <<>>
      /\ ran' = ran \cup {f.id}
      /\ should_end' = (should_end \/ f.kind = "exit")
      /\ f.kind = "again" => lock = "free"
      /\ to_run' = IF f.kind = "again" THEN Append(to_run, f) ELSE to_run
      /\ have_to_run' = (have_to_run \/ f.kind = "again")
      /\ batch' = Tail(batch) /\ num_run' = num_run + 1
      /\ UNCHANGED <<lock, signalled, tid, lpc, zero_timeout, run_count, callers,
                     owner, next_id, failures>>
  BY DEF RunOne
<1>2. /\ f \in Callbacks /\ f = batch[1]
      /\ batch' \in Seq(Callbacks) /\ Len(batch) \in Nat \ {0} /\ Len(batch') = Len(batch) - 1
      /\ \A i \in 1 .. Len(batch) - 1 : batch'[i] = batch[i + 1]
      /\ Ids(batch) = Ids(batch') \cup {f.id}
  <2>1. batch \in Seq(Callbacks) /\ batch # <<>> /\ batch' = Tail(batch)
    BY <1>1 DEF CallbacksTypeOK
  <2>2. QED
    BY <2>1, IdsTail
<1>3. f.id \in 1 .. MaxCallbacks /\ f.id \in Int
  BY <1>2 DEF Callbacks
<1> HIDE DEF f
<1>4. /\ to_run' \in Seq(Callbacks) /\ Len(to_run') \in Nat /\ Len(to_run) \in Nat
      /\ Ids(to_run') = IF f.kind = "again" THEN Ids(to_run) \cup {f.id} ELSE Ids(to_run)
      /\ Len(to_run') = IF f.kind = "again" THEN Len(to_run) + 1 ELSE Len(to_run)
      /\ \A i \in 1 .. Len(to_run) : to_run'[i] = to_run[i]
      /\ f.kind = "again" => to_run'[Len(to_run) + 1] = f
  <2>1. to_run \in Seq(Callbacks) /\ Len(to_run) \in Nat
    BY DEF CallbacksTypeOK
  <2>2. CASE f.kind = "again"
    BY <1>1, <1>2, <2>1, <2>2, IdsAppend
  <2>3. CASE f.kind # "again"
    BY <1>1, <2>1, <2>3
  <2>4. QED
    BY <2>2, <2>3
<1>5. \A k \in 1 .. f.id - 1 : k \in ran
  <2>1. 1 \in 1 .. Len(batch)
    BY <1>2
  <2>2. \A k \in 1 .. batch[1].id - 1 : k \in ran \/ \E i \in 1 .. 1 - 1 : batch[i].id = k
    BY <2>1 DEF QueuedInOrder
  <2>3. QED
    BY <1>2, <2>2
<1>6. CallbacksTypeOK'
  <2>1. num_run + 1 \in 0 .. MaxPerEvent
    BY <1>2 DEF BatchFits, CallbacksTypeOK
  <2>2. ran' \subseteq 1 .. MaxCallbacks
    BY <1>1, <1>3 DEF CallbacksTypeOK
  <2>3. should_end' \in BOOLEAN /\ have_to_run' \in BOOLEAN
    BY <1>1
  <2>4. QED
    BY <1>1, <1>2, <1>4, <2>1, <2>2, <2>3 DEF CallbacksTypeOK, callers, owner
<1>7. NoCallbackLost'
  BY <1>1, <1>2, <1>4 DEF NoCallbackLost
<1>8. RunInOrder'
  <2>1. ASSUME NEW i \in ran', NEW j \in 1 .. i PROVE j \in ran'
    <3>1. CASE i \in ran
      BY <1>1, <3>1 DEF RunInOrder
    <3>2. CASE i = f.id
      BY <1>1, <1>3, <1>5, <3>2
    <3>3. QED
      BY <1>1, <3>1, <3>2
  <2>2. QED
    BY <2>1 DEF RunInOrder
<1>9. FlagFollowsQueue'
  BY <1>1 DEF FlagFollowsQueue, callers
<1>10. BatchFits' /\ NoLostWakeup'
  BY <1>1, <1>2 DEF BatchFits, NoLostWakeup, CallbacksTypeOK
<1>11. OneStop' /\ PlaceKept'
  BY <1>1 DEF OneStop, PlaceKept, callers, owner
<1>12. QueuedInOrder'
  <2>1. ASSUME NEW j \in 1 .. Len(batch'), NEW k \in 1 .. batch'[j].id - 1, k \notin ran'
        PROVE  \E i \in 1 .. j - 1 : batch'[i].id = k
    <3>1. j \in 1 .. Len(batch) - 1 /\ j + 1 \in 1 .. Len(batch) /\ batch'[j] = batch[j + 1]
      BY <1>2
    <3>2. k \in 1 .. batch[j + 1].id - 1 /\ k \notin ran /\ k # f.id
      BY <1>1, <2>1, <3>1
    <3>3. PICK i \in 1 .. (j + 1) - 1 : batch[i].id = k
      BY <3>1, <3>2 DEF QueuedInOrder
    <3>4. i # 1
      BY <1>2, <3>2, <3>3
    <3>5. i - 1 \in 1 .. j - 1 /\ i - 1 \in 1 .. Len(batch) - 1 /\ (i - 1) + 1 = i
      BY <3>1, <3>4
    <3>6. batch'[i - 1].id = k
      BY <1>2, <3>3, <3>5
    <3>7. QED
      BY <3>5, <3>6
  <2>2. ASSUME NEW j \in 1 .. Len(to_run'), NEW k \in 1 .. to_run'[j].id - 1, k \notin ran'
        PROVE  k \in Ids(batch') \/ \E i \in 1 .. j - 1 : to_run'[i].id = k
    <3>1. CASE j \in 1 .. Len(to_run)
      <4>1. k \in 1 .. to_run[j].id - 1 /\ k \notin ran /\ k # f.id
        BY <1>1, <1>4, <2>2, <3>1
      <4>2. k \in Ids(batch) \/ \E i \in 1 .. j - 1 : to_run[i].id = k
        BY <3>1, <4>1 DEF QueuedInOrder
      <4>3. \A i \in 1 .. j - 1 : to_run'[i] = to_run[i]
        BY <1>4, <3>1
      <4>4. QED
        BY <1>2, <4>1, <4>2, <4>3
    <3>2. CASE j \notin 1 .. Len(to_run)
      <4>1. f.kind = "again" /\ to_run'[j] = f
        BY <1>4, <3>2
      <4>2. QED
        BY <1>1, <1>5, <2>2, <4>1
    <3>3. QED
      BY <3>1, <3>2
  <2>3. QED
    BY <2>1, <2>2 DEF QueuedInOrder
<1>13. QED
  BY <1>6, <1>7, <1>8, <1>9, <1>10, <1>11, <1>12

(* A step that neither queues nor takes nor runs a function changes        *)
(* nothing about their order.                                              *)
LEMMA OrderKept ==
  ASSUME CallbacksIInv, UNCHANGED <<to_run, batch, ran, next_id>>
  PROVE  NoCallbackLost' /\ RunInOrder' /\ QueuedInOrder'
  BY DEF CallbacksIInv, CallbacksInv, NoCallbackLost, RunInOrder, QueuedInOrder, Ids

(* The steps of the other threads between the push and the end of a call.  *)
LEMMA CallerKeeps ==
  ASSUME CallbacksIInv, NEW t \in Threads, CallerStep(t)
  PROVE  CallbacksIInv'
<1> USE DEF CallbacksIInv, CallbacksInv, queue, loop, owner, hist
<1>1. CASE SetFlag(t)
  <2>1. CallbacksTypeOK'
    BY <1>1 DEF SetFlag, CallbacksTypeOK
  <2>2. FlagFollowsQueue' /\ NoLostWakeup'
    BY <1>1 DEF SetFlag, FlagFollowsQueue, NoLostWakeup, CallbacksTypeOK
  <2>3. BatchFits' /\ OneStop' /\ PlaceKept'
    BY <1>1 DEF SetFlag, BatchFits, OneStop, PlaceKept, CallbacksTypeOK
  <2>4. QED
    BY <1>1, <2>1, <2>2, <2>3, OrderKept DEF SetFlag
<1>2. CASE SendWakeSignal(t)
  <2>1. CallbacksTypeOK'
    BY <1>2 DEF SendWakeSignal, CallbacksTypeOK
  <2>2. FlagFollowsQueue' /\ NoLostWakeup'
    BY <1>2 DEF SendWakeSignal, FlagFollowsQueue, NoLostWakeup, CallbacksTypeOK
  <2>3. BatchFits' /\ OneStop' /\ PlaceKept'
    BY <1>2 DEF SendWakeSignal, BatchFits, OneStop, PlaceKept, CallbacksTypeOK
  <2>4. QED
    BY <1>2, <2>1, <2>2, <2>3, OrderKept DEF SendWakeSignal
<1>3. CASE MakeLoopExit(t)
  <2>1. next_id < MaxCallbacks
    BY <1>3 DEF MakeLoopExit, PlaceKept
  <2>2. \A u \in Threads \ {t} : tpc[u] # "exit"
    BY <1>3 DEF MakeLoopExit, OneStop
  <2>3. QED
    BY <1>3, <2>1, <2>2, PushKeeps DEF MakeLoopExit
<1>4. CASE StopJoin(t)
  <2>1. CallbacksTypeOK'
    BY <1>4 DEF StopJoin, CallbacksTypeOK
  <2>2. FlagFollowsQueue' /\ NoLostWakeup'
    BY <1>4 DEF StopJoin, FlagFollowsQueue, NoLostWakeup, CallbacksTypeOK
  <2>3. BatchFits' /\ PlaceKept'
    BY <1>4 DEF StopJoin, BatchFits, PlaceKept, CallbacksTypeOK
  <2>4. OneStop'
    BY <1>4 DEF StopJoin, OneStop, CallbacksTypeOK
  <2>5. QED
    BY <1>4, <2>1, <2>2, <2>3, <2>4, OrderKept DEF StopJoin
<1>5. QED
  BY <1>1, <1>2, <1>3, <1>4 DEF CallerStep

(* The calls that threads may make: RunInSelectLoop, Start and Stop.       *)
LEMMA CallsKeep ==
  ASSUME CallbacksIInv, NEW t \in Threads
  PROVE  /\ \A k \in Kinds : RunInSelectLoop(t, k) => CallbacksIInv'
         /\ Start(t) \/ StopTakeThread(t) => CallbacksIInv'
<1> USE DEF CallbacksIInv, CallbacksInv, queue, loop, callers, owner, hist
<1>1. ASSUME NEW k \in Kinds, RunInSelectLoop(t, k) PROVE CallbacksIInv'
  <2>1. next_id < MaxCallbacks
    BY <1>1, RoomFacts DEF RunInSelectLoop
  <2>2. \A u \in Threads \ {t} : tpc[u] = "exit" => next_id + 1 < MaxCallbacks
    BY <1>1, RoomFacts DEF RunInSelectLoop
  <2>3. QED
    BY <1>1, <2>1, <2>2, PushKeeps DEF RunInSelectLoop
<1>2. CASE Start(t)
  <2>1. CallbacksTypeOK'
    BY <1>2 DEF Start, CallbacksTypeOK, LoopSteps
  <2>2. FlagFollowsQueue' /\ NoLostWakeup' /\ BatchFits' /\ PlaceKept'
    BY <1>2 DEF Start, FlagFollowsQueue, NoLostWakeup, BatchFits, PlaceKept, OneStop,
                CallbacksTypeOK
  <2>3. OneStop'
    BY <1>2 DEF Start, OneStop, CallbacksTypeOK
  <2>4. QED
    BY <1>2, <2>1, <2>2, <2>3, OrderKept DEF Start
<1>3. CASE StopTakeThread(t)
  <2>1. CallbacksTypeOK'
    BY <1>3 DEF StopTakeThread, CallbacksTypeOK
  <2>2. FlagFollowsQueue' /\ NoLostWakeup' /\ BatchFits'
    BY <1>3 DEF StopTakeThread, FlagFollowsQueue, NoLostWakeup, BatchFits, CallbacksTypeOK
  <2>3. OneStop'
    BY <1>3 DEF StopTakeThread, OneStop, CallbacksTypeOK
  <2>4. PlaceKept'
    BY <1>3, RoomFacts DEF StopTakeThread, PlaceKept
  <2>5. QED
    BY <1>3, <2>1, <2>2, <2>3, <2>4, OrderKept DEF StopTakeThread
<1>4. QED
  BY <1>1, <1>2, <1>3

(* The steps of the loop that take no function from the queue and run none. *)
LEMMA QuietLoopKeeps ==
  ASSUME CallbacksIInv,
         \/ LoopBegin \/ LoopSetTid \/ LoopTop \/ LoopTimeout \/ LoopStep
         \/ TestCallbacks \/ ClearSignalFd \/ RunCallbacksEnd \/ LoopClose
         \/ LoopStepFails
  PROVE  CallbacksIInv'
<1> USE DEF CallbacksIInv, CallbacksInv, queue, callers, owner, hist
<1>1. UNCHANGED <<to_run, batch, ran, next_id, have_to_run, lock, tpc, stopping, thread,
                  is_started>>
  BY DEF LoopBegin, LoopSetTid, LoopTop, LoopTimeout, LoopStep, TestCallbacks,
         ClearSignalFd, RunCallbacksEnd, LoopClose, LoopStepFails
<1>2. FlagFollowsQueue' /\ PlaceKept'
  BY <1>1 DEF FlagFollowsQueue, PlaceKept
<1>3. NoCallbackLost' /\ RunInOrder' /\ QueuedInOrder'
  BY <1>1, OrderKept
<1>4. OneStop'
  BY <1>1 DEF OneStop, LoopBegin, LoopSetTid, LoopTop, LoopTimeout, LoopStep,
         TestCallbacks, ClearSignalFd, RunCallbacksEnd, LoopClose, LoopStepFails
<1>5. CASE LoopBegin \/ LoopSetTid \/ LoopTop \/ TestCallbacks \/ ClearSignalFd
  <2>1. CallbacksTypeOK'
    BY <1>5 DEF CallbacksTypeOK, LoopSteps, LoopBegin, LoopSetTid, LoopTop,
                TestCallbacks, ClearSignalFd
  <2>2. BatchFits' /\ NoLostWakeup'
    BY <1>5 DEF CallbacksTypeOK, BatchFits, NoLostWakeup, LoopBegin, LoopSetTid, LoopTop,
                TestCallbacks, ClearSignalFd
  <2>3. QED
    BY <1>2, <1>3, <1>4, <2>1, <2>2
<1>6. CASE LoopTimeout
  <2>1. CallbacksTypeOK' /\ BatchFits'
    BY <1>6 DEF CallbacksTypeOK, BatchFits, LoopSteps, LoopTimeout
  <2>2. NoLostWakeup'
    BY <1>6 DEF CallbacksTypeOK, NoLostWakeup, FlagFollowsQueue, LoopTimeout
  <2>3. QED
    BY <1>2, <1>3, <1>4, <2>1, <2>2
<1>7. CASE LoopStep \/ LoopClose \/ LoopStepFails
  <2>1. CallbacksTypeOK'
    <3>1. CASE LoopStep
      <4>1. zero_timeout' \in BOOLEAN
        BY <3>1 DEF LoopStep
      <4>2. QED
        BY <3>1, <4>1 DEF CallbacksTypeOK, LoopSteps, LoopStep
    <3>2. CASE LoopClose
      BY <3>2 DEF CallbacksTypeOK, LoopSteps, LoopClose
    <3>3. CASE LoopStepFails
      <4>1. zero_timeout' \in BOOLEAN
        BY <3>3 DEF LoopStepFails
      <4>2. failures' \in 0 .. MaxFailures
        BY <3>3 DEF CallbacksTypeOK, LoopStepFails
      <4>3. QED
        BY <3>3, <4>1, <4>2 DEF CallbacksTypeOK, LoopSteps, LoopStepFails
    <3>4. QED
      BY <1>7, <3>1, <3>2, <3>3
  <2>2. Len(batch) \in Nat /\ lpc # "run" /\ lpc' # "run" /\ num_run' = num_run
        /\ run_count' \in {0, run_count} /\ lpc' # "poll"
    BY <1>7 DEF CallbacksTypeOK, LoopStep, LoopClose, LoopStepFails
  <2>3. BatchFits' /\ NoLostWakeup'
    BY <1>1, <2>2 DEF CallbacksTypeOK, BatchFits, NoLostWakeup
  <2>4. QED
    BY <1>2, <1>3, <1>4, <2>1, <2>3
<1>8. CASE RunCallbacksEnd
  <2>1. CallbacksTypeOK' /\ BatchFits' /\ NoLostWakeup'
    BY <1>8 DEF CallbacksTypeOK, BatchFits, NoLostWakeup, LoopSteps, RunCallbacksEnd
  <2>2. QED
    BY <1>2, <1>3, <1>4, <2>1
<1>9. QED
  BY <1>5, <1>6, <1>7, <1>8

(* One step of any thread.                                                 *)
LEMMA CallbacksNextIInv == CallbacksIInv /\ [CallbacksNext]_callbacksVars => CallbacksIInv'
<1> SUFFICES ASSUME CallbacksIInv, [CallbacksNext]_callbacksVars PROVE CallbacksIInv'
  OBVIOUS
<1>1. ASSUME NEW t \in Threads, NEW k \in Kinds, RunInSelectLoop(t, k) PROVE CallbacksIInv'
  BY <1>1, CallsKeep
<1>2. ASSUME NEW t \in Controllers, Start(t) \/ StopTakeThread(t) PROVE CallbacksIInv'
  BY <1>2, CallsKeep
<1>3. ASSUME NEW t \in Threads, CallerStep(t) PROVE CallbacksIInv'
  BY <1>3, CallerKeeps
<1>4. CASE LoopThread \/ LoopStepFails
  BY <1>4, PopKeeps, RunOneKeeps, QuietLoopKeeps DEF LoopThread
<1>5. CASE UNCHANGED callbacksVars
  BY <1>5 DEF callbacksVars, queue, loop, callers, owner, hist, CallbacksIInv,
     CallbacksInv, CallbacksTypeOK, NoCallbackLost, RunInOrder, FlagFollowsQueue,
     BatchFits, OneStop, PlaceKept, QueuedInOrder, NoLostWakeup, Ids
<1>6. QED
  BY <1>1, <1>2, <1>3, <1>4, <1>5 DEF CallbacksNext

-----------------------------------------------------------------------------
(* The theorems                                                            *)

(* The inductive invariant holds in every state of the selector.           *)
THEOREM CallbacksInvariance == CallbacksSpec => []CallbacksIInv
  BY CallbacksInitIInv, CallbacksNextIInv, PTL DEF CallbacksSpec

(* No function handed to RunInSelectLoop is lost or overtaken, whatever    *)
(* starts, stops and failures of the loop happen meanwhile.                *)
THEOREM CallbacksInvHolds == CallbacksSpec => []CallbacksInv
<1>1. CallbacksIInv => CallbacksInv
  BY DEF CallbacksIInv
<1>2. QED
  BY <1>1, CallbacksInvariance, PTL

(* The loop never sleeps in poll() on a queued function for which nobody   *)
(* wakes it.                                                               *)
THEOREM NoLostWakeupHolds == CallbacksSpec => []NoLostWakeup
<1>1. CallbacksIInv => NoLostWakeup
  BY DEF CallbacksIInv
<1>2. QED
  BY <1>1, CallbacksInvariance, PTL

(* Start() never puts a second thread into Loop(), and Stop() returns only *)
(* when the thread has left it.                                            *)
THEOREM OneLoopThreadHolds == CallbacksSpec => OneLoopThread
<1> DEFINE A == /\ ~thread /\ thread' => lpc = "off"
                /\ is_started /\ ~is_started' => lpc = "off" /\ ~thread
<1>1. CallbacksIInv /\ [CallbacksNext]_callbacksVars => [A]_callbacksVars
  <2> SUFFICES ASSUME CallbacksIInv, CallbacksNext PROVE A
    OBVIOUS
  <2> USE DEF CallbacksIInv, OneStop, queue, loop, callers, owner, hist
  <2>1. ASSUME NEW t \in Threads, NEW k \in Kinds, RunInSelectLoop(t, k) PROVE A
    BY <2>1 DEF RunInSelectLoop, Push
  <2>2. ASSUME NEW t \in Controllers, Start(t) \/ StopTakeThread(t) PROVE A
    BY <2>2 DEF Start, StopTakeThread
  <2>3. ASSUME NEW t \in Threads, CallerStep(t) PROVE A
    BY <2>3 DEF CallerStep, SetFlag, SendWakeSignal, MakeLoopExit, Push, StopJoin
  <2>4. CASE LoopThread \/ LoopStepFails
    BY <2>4 DEF LoopThread, LoopBegin, LoopSetTid, LoopTop, LoopTimeout, LoopStep,
       TestCallbacks, ClearSignalFd, PopCallbacks, RunOne, RunCallbacksEnd, LoopClose,
       LoopStepFails
  <2>5. QED
    BY <2>1, <2>2, <2>3, <2>4 DEF CallbacksNext
<1>2. QED
  BY <1>1, CallbacksInvariance, PTL DEF CallbacksSpec, OneLoopThread

=============================================================================
