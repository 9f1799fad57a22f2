-------------------------- MODULE SelectorLoopProofs --------------------------
(***************************************************************************)
(* Proofs about the loop of a Selector: EpollLoop, a Selector over an      *)
(* EpollSelectorLoop, for any number of Selectables and descriptors and    *)
(* any max_events_per_step, and the dispatch of events over either loop;   *)
(* and SelectorAlarms, for any number of threads, alarms and ticks, any    *)
(* timeouts and any order a heap may have.                                 *)
(***************************************************************************)
EXTENDS EpollLoop, SelectorAlarms, FiniteSetTheorems, SequenceTheorems, TLAPS

-----------------------------------------------------------------------------
(* Descriptors: the inductive invariant                                    *)

(* A Selectable has a descriptor of its own from Register() to Close().    *)
Descriptors ==
    /\ loop_type \in {"POLL", "EPOLL"}
    /\ registered \subseteq used /\ used \subseteq Selectables /\ refused \subseteq used
    /\ fd \in [Selectables -> Fds \cup {NoFd}]
    /\ desire \in [Selectables -> SUBSET Desires]
    /\ \A s \in Selectables : fd[s] # NoFd <=> s \in registered
    /\ \A s, t \in registered : fd[s] = fd[t] => s = t
    /\ loop_type = "EPOLL" => \A s \in registered : fd[s] \in EpollFds

(* An event in the hands of Loop() is one of a Selectable that was not     *)
(* deleted; while its handler is about to be called it is registered.      *)
InHand ==
    /\ ppc = "callbacks" => event.user = Null /\ events = <<>>
    /\ ppc = "call" => event.user \in registered
    /\ ppc = "handler" => event.user \in Selectables
    /\ loop_type = "EPOLL" =>
         /\ events \in Seq(EventType) /\ Len(events) <= MaxEventsPerStep
         /\ ppc # "callbacks" => event.user \notin deleted
         /\ \A i \in 1 .. Len(events) : events[i].user \notin deleted

Deletions ==
    /\ doomed \subseteq used /\ deleted \subseteq used /\ doomed \cap deleted = {}
    /\ deleted \cap registered = {}
    /\ loop_type = "POLL" => deleted = {}

EntryRec == [user : Selectables \cup {Null}, events : SUBSET Happenings, place : Nat]

(* The place of a descriptor says how many are looked at before it, and    *)
(* with every step that leaves it out it gets nearer.                      *)
EventEntries ==
    /\ Watched \subseteq AllFds
    /\ \A f \in Watched : interest[f] \in EntryRec

UpTo(f) == {g \in Watched : interest[g].place <= interest[f].place}

Order ==
    /\ \A f \in Watched : interest[f].place = Cardinality(UpTo(f))
    /\ \A f, g \in Watched : interest[f].place = interest[g].place => f = g
    /\ passed_over \in [AllFds -> Nat]
    /\ \A f \in Watched :
         interest[f].place + passed_over[f] * MaxEventsPerStep <= Cardinality(EpollFds) + 1
    /\ NobodyStarves

EpollIInv ==
    /\ Descriptors /\ InHand /\ Deletions /\ EventEntries /\ Order /\ WatchedAreRegistered
    /\ HandlersOnlyForOpen

-----------------------------------------------------------------------------
(* Places                                                                  *)

LEMMA FdNumbers ==
  /\ NoFd \notin Fds /\ SignalFd \notin Fds /\ EpollFds \subseteq Fds
  /\ MaxEventsPerStep \in Nat \ {0} /\ Null \notin Selectables
  /\ IsFiniteSet(AllFds) /\ Cardinality(EpollFds) \in Nat
  /\ Cardinality(AllFds) = Cardinality(EpollFds) + 1
<1>1. /\ Fds \subseteq Nat \ {0} /\ EpollFds \subseteq Fds /\ IsFiniteSet(EpollFds)
      /\ MaxEventsPerStep \in Nat \ {0} /\ Null \notin Selectables
  BY FdsAssumption, EpollAssumption, SelectablesAssumption
<1>2. NoFd \notin Fds /\ SignalFd \notin Fds
  BY <1>1 DEF NoFd, SignalFd
<1>3. SignalFd \notin EpollFds
  BY <1>1, <1>2
<1>4. /\ IsFiniteSet(EpollFds \cup {SignalFd})
      /\ Cardinality(EpollFds \cup {SignalFd}) = Cardinality(EpollFds) + 1
  BY <1>1, <1>3, FS_AddElement
<1>5. Cardinality(EpollFds) \in Nat
  BY <1>1, FS_CardinalityType
<1>. QED
  BY <1>1, <1>2, <1>4, <1>5 DEF AllFds

(* Counting those that do not come later orders as the turns do.           *)
LEMMA Ranks ==
  ASSUME NEW D, IsFiniteSet(D), NEW turn, \A f \in D : turn[f] \in Int,
         NEW f \in D, NEW g \in D
  PROVE  /\ Cardinality({h \in D : turn[h] <= turn[f]}) \in Nat
         /\ Cardinality({h \in D : turn[h] <= turn[f]}) >= 1
         /\ Cardinality({h \in D : turn[h] <= turn[f]}) <= Cardinality(D)
         /\ Cardinality({h \in D : turn[h] <= turn[g]})
              <= Cardinality({h \in D : turn[h] <= turn[f]}) <=> turn[g] <= turn[f]
<1>1. ASSUME NEW a \in D, NEW b \in D, turn[a] < turn[b]
      PROVE  /\ {h \in D : turn[h] <= turn[a]} \subseteq {h \in D : turn[h] <= turn[b]}
             /\ b \in {h \in D : turn[h] <= turn[b]} /\ b \notin {h \in D : turn[h] <= turn[a]}
  BY <1>1
<1>2. PICK F, G : F = {h \in D : turn[h] <= turn[f]} /\ G = {h \in D : turn[h] <= turn[g]}
  OBVIOUS
<1>3. /\ F \subseteq D /\ G \subseteq D /\ f \in F
  BY <1>2
<1>4. /\ IsFiniteSet(F) /\ IsFiniteSet(G) /\ Cardinality(F) <= Cardinality(D)
      /\ Cardinality(F) \in Nat /\ Cardinality(G) \in Nat
  BY <1>3, FS_Subset, FS_CardinalityType
<1>5. Cardinality(F) # 0
  BY <1>3, <1>4, FS_EmptySet
<1>6. CASE turn[g] <= turn[f]
  <2>1. G \subseteq F
    BY <1>2, <1>6
  <2>2. Cardinality(G) <= Cardinality(F)
    BY <1>4, <2>1, FS_Subset
  <2>. QED
    BY <1>2, <1>4, <1>5, <1>6, <2>2
<1>7. CASE ~(turn[g] <= turn[f])
  <2>1. turn[f] < turn[g]
    BY <1>7
  <2>2. F \subseteq G /\ g \in G /\ g \notin F
    BY <1>1, <1>2, <2>1
  <2>3. Cardinality(F) <= Cardinality(G) /\ (Cardinality(F) = Cardinality(G) => F = G)
    BY <1>4, <2>2, FS_Subset
  <2>4. ~(Cardinality(G) <= Cardinality(F))
    BY <1>4, <2>2, <2>3
  <2>. QED
    BY <1>2, <1>4, <1>5, <1>7, <2>4
<1>. QED
  BY <1>6, <1>7

(* What epoll_ctl and epoll_wait make of the order.                        *)
LEMMA InOrderOK ==
  ASSUME EventEntries, NEW fs \in SUBSET Watched, NEW turn, \A f \in fs : turn[f] \in Int,
         \A f, g \in fs : turn[f] = turn[g] => f = g,
         interest' = InOrder(fs, turn)
  PROVE  /\ Watched' = fs /\ IsFiniteSet(fs)
         /\ \A f \in fs : /\ interest'[f] \in EntryRec
                          /\ interest'[f].user = interest[f].user
                          /\ interest'[f].events = interest[f].events
                          /\ interest'[f].place = Cardinality({g \in fs : turn[g] <= turn[f]})
         /\ \A f \in fs : interest'[f].place = Cardinality(UpTo(f)')
         /\ \A f, g \in fs : interest'[f].place = interest'[g].place => f = g
<1>1. /\ Watched \subseteq AllFds /\ IsFiniteSet(AllFds)
      /\ \A f \in fs : interest[f] \in EntryRec
  BY FdNumbers DEF EventEntries
<1>2. IsFiniteSet(fs)
  BY <1>1, FS_Subset
<1>3. PICK r : r = [f \in fs |-> Cardinality({g \in fs : turn[g] <= turn[f]})]
  OBVIOUS
<1>4. /\ \A f \in fs : r[f] = Cardinality({g \in fs : turn[g] <= turn[f]}) /\ r[f] \in Nat
      /\ \A f, g \in fs : r[g] <= r[f] <=> turn[g] <= turn[f]
  <2>1. SUFFICES ASSUME NEW f \in fs, NEW g \in fs
                 PROVE  /\ r[f] = Cardinality({h \in fs : turn[h] <= turn[f]}) /\ r[f] \in Nat
                        /\ r[g] <= r[f] <=> turn[g] <= turn[f]
    BY Zenon
  <2>2. /\ r[f] = Cardinality({h \in fs : turn[h] <= turn[f]})
        /\ r[g] = Cardinality({h \in fs : turn[h] <= turn[g]})
    BY <1>3
  <2>3. /\ Cardinality({h \in fs : turn[h] <= turn[f]}) \in Nat
        /\ Cardinality({h \in fs : turn[h] <= turn[g]})
             <= Cardinality({h \in fs : turn[h] <= turn[f]}) <=> turn[g] <= turn[f]
    BY <1>2, Ranks
  <2>. QED
    BY <2>2, <2>3
<1>5. interest' = [f \in fs |-> [interest[f] EXCEPT !.place = r[f]]]
  BY <1>3 DEF InOrder
<1>6. Watched' = fs
  BY <1>5 DEF Watched
<1>7. \A f \in fs : /\ interest'[f] \in EntryRec
                   /\ interest'[f].user = interest[f].user
                   /\ interest'[f].events = interest[f].events
                   /\ interest'[f].place = r[f]
  <2>1. SUFFICES ASSUME NEW f \in fs
                 PROVE  /\ interest'[f] \in EntryRec
                        /\ interest'[f].user = interest[f].user
                        /\ interest'[f].events = interest[f].events
                        /\ interest'[f].place = r[f]
    OBVIOUS
  <2>2. PICK e : e = interest[f]
    OBVIOUS
  <2>3. interest'[f] = [e EXCEPT !.place = r[f]]
    BY <1>5, <2>2
  <2>4. e \in EntryRec /\ r[f] \in Nat
    BY <1>1, <1>4, <2>2
  <2>. QED
    BY <2>2, <2>3, <2>4 DEF EntryRec
<1>8. \A f \in fs : interest'[f].place = Cardinality(UpTo(f)')
  <2>1. SUFFICES ASSUME NEW f \in fs PROVE r[f] = Cardinality(UpTo(f)')
    BY <1>7
  <2>2. UpTo(f)' = {g \in fs : interest'[g].place <= interest'[f].place}
    BY <1>6 DEF UpTo
  <2>3. UpTo(f)' = {g \in fs : turn[g] <= turn[f]}
    BY <1>4, <1>7, <2>2
  <2>. QED
    BY <1>4, <2>3
<1>9. \A f, g \in fs : interest'[f].place = interest'[g].place => f = g
  <2>1. SUFFICES ASSUME NEW f \in fs, NEW g \in fs, r[f] = r[g] PROVE f = g
    BY <1>7
  <2>2. r[f] <= r[g] /\ r[g] <= r[f]
    BY <1>4, <2>1
  <2>3. turn[f] <= turn[g] /\ turn[g] <= turn[f]
    BY <1>4, <2>2
  <2>4. turn[f] = turn[g]
    BY <2>3
  <2>. QED
    BY <2>4
<1>. QED
  BY <1>2, <1>4, <1>6, <1>7, <1>8, <1>9

-----------------------------------------------------------------------------
(* The actions on what is watched                                          *)

LEMMA ZeroSteps == 0 * MaxEventsPerStep = 0 /\ ~TooLong(0)
<1>1. MaxEventsPerStep \in Nat /\ Cardinality(EpollFds) \in Nat
  BY FdNumbers
<1>2. 0 * MaxEventsPerStep = 0
  BY <1>1
<1>. QED
  BY <1>1, <1>2 DEF TooLong

LEMMA CloseAllOK ==
  ASSUME EpollIInv, loop_type = "EPOLL", loop_type' = loop_type,
         NEW S \in SUBSET registered, EpollCloseAll(S)
  PROVE  /\ Descriptors' /\ EventEntries' /\ Order' /\ WatchedAreRegistered'
         /\ registered' = registered \ S /\ used' = used
         /\ events' = events /\ event' = event /\ calledDead' = calledDead
<1>0. Descriptors /\ EventEntries /\ Order /\ WatchedAreRegistered
  BY DEF EpollIInv
<1>1. PICK gone : gone = {fd[s] : s \in S}
  OBVIOUS
<1>2. /\ registered' = registered \ S /\ desire' = desire /\ events' = events /\ event' = event
      /\ used' = used /\ refused' = refused /\ calledDead' = calledDead
      /\ fd' = [s \in Selectables |-> IF s \in S THEN NoFd ELSE fd[s]]
      /\ passed_over' = [f \in AllFds |-> IF \E s \in S : fd[s] = f THEN 0 ELSE passed_over[f]]
      /\ interest' = InOrder(Watched \ gone, Places)
  BY <1>1 DEF EpollCloseAll, EpollDelete
<1>3. /\ registered \subseteq used /\ used \subseteq Selectables /\ refused \subseteq used
      /\ fd \in [Selectables -> Fds \cup {NoFd}] /\ desire \in [Selectables -> SUBSET Desires]
      /\ \A s \in Selectables : fd[s] # NoFd <=> s \in registered
      /\ \A s, t \in registered : fd[s] = fd[t] => s = t
      /\ \A s \in registered : fd[s] \in EpollFds
  BY <1>0 DEF Descriptors
<1>4. Descriptors'
  <2>1. /\ fd' \in [Selectables -> Fds \cup {NoFd}]
        /\ \A s \in Selectables : fd'[s] = IF s \in S THEN NoFd ELSE fd[s]
    BY <1>2, <1>3
  <2>2. \A s \in Selectables : fd'[s] # NoFd <=> s \in registered'
    BY <1>2, <1>3, <2>1
  <2>3. \A s \in registered' : s \in registered /\ s \in Selectables /\ fd'[s] = fd[s]
    BY <1>2, <1>3, <2>1
  <2>. QED
    BY <1>2, <1>3, <2>1, <2>2, <2>3 DEF Descriptors
<1>5. PICK fs : fs = Watched \ gone
  OBVIOUS
<1>6. PICK turn : turn = Places
  OBVIOUS
<1>7. /\ fs \in SUBSET Watched /\ \A f \in Watched : turn[f] = interest[f].place /\ turn[f] \in Int
  BY <1>0, <1>5, <1>6 DEF Places, EventEntries, EntryRec
<1>8. \A f, g \in fs : turn[f] = turn[g] => f = g
  BY <1>0, <1>7 DEF Order
<1>9. interest' = InOrder(fs, turn)
  BY <1>2, <1>5, <1>6
<1>10. /\ Watched' = fs /\ IsFiniteSet(fs)
       /\ \A f \in fs : /\ interest'[f] \in EntryRec
                        /\ interest'[f].user = interest[f].user
                        /\ interest'[f].events = interest[f].events
                        /\ interest'[f].place = Cardinality({g \in fs : turn[g] <= turn[f]})
       /\ \A f \in fs : interest'[f].place = Cardinality(UpTo(f)')
       /\ \A f, g \in fs : interest'[f].place = interest'[g].place => f = g
  BY <1>0, <1>7, <1>8, <1>9, InOrderOK
<1>11. EventEntries'
  BY <1>0, <1>7, <1>10 DEF EventEntries
<1>12. Order'
  <2>1. /\ passed_over \in [AllFds -> Nat] /\ \A f \in AllFds : ~TooLong(passed_over[f])
        /\ MaxEventsPerStep \in Nat /\ Cardinality(EpollFds) \in Nat /\ IsFiniteSet(AllFds)
        /\ Watched \subseteq AllFds
    BY <1>0, FdNumbers DEF Order, NobodyStarves, EventEntries
  <2>2. /\ passed_over' \in [AllFds -> Nat]
        /\ \A f \in AllFds : passed_over'[f] = 0 \/ passed_over'[f] = passed_over[f]
    BY <1>2, <2>1
  <2>3. \A f \in AllFds : ~TooLong(passed_over'[f])
    BY <2>1, <2>2, ZeroSteps
  <2>4. ASSUME NEW f \in fs
        PROVE  interest'[f].place + passed_over'[f] * MaxEventsPerStep <= Cardinality(EpollFds) + 1
    <3>1. {g \in fs : turn[g] <= turn[f]} \subseteq UpTo(f)
      BY <1>7 DEF UpTo
    <3>2. IsFiniteSet(UpTo(f))
      <4>1. UpTo(f) \subseteq AllFds
        BY <2>1 DEF UpTo
      <4>. QED
        BY <2>1, <4>1, FS_Subset
    <3>3. PICK a, b : a = interest'[f].place /\ b = interest[f].place
      OBVIOUS
    <3>4. b = Cardinality(UpTo(f)) /\ b \in Nat /\ a \in Nat
      BY <1>0, <1>7, <1>10, <3>3 DEF Order, EventEntries, EntryRec
    <3>5. a <= b
      <4>1. PICK A : A = {g \in fs : turn[g] <= turn[f]}
        OBVIOUS
      <4>2. a = Cardinality(A) /\ A \subseteq UpTo(f)
        BY <1>10, <3>1, <3>3, <4>1
      <4>. QED
        BY <3>2, <3>4, <4>2, FS_Subset
    <3>6. b + passed_over[f] * MaxEventsPerStep <= Cardinality(EpollFds) + 1
      BY <1>0, <1>7, <3>3 DEF Order
    <3>7. f \in AllFds /\ passed_over[f] \in Nat
      BY <1>7, <2>1
    <3>8. passed_over[f] * MaxEventsPerStep \in Nat
      BY <2>1, <3>7
    <3>9. CASE passed_over'[f] = 0
      BY <2>1, <3>3, <3>4, <3>5, <3>6, <3>8, <3>9, ZeroSteps
    <3>10. CASE passed_over'[f] = passed_over[f]
      BY <2>1, <3>3, <3>4, <3>5, <3>6, <3>8, <3>10
    <3>. QED
      BY <2>2, <3>7, <3>9, <3>10
  <2>. QED
    BY <1>10, <2>2, <2>3, <2>4 DEF Order, NobodyStarves
<1>13. WatchedAreRegistered'
  <2>1. /\ Watched = {fd[s] : s \in registered \ refused} \cup {SignalFd}
        /\ \A s \in registered \ refused : /\ interest[fd[s]].user = s
                                            /\ interest[fd[s]].events = DesiresToEpollEvents(desire[s])
        /\ interest[SignalFd].user = Null
        /\ interest[SignalFd].events = DesiresToEpollEvents({"Read", "Error"})
    BY <1>0 DEF WatchedAreRegistered
  <2>2. SignalFd \in fs
    BY <1>1, <1>3, <1>5, <2>1, FdNumbers
  <2>3. \A s \in registered' : /\ s \in registered /\ fd'[s] = fd[s] /\ fd[s] \notin gone
    BY <1>1, <1>2, <1>3
  <2>4. \A s \in registered' \ refused' : fd'[s] \in fs
    BY <1>2, <1>5, <2>1, <2>3
  <2>5. \A f \in fs : f = SignalFd \/ \E s \in registered' \ refused' : f = fd'[s]
    BY <1>1, <1>2, <1>5, <2>1, <2>3
  <2>6. Watched' = {fd'[s] : s \in registered' \ refused'} \cup {SignalFd}
    BY <1>10, <2>2, <2>4, <2>5
  <2>7. \A s \in registered' \ refused' :
           /\ interest'[fd'[s]].user = s
           /\ interest'[fd'[s]].events = DesiresToEpollEvents(desire'[s])
    <3>1. SUFFICES ASSUME NEW s \in registered' \ refused'
                   PROVE  /\ interest'[fd'[s]].user = s
                          /\ interest'[fd'[s]].events = DesiresToEpollEvents(desire'[s])
      OBVIOUS
    <3>2. s \in registered \ refused /\ fd'[s] = fd[s] /\ fd[s] \in fs /\ desire'[s] = desire[s]
      BY <1>2, <2>3, <2>4
    <3>3. /\ interest'[fd[s]].user = interest[fd[s]].user
          /\ interest'[fd[s]].events = interest[fd[s]].events
      BY <1>10, <3>2
    <3>. QED
      BY <2>1, <3>2, <3>3
  <2>8. /\ interest'[SignalFd].user = Null
        /\ interest'[SignalFd].events = DesiresToEpollEvents({"Read", "Error"})
    BY <1>10, <2>1, <2>2
  <2>. QED
    BY <2>6, <2>7, <2>8 DEF WatchedAreRegistered
<1>. QED
  BY <1>2, <1>4, <1>11, <1>12, <1>13

LEMMA DesiresToEvents ==
  ASSUME NEW d \in SUBSET Desires
  PROVE  DesiresToEpollEvents(d) \in SUBSET Happenings
<1>1. SUFFICES ASSUME NEW x \in d,
                      NEW y \in CASE x = "Read"  -> {"POLLIN", "POLLRDHUP"}
                                  [] x = "Write" -> {"POLLOUT"}
                                  [] x = "Error" -> {"POLLERR"}
               PROVE  y \in Happenings
  BY DEF DesiresToEpollEvents
<1>2. x = "Read" \/ x = "Write" \/ x = "Error"
  BY DEF Desires
<1>. QED
  BY <1>1, <1>2 DEF Happenings

LEMMA PlaceBounds ==
  ASSUME EventEntries, Order
  PROVE  /\ IsFiniteSet(Watched) /\ Cardinality(Watched) \in Nat
         /\ Cardinality(Watched) <= Cardinality(EpollFds) + 1
         /\ \A f \in Watched : /\ interest[f].place \in Nat /\ interest[f].place >= 1
                               /\ interest[f].place <= Cardinality(Watched)
<1>1. Watched \subseteq AllFds /\ IsFiniteSet(AllFds)
  BY FdNumbers DEF EventEntries
<1>2. /\ IsFiniteSet(Watched) /\ Cardinality(Watched) \in Nat
      /\ Cardinality(Watched) <= Cardinality(AllFds)
  BY <1>1, FS_Subset, FS_CardinalityType
<1>3. ASSUME NEW f \in Watched
      PROVE  /\ interest[f].place \in Nat /\ interest[f].place >= 1
             /\ interest[f].place <= Cardinality(Watched)
  <2>1. UpTo(f) \subseteq Watched
    BY DEF UpTo
  <2>2. interest[f].place = Cardinality(UpTo(f)) /\ interest[f].place \in Nat
    BY DEF Order, EventEntries, EntryRec
  <2>3. f \in UpTo(f)
    BY <2>2 DEF UpTo
  <2>4. /\ IsFiniteSet(UpTo(f)) /\ Cardinality(UpTo(f)) <= Cardinality(Watched)
    BY <1>2, <2>1, FS_Subset
  <2>5. Cardinality(UpTo(f)) # 0
    BY <2>3, <2>4, FS_EmptySet
  <2>. QED
    BY <2>2, <2>4, <2>5
<1>. QED
  BY <1>2, <1>3, FdNumbers

LEMMA RegisterOK ==
  ASSUME EpollIInv, loop_type = "EPOLL", loop_type' = loop_type,
         NEW s \in Selectables, NEW f \in EpollFds, EpollRegister(s, f)
  PROVE  EpollIInv'
<1>0. /\ Descriptors /\ InHand /\ Deletions /\ EventEntries /\ Order /\ WatchedAreRegistered
      /\ HandlersOnlyForOpen
  BY DEF EpollIInv
<1>1. /\ s \notin used /\ f \notin OpenFds
      /\ fd' = [fd EXCEPT ![s] = f] /\ used' = used \cup {s} /\ registered' = registered \cup {s}
      /\ EpollAdd(f, s, desire[s])
      /\ passed_over' = [passed_over EXCEPT ![f] = 0]
      /\ desire' = desire /\ ppc' = ppc /\ events' = events /\ event' = event
      /\ calledDead' = calledDead /\ doomed' = doomed /\ deleted' = deleted
  BY DEF EpollRegister
<1>2. /\ registered \subseteq used /\ used \subseteq Selectables /\ refused \subseteq used
      /\ fd \in [Selectables -> Fds \cup {NoFd}] /\ desire \in [Selectables -> SUBSET Desires]
      /\ \A t \in Selectables : fd[t] # NoFd <=> t \in registered
      /\ \A t, u \in registered : fd[t] = fd[u] => t = u
      /\ \A t \in registered : fd[t] \in EpollFds
  BY <1>0 DEF Descriptors
<1>3. /\ f \in Fds /\ f # NoFd /\ f # SignalFd /\ f \in AllFds
  BY FdNumbers DEF AllFds
<1>4. \A t \in Selectables : fd[t] # f
  BY <1>1, <1>3 DEF OpenFds
<1>5. /\ fd'[s] = f /\ \A t \in Selectables : t # s => fd'[t] = fd[t]
      /\ fd' \in [Selectables -> Fds \cup {NoFd}]
  BY <1>1, <1>2, <1>3
<1>6. /\ refused' \subseteq used'
  BY <1>1, <1>2 DEF EpollAdd
<1>7. Descriptors'
  <2>1. \A t \in Selectables : fd'[t] # NoFd <=> t \in registered'
    BY <1>1, <1>2, <1>3, <1>5
  <2>2. \A t, u \in registered' : fd'[t] = fd'[u] => t = u
    BY <1>1, <1>2, <1>4, <1>5
  <2>3. \A t \in registered' : fd'[t] \in EpollFds
    BY <1>1, <1>2, <1>5
  <2>4. registered' \subseteq used' /\ used' \subseteq Selectables
    BY <1>1, <1>2
  <2>. QED
    BY <1>1, <1>2, <1>5, <1>6, <2>1, <2>2, <2>3, <2>4 DEF Descriptors
<1>8. InHand' /\ HandlersOnlyForOpen'
  BY <1>0, <1>1 DEF InHand, HandlersOnlyForOpen
<1>9. Deletions'
  BY <1>0, <1>1 DEF Deletions
<1>10. /\ Watched = {fd[t] : t \in registered \ refused} \cup {SignalFd}
       /\ \A t \in registered \ refused : /\ interest[fd[t]].user = t
                                           /\ interest[fd[t]].events = DesiresToEpollEvents(desire[t])
       /\ interest[SignalFd].user = Null
       /\ interest[SignalFd].events = DesiresToEpollEvents({"Read", "Error"})
  BY <1>0 DEF WatchedAreRegistered
<1>11. /\ passed_over \in [AllFds -> Nat] /\ passed_over' \in [AllFds -> Nat]
       /\ passed_over'[f] = 0 /\ \A g \in AllFds : g # f => passed_over'[g] = passed_over[g]
       /\ NobodyStarves'
  <2>1. passed_over \in [AllFds -> Nat] /\ \A g \in AllFds : ~TooLong(passed_over[g])
    BY <1>0 DEF Order, NobodyStarves
  <2>2. /\ passed_over' \in [AllFds -> Nat] /\ passed_over'[f] = 0
        /\ \A g \in AllFds : g # f => passed_over'[g] = passed_over[g]
    BY <1>1, <1>3, <2>1
  <2>3. \A g \in AllFds : ~TooLong(passed_over'[g])
    BY <2>1, <2>2, ZeroSteps
  <2>. QED
    BY <2>1, <2>2, <2>3 DEF NobodyStarves
<1>12. f \notin Watched
  BY <1>2, <1>3, <1>4, <1>10
<1>13. CASE refused' = refused \cup {s} /\ interest' = interest
  <2>1. Watched' = Watched /\ \A g : UpTo(g)' = UpTo(g)
    BY <1>13 DEF Watched, UpTo
  <2>2. EventEntries'
    BY <1>0, <1>13, <2>1 DEF EventEntries
  <2>3. Order'
    <3>1. \A g \in Watched : g # f /\ g \in AllFds /\ passed_over'[g] = passed_over[g]
      BY <1>0, <1>11, <1>12 DEF EventEntries
    <3>. QED
      BY <1>0, <1>11, <1>13, <2>1, <3>1 DEF Order
  <2>4. WatchedAreRegistered'
    <3>1. registered' \ refused' = registered \ refused
      BY <1>1, <1>2, <1>13
    <3>2. \A t \in registered \ refused : fd'[t] = fd[t]
      BY <1>1, <1>2, <1>5
    <3>3. {fd'[t] : t \in registered \ refused} = {fd[t] : t \in registered \ refused}
      BY <3>2
    <3>. QED
      BY <1>1, <1>10, <1>13, <2>1, <3>1, <3>2, <3>3 DEF WatchedAreRegistered
  <2>. QED
    BY <1>7, <1>8, <1>9, <2>2, <2>3, <2>4 DEF EpollIInv
<1>14. CASE /\ refused' = refused
            /\ interest' = [g \in Watched \cup {f} |->
                  IF g = f THEN EpollEntry(s, DesiresToEpollEvents(desire[s]), Cardinality(Watched) + 1)
                           ELSE interest[g]]
  <2>1. /\ IsFiniteSet(Watched) /\ Cardinality(Watched) \in Nat
        /\ \A g \in Watched : /\ interest[g].place \in Nat
                              /\ interest[g].place <= Cardinality(Watched)
    BY <1>0, PlaceBounds
  <2>2. PICK n : n = Cardinality(Watched) + 1
    OBVIOUS
  <2>3. PICK e : e = EpollEntry(s, DesiresToEpollEvents(desire[s]), n)
    OBVIOUS
  <2>4. /\ e \in EntryRec /\ e.user = s /\ e.events = DesiresToEpollEvents(desire[s])
        /\ e.place = n
    <3>1. DesiresToEpollEvents(desire[s]) \in SUBSET Happenings
      BY <1>2, DesiresToEvents
    <3>. QED
      BY <2>1, <2>2, <2>3, <3>1 DEF EpollEntry, EntryRec
  <2>5. /\ Watched' = Watched \cup {f} /\ interest'[f] = e
        /\ \A g \in Watched : interest'[g] = interest[g] /\ g # f
    BY <1>12, <1>14, <2>2, <2>3 DEF Watched
  <2>6. EventEntries'
    BY <1>0, <1>3, <2>4, <2>5 DEF EventEntries
  <2>7. Order'
    <3>1. Cardinality(Watched \cup {f}) = n /\ n \in Nat /\ Cardinality(Watched) < n
      <4>1. Cardinality(Watched \cup {f}) = Cardinality(Watched) + 1
        BY <1>12, <2>1, FS_AddElement
      <4>. QED
        BY <2>1, <2>2, <4>1
    <3>2. n <= Cardinality(EpollFds) + 1
      <4>1. Watched \cup {f} \subseteq AllFds
        BY <1>0, <1>3 DEF EventEntries
      <4>2. Cardinality(Watched \cup {f}) <= Cardinality(AllFds)
        BY <4>1, FdNumbers, FS_Subset
      <4>. QED
        BY <3>1, <4>2, FdNumbers
    <3>3. \A g \in Watched : interest'[g].place < n
      BY <2>1, <2>5, <3>1
    <3>4. \A g \in Watched : UpTo(g)' = UpTo(g)
      <4>1. SUFFICES ASSUME NEW g \in Watched, NEW h PROVE h \in UpTo(g)' <=> h \in UpTo(g)
        OBVIOUS
      <4>2. h \in UpTo(g)' <=> h \in Watched \cup {f} /\ interest'[h].place <= interest'[g].place
        BY <2>5 DEF UpTo
      <4>3. ~(n <= interest'[g].place)
        BY <2>1, <2>5, <3>1, <3>3
      <4>. QED
        BY <2>4, <2>5, <4>2, <4>3 DEF UpTo
    <3>5. UpTo(f)' = Watched \cup {f}
      <4>1. \A h : h \in UpTo(f)' <=> h \in Watched \cup {f} /\ interest'[h].place <= n
        BY <2>4, <2>5 DEF UpTo
      <4>2. \A h \in Watched \cup {f} : interest'[h].place <= n
        BY <2>1, <2>4, <2>5, <3>1, <3>3
      <4>. QED
        BY <4>1, <4>2
    <3>6. \A g \in Watched' : interest'[g].place = Cardinality(UpTo(g)')
      BY <1>0, <2>4, <2>5, <3>1, <3>4, <3>5 DEF Order
    <3>7. \A g, h \in Watched' : interest'[g].place = interest'[h].place => g = h
      BY <1>0, <2>1, <2>4, <2>5, <3>1, <3>3 DEF Order
    <3>8. \A g \in Watched' :
            interest'[g].place + passed_over'[g] * MaxEventsPerStep <= Cardinality(EpollFds) + 1
      <4>1. \A g \in Watched : g \in AllFds /\ passed_over'[g] = passed_over[g]
        BY <1>0, <1>11, <2>5 DEF EventEntries
      <4>2. n + 0 * MaxEventsPerStep <= Cardinality(EpollFds) + 1
        BY <3>1, <3>2, ZeroSteps
      <4>. QED
        BY <1>0, <1>11, <2>4, <2>5, <4>1, <4>2 DEF Order
    <3>. QED
      BY <1>11, <3>6, <3>7, <3>8 DEF Order
  <2>8. WatchedAreRegistered'
    <3>1. registered' \ refused' = (registered \ refused) \cup {s}
      BY <1>1, <1>2, <1>14
    <3>2. \A t \in registered \ refused : fd'[t] = fd[t] /\ t # s /\ fd[t] \in Watched
      BY <1>1, <1>2, <1>5, <1>10
    <3>3. Watched' = {fd'[t] : t \in registered' \ refused'} \cup {SignalFd}
      BY <1>5, <1>10, <2>5, <3>1, <3>2
    <3>4. ASSUME NEW t \in registered' \ refused'
          PROVE  /\ interest'[fd'[t]].user = t
                 /\ interest'[fd'[t]].events = DesiresToEpollEvents(desire'[t])
      <4>1. CASE t = s
        BY <1>1, <1>5, <2>4, <2>5, <4>1
      <4>2. CASE t \in registered \ refused
        <5>1. fd'[t] = fd[t] /\ interest'[fd[t]] = interest[fd[t]] /\ desire'[t] = desire[t]
          BY <1>1, <2>5, <3>2, <4>2
        <5>. QED
          BY <1>10, <4>2, <5>1
      <4>. QED
        BY <3>1, <4>1, <4>2
    <3>5. interest'[SignalFd] = interest[SignalFd]
      BY <1>10, <2>5
    <3>. QED
      BY <1>10, <3>3, <3>4, <3>5 DEF WatchedAreRegistered
  <2>. QED
    BY <1>7, <1>8, <1>9, <2>6, <2>7, <2>8 DEF EpollIInv
<1>. QED
  BY <1>1, <1>13, <1>14 DEF EpollAdd

LEMMA EnableWriteOK ==
  ASSUME EpollIInv, loop_type = "EPOLL", loop_type' = loop_type,
         NEW s \in Selectables, NEW b \in BOOLEAN, EpollEnableWrite(s, b)
  PROVE  EpollIInv'
<1>0. /\ Descriptors /\ InHand /\ Deletions /\ EventEntries /\ Order /\ WatchedAreRegistered
      /\ HandlersOnlyForOpen
  BY DEF EpollIInv
<1>1. /\ s \in registered
      /\ desire' = [desire EXCEPT ![s] = IF b THEN @ \cup {"Write"} ELSE @ \ {"Write"}]
      /\ interest' = [f \in Watched |->
            IF f = fd[s] THEN EpollEntry(s, DesiresToEpollEvents(desire'[s]), interest[f].place)
                         ELSE interest[f]]
      /\ fd' = fd /\ registered' = registered /\ used' = used /\ refused' = refused
      /\ ppc' = ppc /\ events' = events /\ event' = event
      /\ calledDead' = calledDead /\ doomed' = doomed /\ deleted' = deleted
      /\ passed_over' = passed_over
  BY DEF EpollEnableWrite, EpollUpdate
<1>2. /\ registered \subseteq used /\ used \subseteq Selectables /\ refused \subseteq used
      /\ fd \in [Selectables -> Fds \cup {NoFd}] /\ desire \in [Selectables -> SUBSET Desires]
      /\ \A t \in Selectables : fd[t] # NoFd <=> t \in registered
      /\ \A t, u \in registered : fd[t] = fd[u] => t = u
      /\ \A t \in registered : fd[t] \in EpollFds
  BY <1>0 DEF Descriptors
<1>3. /\ Watched = {fd[t] : t \in registered \ refused} \cup {SignalFd}
      /\ \A t \in registered \ refused : /\ interest[fd[t]].user = t
                                          /\ interest[fd[t]].events = DesiresToEpollEvents(desire[t])
      /\ interest[SignalFd].user = Null
      /\ interest[SignalFd].events = DesiresToEpollEvents({"Read", "Error"})
  BY <1>0 DEF WatchedAreRegistered
<1>4. /\ desire' \in [Selectables -> SUBSET Desires] /\ desire'[s] \in SUBSET Desires
      /\ \A t \in Selectables : t # s => desire'[t] = desire[t]
  BY <1>1, <1>2 DEF Desires
<1>5. Descriptors'
  BY <1>0, <1>1, <1>4 DEF Descriptors
<1>6. InHand' /\ Deletions' /\ HandlersOnlyForOpen'
  BY <1>0, <1>1 DEF InHand, Deletions, HandlersOnlyForOpen
<1>7. Watched' = Watched
  BY <1>1 DEF Watched
<1>8. \A f \in Watched : interest[f] \in EntryRec
  BY <1>0 DEF EventEntries
<1>9. ASSUME NEW f \in Watched
      PROVE  /\ interest'[f] \in EntryRec /\ interest'[f].place = interest[f].place
             /\ f # fd[s] => interest'[f] = interest[f]
             /\ f = fd[s] => /\ interest'[f].user = s
                             /\ interest'[f].events = DesiresToEpollEvents(desire'[s])
  <2>1. CASE f # fd[s]
    BY <1>1, <1>8, <2>1
  <2>2. CASE f = fd[s]
    <3>1. PICK d, p : d = DesiresToEpollEvents(desire'[s]) /\ p = interest[f].place
      OBVIOUS
    <3>2. d \in SUBSET Happenings /\ p \in Nat
      BY <1>4, <1>8, <3>1, DesiresToEvents DEF EntryRec
    <3>3. interest'[f] = EpollEntry(s, d, p)
      BY <1>1, <2>2, <3>1
    <3>. QED
      BY <2>2, <3>1, <3>2, <3>3 DEF EpollEntry, EntryRec
  <2>. QED
    BY <2>1, <2>2
<1>10. EventEntries'
  BY <1>0, <1>7, <1>9 DEF EventEntries
<1>11. Order'
  <2>1. \A f \in Watched : UpTo(f)' = UpTo(f)
    BY <1>7, <1>9 DEF UpTo
  <2>2. \A f \in Watched : interest'[f].place = interest[f].place
    BY <1>9
  <2>3. NobodyStarves' /\ passed_over' \in [AllFds -> Nat]
    BY <1>0, <1>1 DEF Order, NobodyStarves
  <2>4. \A f \in Watched' : interest'[f].place = Cardinality(UpTo(f)')
    BY <1>0, <1>7, <2>1, <2>2 DEF Order
  <2>5. \A f, g \in Watched' : interest'[f].place = interest'[g].place => f = g
    BY <1>0, <1>7, <2>2 DEF Order
  <2>6. \A f \in Watched' :
          interest'[f].place + passed_over'[f] * MaxEventsPerStep <= Cardinality(EpollFds) + 1
    BY <1>0, <1>1, <1>7, <2>2 DEF Order
  <2>. QED
    BY <2>3, <2>4, <2>5, <2>6 DEF Order
<1>12. WatchedAreRegistered'
  <2>1. ASSUME NEW t \in registered \ refused
        PROVE  /\ interest'[fd[t]].user = t
               /\ interest'[fd[t]].events = DesiresToEpollEvents(desire'[t])
    <3>1. fd[t] \in Watched
      BY <1>3
    <3>2. CASE t = s
      BY <1>9, <3>1, <3>2
    <3>3. CASE t # s
      <4>1. fd[t] # fd[s] /\ desire'[t] = desire[t]
        BY <1>1, <1>2, <1>4, <3>3
      <4>. QED
        BY <1>3, <1>9, <3>1, <4>1
    <3>. QED
      BY <3>2, <3>3
  <2>2. SignalFd \in Watched /\ SignalFd # fd[s]
    BY <1>1, <1>2, <1>3, FdNumbers
  <2>3. interest'[SignalFd] = interest[SignalFd]
    BY <1>9, <2>2
  <2>4. Watched' = {fd'[t] : t \in registered' \ refused'} \cup {SignalFd}
    BY <1>1, <1>3, <1>7
  <2>5. \A t \in registered' \ refused' :
          /\ interest'[fd'[t]].user = t
          /\ interest'[fd'[t]].events = DesiresToEpollEvents(desire'[t])
    BY <1>1, <2>1
  <2>. QED
    BY <1>3, <2>3, <2>4, <2>5 DEF WatchedAreRegistered
<1>. QED
  BY <1>5, <1>6, <1>10, <1>11, <1>12 DEF EpollIInv

(* The turns of the next step tell the descriptors apart, and one that is  *)
(* left out comes after others that were left out only.                    *)
TurnsTell(turn, ready, served) ==
    /\ \A f \in Watched : turn[f] \in Int
    /\ \A f, g \in Watched : turn[f] = turn[g] => f = g
    /\ \A f \in ready \ served, g \in Watched :
         turn[g] <= turn[f] => g \in ready \ served /\ interest[g].place <= interest[f].place

LEMMA TurnsOK ==
  ASSUME EventEntries, Order, NEW ready \in SUBSET Watched, NEW served \in SUBSET ready,
         NEW turn, turn = NextTurn(ready, served)
  PROVE  TurnsTell(turn, ready, served)
<1>1. PICK n : n = Cardinality(Watched)
  OBVIOUS
<1>2. /\ n \in Nat
      /\ \A f \in Watched : /\ interest[f].place \in Nat /\ interest[f].place >= 1
                            /\ interest[f].place <= n
  BY <1>1, PlaceBounds
<1>3. \A f \in Watched : turn[f] = interest[f].place + IF f \in ready \ served THEN 0
                                                      ELSE IF f \in served THEN n ELSE 2 * n
  BY <1>1 DEF NextTurn
<1>4. \A f, g \in Watched : interest[f].place = interest[g].place => f = g
  BY DEF Order
<1>5. \A f \in Watched : turn[f] \in Int
  BY <1>2, <1>3
<1>6. ASSUME NEW f \in Watched, NEW g \in Watched, turn[f] = turn[g] PROVE f = g
  <2>1. interest[f].place = interest[g].place
    BY <1>2, <1>3, <1>6
  <2>. QED
    BY <1>4, <2>1
<1>7. ASSUME NEW f \in ready \ served, NEW g \in Watched, turn[g] <= turn[f]
      PROVE  g \in ready \ served /\ interest[g].place <= interest[f].place
  BY <1>2, <1>3, <1>7
<1>. QED
  BY <1>5, <1>6, <1>7 DEF TurnsTell

LEMMA OneMoreStep ==
  ASSUME NEW q \in Nat, NEW m \in Nat
  PROVE  q * m \in Nat /\ (q + 1) * m = q * m + m
OBVIOUS

LEMMA ServedCount ==
  ASSUME EventEntries, Order, NEW ready \in SUBSET Watched, NEW n \in Nat,
         NEW reported \in [1 .. n -> ready], Reports(ready, reported),
         NEW served, served = Served(reported)
  PROVE  served \subseteq ready /\ IsFiniteSet(served) /\ Cardinality(served) = n
<1>1. \A f \in ready : interest[f].place \in Nat
  BY DEF EventEntries, EntryRec
<1>2. /\ served = {reported[i] : i \in 1 .. n} /\ \A i \in 1 .. n : reported[i] \in ready
      /\ \A i, j \in 1 .. n : i < j => interest[reported[i]].place < interest[reported[j]].place
  BY DEF Reports, Served
<1>3. ASSUME NEW i \in 1 .. n, NEW j \in 1 .. n, reported[i] = reported[j] PROVE i = j
  <2>1. CASE i < j
    <3>1. interest[reported[i]].place < interest[reported[j]].place
      BY <1>2, <2>1
    <3>. QED
      BY <1>1, <1>2, <1>3, <3>1
  <2>2. CASE j < i
    <3>1. interest[reported[j]].place < interest[reported[i]].place
      BY <1>2, <2>2
    <3>. QED
      BY <1>1, <1>2, <1>3, <3>1
  <2>3. i \in Int /\ j \in Int
    OBVIOUS
  <2>. QED
    BY <2>1, <2>2, <2>3
<1>4. reported \in Injection(1 .. n, served) /\ reported \in Surjection(1 .. n, served)
  <2>1. reported \in [1 .. n -> served] /\ DOMAIN reported = 1 .. n
    BY <1>2
  <2>2. IsInjective(reported)
    BY <1>3, <2>1 DEF IsInjective
  <2>. QED
    BY <1>2, <2>1, <2>2 DEF Injection, Surjection
<1>5. ExistsBijection(1 .. n, served)
  BY <1>4 DEF ExistsBijection, Bijection
<1>6. IsFiniteSet(1 .. n) /\ Cardinality(1 .. n) = n
  <2>1. 1 \in Int /\ n \in Int
    OBVIOUS
  <2>2. IsFiniteSet(1 .. n) /\ Cardinality(1 .. n) = IF 1 > n THEN 0 ELSE n - 1 + 1
    BY <2>1, FS_Interval
  <2>. QED
    BY <2>2
<1>7. IsFiniteSet(served) /\ Cardinality(served) = Cardinality(1 .. n)
  BY <1>5, <1>6, FS_Bijection
<1>. QED
  BY <1>2, <1>6, <1>7

LEMMA LoopStepOrder ==
  ASSUME EventEntries, Order, NEW happened, NEW ready \in SUBSET Watched,
         NEW reported \in [1 .. Count(ready) -> ready], EpollWait(happened, ready, reported)
  PROVE  /\ Watched' = Watched /\ EventEntries' /\ Order'
         /\ \A f \in Watched : /\ interest'[f].user = interest[f].user
                               /\ interest'[f].events = interest[f].events
<1>1. /\ MaxEventsPerStep \in Nat /\ Cardinality(EpollFds) \in Nat /\ IsFiniteSet(AllFds)
  BY FdNumbers
<1>2. /\ IsFiniteSet(Watched) /\ Cardinality(Watched) \in Nat
      /\ Cardinality(Watched) <= Cardinality(EpollFds) + 1
      /\ \A f \in Watched : /\ interest[f].place \in Nat /\ interest[f].place >= 1
                            /\ interest[f].place <= Cardinality(Watched)
  BY PlaceBounds
<1>3. IsFiniteSet(ready) /\ Cardinality(ready) \in Nat
  BY <1>2, FS_Subset, FS_CardinalityType
<1>4. PICK n, served : n = Count(ready) /\ served = Served(reported)
  OBVIOUS
<1>4a. /\ n \in Nat /\ n <= Cardinality(ready)
       /\ n = Cardinality(ready) \/ n = MaxEventsPerStep
  BY <1>1, <1>3, <1>4 DEF Count
<1>4b. /\ reported \in [1 .. n -> ready] /\ Reports(ready, reported)
       /\ interest' = InOrder(Watched, NextTurn(ready, served))
       /\ passed_over' = [f \in AllFds |-> IF f \notin ready \ served THEN 0
                                           ELSE IF TooLong(passed_over[f]) THEN passed_over[f]
                                           ELSE passed_over[f] + 1]
  BY <1>4 DEF EpollWait
<1>5. served \subseteq ready /\ IsFiniteSet(served) /\ Cardinality(served) = n
  BY <1>4, <1>4a, <1>4b, ServedCount
<1>6. PICK turn : turn = NextTurn(ready, served)
  OBVIOUS
<1>7. /\ \A f \in Watched : turn[f] \in Int
      /\ \A f, g \in Watched : turn[f] = turn[g] => f = g
      /\ \A f \in ready \ served, g \in Watched :
           turn[g] <= turn[f] => g \in ready \ served /\ interest[g].place <= interest[f].place
  <2>1. served \in SUBSET ready
    BY <1>5
  <2>2. TurnsTell(turn, ready, served)
    BY <1>6, <2>1, TurnsOK
  <2>. QED
    BY <2>2 DEF TurnsTell
<1>8. PICK fs : fs = Watched
  OBVIOUS
<1>9. /\ Watched' = fs /\ IsFiniteSet(fs)
      /\ \A f \in fs : /\ interest'[f] \in EntryRec
                       /\ interest'[f].user = interest[f].user
                       /\ interest'[f].events = interest[f].events
                       /\ interest'[f].place = Cardinality({g \in fs : turn[g] <= turn[f]})
      /\ \A f \in fs : interest'[f].place = Cardinality(UpTo(f)')
      /\ \A f, g \in fs : interest'[f].place = interest'[g].place => f = g
  <2>1. fs \in SUBSET Watched /\ interest' = InOrder(fs, turn)
    BY <1>4b, <1>6, <1>8
  <2>2. (\A f \in fs : turn[f] \in Int) /\ \A f, g \in fs : turn[f] = turn[g] => f = g
    BY <1>7, <1>8
  <2>. QED
    BY <2>1, <2>2, InOrderOK, Zenon
<1>10. EventEntries'
  BY <1>8, <1>9 DEF EventEntries
<1>11. /\ passed_over \in [AllFds -> Nat] /\ \A f \in AllFds : ~TooLong(passed_over[f])
       /\ Watched \subseteq AllFds
  BY DEF Order, NobodyStarves, EventEntries
<1>12. /\ passed_over' \in [AllFds -> Nat]
       /\ \A f \in AllFds : (f \notin ready \ served) => passed_over'[f] = 0
       /\ \A f \in AllFds : f \in ready \ served => passed_over'[f] = passed_over[f] + 1
  BY <1>4b, <1>11
<1>13. ASSUME NEW f \in Watched
       PROVE  interest'[f].place \in Nat /\ interest'[f].place >= 1
              /\ interest'[f].place <= Cardinality(Watched)
  <2>1. /\ Cardinality({g \in fs : turn[g] <= turn[f]}) \in Nat
        /\ Cardinality({g \in fs : turn[g] <= turn[f]}) >= 1
        /\ Cardinality({g \in fs : turn[g] <= turn[f]}) <= Cardinality(fs)
    BY <1>7, <1>8, <1>9, Ranks
  <2>. QED
    BY <1>8, <1>9, <2>1
<1>14. ASSUME NEW f \in ready \ served
       PROVE  interest'[f].place + MaxEventsPerStep <= interest[f].place
  <2>1. n = MaxEventsPerStep
    <3>1. CASE n = Cardinality(ready)
      <4>1. served = ready
        BY <1>3, <1>5, <3>1, FS_Subset
      <4>. QED
        BY <1>14, <4>1
    <3>. QED
      BY <1>4a, <3>1
  <2>2. PICK A : A = {g \in fs : turn[g] <= turn[f]}
    OBVIOUS
  <2>3. \A g \in A : g \in ready \ served /\ interest[g].place <= interest[f].place
    BY <1>7, <1>8, <2>2
  <2>4. A \subseteq UpTo(f) /\ A \cap served = {}
    BY <1>8, <2>2, <2>3 DEF UpTo
  <2>5. served \subseteq UpTo(f)
    <3>1. SUFFICES ASSUME NEW i \in DOMAIN reported PROVE reported[i] \in UpTo(f)
      BY <1>4 DEF Served
    <3>2. reported[i] \in ready
      BY <1>4b
    <3>3. f \in ready \ Served(reported)
      BY <1>4, <1>14
    <3>4. interest[reported[i]].place < interest[f].place
      BY <1>4b, <3>3 DEF Reports
    <3>5. interest[reported[i]].place <= interest[f].place
      BY <1>2, <3>2, <3>3, <3>4
    <3>. QED
      BY <3>2, <3>5 DEF UpTo
  <2>6. IsFiniteSet(UpTo(f)) /\ IsFiniteSet(A)
    <3>1. UpTo(f) \subseteq Watched /\ A \subseteq Watched
      BY <1>8, <2>2 DEF UpTo
    <3>. QED
      BY <1>2, <3>1, FS_Subset
  <2>7. Cardinality(A \cup served) <= Cardinality(UpTo(f))
    <3>1. A \cup served \subseteq UpTo(f)
      BY <2>4, <2>5
    <3>. QED
      BY <2>6, <3>1, FS_Subset
  <2>8. Cardinality(A \cup served) = Cardinality(A) + Cardinality(served)
    <3>1. Cardinality(A \cup served)
            = Cardinality(A) + Cardinality(served) - Cardinality(A \cap served)
      BY <1>5, <2>6, FS_Union
    <3>2. Cardinality(A \cap served) = 0
      BY <2>4, FS_EmptySet
    <3>3. Cardinality(A) \in Nat /\ Cardinality(served) \in Nat
      BY <1>5, <2>6, FS_CardinalityType
    <3>. QED
      BY <3>1, <3>2, <3>3
  <2>9. /\ interest[f].place = Cardinality(UpTo(f)) /\ interest'[f].place = Cardinality(A)
    BY <1>8, <1>9, <1>14, <2>2 DEF Order
  <2>. QED
    BY <1>5, <2>1, <2>7, <2>8, <2>9
<1>15. ASSUME NEW f \in Watched
       PROVE  /\ interest'[f].place + passed_over'[f] * MaxEventsPerStep
                   <= Cardinality(EpollFds) + 1
  <2>1. CASE f \in ready \ served
    <3>1. PICK a, b, m, q : /\ a = interest'[f].place /\ b = interest[f].place
                            /\ m = MaxEventsPerStep /\ q = passed_over[f]
      OBVIOUS
    <3>2. /\ a \in Nat /\ b \in Nat /\ m \in Nat /\ q \in Nat /\ a + m <= b
          /\ b + q * m <= Cardinality(EpollFds) + 1 /\ passed_over'[f] = q + 1
      BY <1>1, <1>2, <1>11, <1>12, <1>13, <1>14, <2>1, <3>1 DEF Order
    <3>3. (q + 1) * m = q * m + m /\ q * m \in Nat
      BY <3>2, OneMoreStep
    <3>4. a + (q + 1) * m <= Cardinality(EpollFds) + 1
      BY <1>1, <3>2, <3>3
    <3>. QED
      BY <3>1, <3>2, <3>4
  <2>2. CASE f \notin ready \ served
    <3>1. passed_over'[f] = 0
      BY <1>11, <1>12, <2>2
    <3>. QED
      BY <1>1, <1>2, <1>13, <3>1, ZeroSteps
  <2>. QED
    BY <2>1, <2>2
<1>16. NobodyStarves'
  <2>1. SUFFICES ASSUME NEW f \in AllFds PROVE ~TooLong(passed_over'[f])
    BY DEF NobodyStarves
  <2>2. CASE f \in ready \ served
    <3>1. PICK a, q : a = interest'[f].place /\ q = passed_over'[f] * MaxEventsPerStep
      OBVIOUS
    <3>2. f \in Watched /\ passed_over'[f] \in Nat
      BY <1>12, <2>2
    <3>3. a \in Nat /\ a >= 1 /\ a + q <= Cardinality(EpollFds) + 1
      BY <1>13, <1>15, <3>1, <3>2
    <3>3a. q \in Nat
      BY <1>1, <3>1, <3>2, OneMoreStep
    <3>4. ~(q > Cardinality(EpollFds))
      BY <1>1, <3>3, <3>3a
    <3>. QED
      BY <3>1, <3>4 DEF TooLong
  <2>3. CASE f \notin ready \ served
    BY <1>12, <2>3, ZeroSteps
  <2>. QED
    BY <2>2, <2>3
<1>17. Order'
  BY <1>8, <1>9, <1>12, <1>15, <1>16 DEF Order
<1>. QED
  BY <1>8, <1>9, <1>10, <1>17

LEMMA LoopStepOK ==
  ASSUME EpollIInv, loop_type = "EPOLL", loop_type' = loop_type,
         NEW happened \in [AllFds -> ReadySets], EpollLoopStep(happened)
  PROVE  EpollIInv'
<1>0. Descriptors /\ InHand /\ Deletions /\ EventEntries /\ Order /\ WatchedAreRegistered
  BY DEF EpollIInv
<1>1. /\ ppc = "callbacks" /\ ppc' = "next"
      /\ fd' = fd /\ registered' = registered /\ desire' = desire /\ event' = event
      /\ used' = used /\ refused' = refused /\ calledDead' = calledDead
      /\ doomed' = doomed /\ deleted' = deleted
  BY DEF EpollLoopStep
<1>2. PICK reported \in [1 .. Count(ReadyFds(happened)) -> ReadyFds(happened)] :
         EpollWait(happened, ReadyFds(happened), reported)
  BY DEF EpollLoopStep
<1>3. PICK ready, n : ready = ReadyFds(happened) /\ n = Count(ready)
  OBVIOUS
<1>4. /\ reported \in [1 .. Count(ready) -> ready] /\ EpollWait(happened, ready, reported)
  BY <1>2, <1>3
<1>5. /\ reported \in [1 .. n -> ready]
      /\ events' = [i \in 1 .. n |-> EpollEventOf(interest[reported[i]], happened[reported[i]])]
  BY <1>3, <1>4 DEF EpollWait
<1>6. ready \in SUBSET Watched
  BY <1>3 DEF ReadyFds
<1>7. /\ Watched' = Watched /\ EventEntries' /\ Order'
      /\ \A f \in Watched : /\ interest'[f].user = interest[f].user
                            /\ interest'[f].events = interest[f].events
  BY <1>0, <1>4, <1>6, LoopStepOrder
<1>8. /\ Watched = {fd[t] : t \in registered \ refused} \cup {SignalFd}
      /\ \A t \in registered \ refused : /\ interest[fd[t]].user = t
                                          /\ interest[fd[t]].events = DesiresToEpollEvents(desire[t])
      /\ interest[SignalFd].user = Null
      /\ interest[SignalFd].events = DesiresToEpollEvents({"Read", "Error"})
  BY <1>0 DEF WatchedAreRegistered
<1>9. Descriptors' /\ Deletions'
  BY <1>0, <1>1 DEF Descriptors, Deletions
<1>10. WatchedAreRegistered'
  <2>1. /\ SignalFd \in Watched /\ \A t \in registered \ refused : fd[t] \in Watched
    BY <1>8
  <2>2. Watched' = {fd'[t] : t \in registered' \ refused'} \cup {SignalFd}
    BY <1>1, <1>7, <1>8
  <2>3. \A t \in registered' \ refused' :
          /\ interest'[fd'[t]].user = t
          /\ interest'[fd'[t]].events = DesiresToEpollEvents(desire'[t])
    BY <1>1, <1>7, <1>8, <2>1
  <2>4. /\ interest'[SignalFd].user = Null
        /\ interest'[SignalFd].events = DesiresToEpollEvents({"Read", "Error"})
    BY <1>7, <1>8, <2>1
  <2>. QED
    BY <2>2, <2>3, <2>4 DEF WatchedAreRegistered
<1>11. \A f \in Watched : /\ interest[f].user \in Selectables \cup {Null}
                         /\ interest[f].user \notin deleted
  <2>1. deleted \subseteq Selectables /\ deleted \cap registered = {} /\ Null \notin deleted
    BY <1>0, FdNumbers DEF Deletions, Descriptors
  <2>2. registered \subseteq Selectables
    BY <1>0 DEF Descriptors
  <2>. QED
    BY <1>8, <2>1, <2>2
<1>12. n \in Nat /\ n <= MaxEventsPerStep
  <2>1. Cardinality(ready) \in Nat
    BY <1>0, <1>6, PlaceBounds, FS_Subset, FS_CardinalityType
  <2>. QED
    BY <1>3, <2>1, FdNumbers DEF Count
<1>13. ASSUME NEW i \in 1 .. n
       PROVE  events'[i] \in EventType /\ events'[i].user \notin deleted
  <2>1. PICK f : f = reported[i]
    OBVIOUS
  <2>2. f \in Watched /\ f \in AllFds
    BY <1>0, <1>5, <1>6, <2>1 DEF EventEntries
  <2>3. events'[i] = EpollEventOf(interest[f], happened[f])
    BY <1>5, <2>1
  <2>4. PICK r : r = Found(interest[f], happened[f])
    OBVIOUS
  <2>5. r \in SUBSET Happenings /\ EpollEventsToDesires(r) \in SUBSET Desires
    BY <2>2, <2>4, ReadyAssumption DEF Found, EpollEventsToDesires
  <2>6. events'[i] = [user |-> interest[f].user, revents |-> r, desires |-> EpollEventsToDesires(r)]
    BY <2>3, <2>4 DEF EpollEventOf
  <2>. QED
    BY <1>11, <2>2, <2>5, <2>6 DEF EventType
<1>14. events' \in Seq(EventType) /\ Len(events') = n
  <2>1. events' \in [1 .. n -> EventType]
    BY <1>5, <1>13
  <2>2. events' \in Seq(EventType)
    BY <1>12, <2>1, SeqDef
  <2>. QED
    BY <1>12, <2>1, <2>2, LenProperties
<1>15. InHand'
  <2>1. event.user = Null /\ Null \notin deleted
    BY <1>0, <1>1, FdNumbers DEF InHand, Deletions, Descriptors
  <2>. QED
    BY <1>1, <1>12, <1>13, <1>14, <2>1 DEF InHand
<1>16. HandlersOnlyForOpen'
  BY <1>1 DEF EpollIInv, HandlersOnlyForOpen
<1>. QED
  BY <1>7, <1>9, <1>10, <1>15, <1>16 DEF EpollIInv

-----------------------------------------------------------------------------
(* The other actions                                                       *)

(* Steps that leave what is watched alone.                                 *)
LEMMA WatchedAlone ==
  ASSUME EpollIInv, loop_type' = loop_type, interest' = interest, passed_over' = passed_over,
         loop_type = "EPOLL" =>
            fd' = fd /\ registered' = registered /\ refused' = refused /\ desire' = desire
  PROVE  EventEntries' /\ Order' /\ WatchedAreRegistered'
<1>0. EventEntries /\ Order /\ WatchedAreRegistered
  BY DEF EpollIInv
<1>1. Watched' = Watched /\ \A f : UpTo(f)' = UpTo(f)
  BY DEF Watched, UpTo
<1>2. EventEntries'
  BY <1>0, <1>1 DEF EventEntries
<1>3. Order'
  BY <1>0, <1>1 DEF Order, NobodyStarves
<1>4. WatchedAreRegistered'
  BY <1>0, <1>1 DEF WatchedAreRegistered
<1>. QED
  BY <1>2, <1>3, <1>4

LEMMA DispatchOK ==
  ASSUME EpollIInv, loop_type' = loop_type,
         TakeEvent \/ EventsDone \/ CallHandler \/ \E keep \in BOOLEAN : HandlerReturns(keep),
         UNCHANGED <<interest, doomed, deleted, passed_over>>
  PROVE  EpollIInv'
<1>0. Descriptors /\ InHand /\ Deletions /\ HandlersOnlyForOpen
  BY DEF EpollIInv
<1>1. /\ interest' = interest /\ doomed' = doomed /\ deleted' = deleted /\ passed_over' = passed_over
      /\ fd' = fd /\ registered' = registered /\ desire' = desire
      /\ used' = used /\ refused' = refused
  BY DEF TakeEvent, EventsDone, CallHandler, HandlerReturns, past
<1>2. EventEntries' /\ Order' /\ WatchedAreRegistered'
  BY <1>1, WatchedAlone
<1>3. Descriptors' /\ Deletions'
  BY <1>0, <1>1 DEF Descriptors, Deletions
<1>4. CASE TakeEvent
  <2>1. /\ ppc = "next" /\ events # <<>> /\ events' = Tail(events) /\ calledDead' = calledDead
        /\ \/ /\ Head(events).user \in registered
              /\ event' = Head(events) /\ ppc' = "call"
           \/ event' = event /\ ppc' = ppc
    BY <1>4 DEF TakeEvent, past
  <2>2. ppc' \in {"call", "next"}
    BY <2>1
  <2>3. ppc' = "call" => event'.user \in registered'
    BY <1>1, <2>1
  <2>4. ASSUME loop_type = "EPOLL"
        PROVE  /\ events' \in Seq(EventType) /\ Len(events') <= MaxEventsPerStep
               /\ event'.user \notin deleted
               /\ \A i \in 1 .. Len(events') : events'[i].user \notin deleted
    <3>1. /\ events \in Seq(EventType) /\ Len(events) <= MaxEventsPerStep
          /\ event.user \notin deleted
          /\ \A i \in 1 .. Len(events) : events[i].user \notin deleted
      BY <1>0, <2>1, <2>4 DEF InHand
    <3>2. /\ events' \in Seq(EventType) /\ Len(events') = Len(events) - 1
          /\ \A i \in 1 .. Len(events') : events'[i] = events[i + 1]
          /\ Head(events) = events[1] /\ Len(events) \in Nat /\ Len(events) >= 1
      BY <2>1, <3>1, HeadTailProperties, LenProperties, EmptySeq
    <3>3. \A i \in 1 .. Len(events') : i + 1 \in 1 .. Len(events)
      BY <3>2
    <3>. QED
      BY <2>1, <3>1, <3>2, <3>3, FdNumbers
  <2>5. InHand'
    BY <1>1, <2>2, <2>3, <2>4 DEF InHand
  <2>6. HandlersOnlyForOpen'
    BY <1>0, <2>1 DEF HandlersOnlyForOpen
  <2>. QED
    BY <1>2, <1>3, <2>5, <2>6 DEF EpollIInv
<1>5. CASE EventsDone
  <2>1. /\ events = <<>> /\ ppc' = "callbacks" /\ event' = NoEvent /\ events' = events
        /\ calledDead' = calledDead
    BY <1>5 DEF EventsDone, past
  <2>2. event'.user = Null
    BY <2>1 DEF NoEvent
  <2>3. InHand'
    BY <1>0, <1>1, <2>1, <2>2 DEF InHand
  <2>4. HandlersOnlyForOpen'
    BY <1>0, <2>1 DEF HandlersOnlyForOpen
  <2>. QED
    BY <1>2, <1>3, <2>3, <2>4 DEF EpollIInv
<1>6. CASE CallHandler
  <2>1. /\ ppc = "call" /\ event' = [event EXCEPT !.desires = @ \ {NextDesire(@)}]
        /\ calledDead' = (calledDead \/ fd[event.user] = NoFd)
        /\ ppc' = "handler" /\ events' = events
    BY <1>6 DEF CallHandler
  <2>2. event'.user = event.user
    BY <2>1
  <2>3. event.user \in registered /\ event.user \in Selectables
    BY <1>0, <2>1 DEF InHand, Descriptors
  <2>4. ~(fd[event.user] = NoFd)
    BY <1>0, <2>3 DEF Descriptors
  <2>5. HandlersOnlyForOpen'
    BY <1>0, <2>1, <2>4 DEF HandlersOnlyForOpen
  <2>6. InHand'
    BY <1>0, <1>1, <2>1, <2>2, <2>3 DEF InHand
  <2>. QED
    BY <1>2, <1>3, <2>5, <2>6 DEF EpollIInv
<1>7. CASE \E keep \in BOOLEAN : HandlerReturns(keep)
  <2>1. /\ ppc = "handler" /\ events' = events /\ event' = event /\ calledDead' = calledDead
        /\ (ppc' = "call" /\ fd[event.user] # NoFd) \/ ppc' = "next"
    BY <1>7 DEF HandlerReturns, past
  <2>2. event.user \in Selectables
    BY <1>0, <2>1 DEF InHand
  <2>3. ppc' = "call" => event.user \in registered
    BY <1>0, <2>1, <2>2 DEF Descriptors
  <2>4. InHand'
    BY <1>0, <1>1, <2>1, <2>3 DEF InHand
  <2>5. HandlersOnlyForOpen'
    BY <1>0, <2>1 DEF HandlersOnlyForOpen
  <2>. QED
    BY <1>2, <1>3, <2>4, <2>5 DEF EpollIInv
<1>. QED
  BY <1>4, <1>5, <1>6, <1>7

LEMMA CloseOK ==
  ASSUME EpollIInv, loop_type = "EPOLL", loop_type' = loop_type,
         NEW s \in Selectables, EpollClose(s)
  PROVE  EpollIInv'
<1>0. InHand /\ Deletions /\ HandlersOnlyForOpen
  BY DEF EpollIInv
<1>1. /\ ppc \in {"handler", "callbacks"} /\ {s} \in SUBSET registered /\ EpollCloseAll({s})
      /\ ppc' = ppc /\ doomed' = doomed /\ deleted' = deleted
  BY DEF EpollClose, UserCodeRuns
<1>2. /\ Descriptors' /\ EventEntries' /\ Order' /\ WatchedAreRegistered'
      /\ registered' = registered \ {s} /\ used' = used
      /\ events' = events /\ event' = event /\ calledDead' = calledDead
  BY <1>1, CloseAllOK
<1>3. InHand'
  BY <1>0, <1>1, <1>2 DEF InHand
<1>4. Deletions'
  BY <1>0, <1>1, <1>2 DEF Deletions
<1>5. HandlersOnlyForOpen'
  BY <1>0, <1>2 DEF HandlersOnlyForOpen
<1>. QED
  BY <1>2, <1>3, <1>4, <1>5 DEF EpollIInv

LEMMA RunDeleteOK ==
  ASSUME EpollIInv, loop_type = "EPOLL", loop_type' = loop_type,
         NEW s \in Selectables, RunDelete(s)
  PROVE  EpollIInv'
<1>0. InHand /\ Deletions /\ HandlersOnlyForOpen
  BY DEF EpollIInv
<1>1. PICK S : S = {s} \cap registered
  OBVIOUS
<1>2. /\ ppc = "callbacks" /\ ppc' = ppc /\ s \in doomed /\ S \in SUBSET registered
      /\ doomed' = doomed \ {s} /\ deleted' = deleted \cup {s} /\ EpollCloseAll(S)
  BY <1>1 DEF RunDelete
<1>3. /\ Descriptors' /\ EventEntries' /\ Order' /\ WatchedAreRegistered'
      /\ registered' = registered \ S /\ used' = used
      /\ events' = events /\ event' = event /\ calledDead' = calledDead
  BY <1>2, CloseAllOK
<1>4. InHand'
  <2>1. event'.user = Null /\ events' = <<>> /\ ppc' = "callbacks"
    BY <1>0, <1>2, <1>3 DEF InHand
  <2>2. events' \in Seq(EventType) /\ Len(events') = 0 /\ MaxEventsPerStep \in Nat
    BY <2>1, FdNumbers
  <2>. QED
    BY <2>1, <2>2 DEF InHand
<1>5. Deletions'
  BY <1>0, <1>1, <1>2, <1>3 DEF Deletions
<1>6. HandlersOnlyForOpen'
  BY <1>0, <1>3 DEF HandlersOnlyForOpen
<1>. QED
  BY <1>3, <1>4, <1>5, <1>6 DEF EpollIInv

LEMMA LoopEndsOK ==
  ASSUME EpollIInv, loop_type = "EPOLL", loop_type' = loop_type, EpollLoopEnds
  PROVE  EpollIInv'
<1>0. InHand /\ Deletions /\ HandlersOnlyForOpen /\ Descriptors
  BY DEF EpollIInv
<1>1. /\ ppc = "callbacks" /\ ppc' = "ended" /\ EpollCloseAll(registered)
      /\ doomed' = doomed /\ deleted' = deleted
  BY DEF EpollLoopEnds
<1>2. /\ Descriptors' /\ EventEntries' /\ Order' /\ WatchedAreRegistered'
      /\ registered' = registered \ registered /\ used' = used
      /\ events' = events /\ event' = event /\ calledDead' = calledDead
  BY <1>1, CloseAllOK
<1>3. InHand'
  <2>1. event'.user = Null /\ Null \notin deleted
    BY <1>0, <1>1, <1>2, FdNumbers DEF InHand, Deletions, Descriptors
  <2>. QED
    BY <1>0, <1>1, <1>2, <2>1 DEF InHand
<1>4. Deletions'
  BY <1>0, <1>1, <1>2 DEF Deletions
<1>5. HandlersOnlyForOpen'
  BY <1>0, <1>2 DEF HandlersOnlyForOpen
<1>. QED
  BY <1>2, <1>3, <1>4, <1>5 DEF EpollIInv

LEMMA DeleteInSelectLoopOK ==
  ASSUME EpollIInv, NEW s \in Selectables, DeleteInSelectLoop(s)
  PROVE  EpollIInv'
<1>0. Descriptors /\ InHand /\ Deletions /\ HandlersOnlyForOpen
  BY DEF EpollIInv
<1>1. /\ s \in used \ (doomed \cup deleted) /\ doomed' = doomed \cup {s} /\ deleted' = deleted
      /\ interest' = interest /\ passed_over' = passed_over
      /\ loop_type' = loop_type /\ fd' = fd /\ registered' = registered /\ desire' = desire
      /\ ppc' = ppc /\ events' = events /\ event' = event /\ used' = used /\ refused' = refused
      /\ calledDead' = calledDead
  BY DEF DeleteInSelectLoop, pollVars, past
<1>2. EventEntries' /\ Order' /\ WatchedAreRegistered'
  BY <1>1, WatchedAlone
<1>3. Descriptors'
  BY <1>0, <1>1 DEF Descriptors
<1>4. InHand'
  BY <1>0, <1>1 DEF InHand
<1>5. Deletions'
  BY <1>0, <1>1 DEF Deletions
<1>6. HandlersOnlyForOpen'
  BY <1>0, <1>1 DEF HandlersOnlyForOpen
<1>. QED
  BY <1>2, <1>3, <1>4, <1>5, <1>6 DEF EpollIInv

(* Loop() returns: what was in hand when it looked for events is nothing.  *)
LEMMA LoopStepFailsOK ==
  ASSUME EpollIInv, loop_type' = loop_type, ppc = "callbacks", ppc' = "ended",
         UNCHANGED <<fd, registered, desire, events, event, used, refused, calledDead,
                     interest, doomed, deleted, passed_over>>
  PROVE  EpollIInv'
<1>0. Descriptors /\ InHand /\ Deletions /\ HandlersOnlyForOpen
  BY DEF EpollIInv
<1>1. EventEntries' /\ Order' /\ WatchedAreRegistered'
  BY WatchedAlone
<1>2. Descriptors' /\ Deletions'
  BY <1>0 DEF Descriptors, Deletions
<1>3. InHand'
  <2>1. event.user = Null /\ Null \notin deleted
    BY <1>0, FdNumbers DEF InHand, Deletions, Descriptors
  <2>. QED
    BY <1>0, <2>1 DEF InHand
<1>4. HandlersOnlyForOpen'
  BY <1>0 DEF HandlersOnlyForOpen
<1>. QED
  BY <1>1, <1>2, <1>3, <1>4 DEF EpollIInv

-----------------------------------------------------------------------------
(* The other loop: its table does not matter to what Loop() has in hand    *)

LEMMA PollRegisterOK ==
  ASSUME EpollIInv, loop_type = "POLL", loop_type' = loop_type,
         NEW s \in Selectables, NEW f \in Fds, Register(s, f),
         UNCHANGED <<interest, doomed, deleted, passed_over>>
  PROVE  EpollIInv'
<1>0. Descriptors /\ InHand /\ Deletions /\ HandlersOnlyForOpen
  BY DEF EpollIInv
<1>1. /\ s \notin used /\ f \notin OpenFds
      /\ fd' = [fd EXCEPT ![s] = f] /\ used' = used \cup {s} /\ registered' = registered \cup {s}
      /\ desire' = desire /\ ppc' = ppc /\ events' = events /\ event' = event
      /\ calledDead' = calledDead
      /\ refused' = refused \/ refused' = refused \cup {s}
  BY DEF Register, Add
<1>2. EventEntries' /\ Order' /\ WatchedAreRegistered'
  BY WatchedAlone
<1>3. /\ registered \subseteq used /\ used \subseteq Selectables /\ refused \subseteq used
      /\ fd \in [Selectables -> Fds \cup {NoFd}] /\ desire \in [Selectables -> SUBSET Desires]
      /\ \A t \in Selectables : fd[t] # NoFd <=> t \in registered
      /\ \A t, u \in registered : fd[t] = fd[u] => t = u
  BY <1>0 DEF Descriptors
<1>4. f # NoFd /\ \A t \in Selectables : fd[t] # f
  BY <1>1, FdNumbers DEF OpenFds
<1>5. /\ fd'[s] = f /\ \A t \in Selectables : t # s => fd'[t] = fd[t]
      /\ fd' \in [Selectables -> Fds \cup {NoFd}]
  BY <1>1, <1>3
<1>6. Descriptors'
  <2>1. \A t \in Selectables : fd'[t] # NoFd <=> t \in registered'
    BY <1>1, <1>3, <1>4, <1>5
  <2>2. \A t, u \in registered' : fd'[t] = fd'[u] => t = u
    BY <1>1, <1>3, <1>4, <1>5
  <2>3. registered' \subseteq used' /\ used' \subseteq Selectables /\ refused' \subseteq used'
    BY <1>1, <1>3
  <2>. QED
    BY <1>1, <1>3, <1>5, <2>1, <2>2, <2>3 DEF Descriptors
<1>7. InHand'
  BY <1>0, <1>1 DEF InHand
<1>8. Deletions'
  BY <1>0, <1>1 DEF Deletions
<1>9. HandlersOnlyForOpen'
  BY <1>0, <1>1 DEF HandlersOnlyForOpen
<1>. QED
  BY <1>2, <1>6, <1>7, <1>8, <1>9 DEF EpollIInv

LEMMA PollCloseOK ==
  ASSUME EpollIInv, loop_type = "POLL", loop_type' = loop_type,
         NEW S \in SUBSET registered, CloseAll(S),
         (ppc' = ppc /\ ppc \in {"handler", "callbacks"}) \/ ppc' = "ended",
         UNCHANGED <<interest, doomed, deleted, passed_over>>
  PROVE  EpollIInv'
<1>0. Descriptors /\ InHand /\ Deletions /\ HandlersOnlyForOpen
  BY DEF EpollIInv
<1>1. /\ registered' = registered \ S
      /\ fd' = [s \in Selectables |-> IF s \in S THEN NoFd ELSE fd[s]]
      /\ desire' = desire /\ events' = events /\ event' = event
      /\ used' = used /\ refused' = refused /\ calledDead' = calledDead
  BY DEF CloseAll, past
<1>2. EventEntries' /\ Order' /\ WatchedAreRegistered'
  BY WatchedAlone
<1>3. /\ registered \subseteq used /\ used \subseteq Selectables /\ refused \subseteq used
      /\ fd \in [Selectables -> Fds \cup {NoFd}] /\ desire \in [Selectables -> SUBSET Desires]
      /\ \A t \in Selectables : fd[t] # NoFd <=> t \in registered
      /\ \A t, u \in registered : fd[t] = fd[u] => t = u
  BY <1>0 DEF Descriptors
<1>4. Descriptors'
  <2>1. /\ fd' \in [Selectables -> Fds \cup {NoFd}]
        /\ \A t \in Selectables : fd'[t] = IF t \in S THEN NoFd ELSE fd[t]
    BY <1>1, <1>3
  <2>2. \A t \in Selectables : fd'[t] # NoFd <=> t \in registered'
    BY <1>1, <1>3, <2>1
  <2>3. \A t \in registered' : t \in registered /\ t \in Selectables /\ fd'[t] = fd[t]
    BY <1>1, <1>3, <2>1
  <2>. QED
    BY <1>1, <1>3, <2>1, <2>2, <2>3 DEF Descriptors
<1>5. InHand'
  BY <1>0, <1>1 DEF InHand
<1>6. Deletions'
  BY <1>0, <1>1 DEF Deletions
<1>7. HandlersOnlyForOpen'
  BY <1>0, <1>1 DEF HandlersOnlyForOpen
<1>. QED
  BY <1>2, <1>4, <1>5, <1>6, <1>7 DEF EpollIInv

LEMMA PollEnableWriteOK ==
  ASSUME EpollIInv, loop_type = "POLL", loop_type' = loop_type,
         NEW s \in Selectables, NEW b \in BOOLEAN, EnableWriteCallback(s, b),
         UNCHANGED <<interest, doomed, deleted, passed_over>>
  PROVE  EpollIInv'
<1>0. Descriptors /\ InHand /\ Deletions /\ HandlersOnlyForOpen
  BY DEF EpollIInv
<1>1. /\ desire' = [desire EXCEPT ![s] = IF b THEN @ \cup {"Write"} ELSE @ \ {"Write"}]
      /\ fd' = fd /\ registered' = registered /\ used' = used /\ refused' = refused
      /\ ppc' = ppc /\ events' = events /\ event' = event /\ calledDead' = calledDead
  BY DEF EnableWriteCallback, past
<1>2. EventEntries' /\ Order' /\ WatchedAreRegistered'
  BY WatchedAlone
<1>3. desire' \in [Selectables -> SUBSET Desires]
  BY <1>0, <1>1 DEF Descriptors, Desires
<1>4. Descriptors' /\ Deletions'
  BY <1>0, <1>1, <1>3 DEF Descriptors, Deletions
<1>5. InHand'
  BY <1>0, <1>1 DEF InHand
<1>6. HandlersOnlyForOpen'
  BY <1>0, <1>1 DEF HandlersOnlyForOpen
<1>. QED
  BY <1>2, <1>4, <1>5, <1>6 DEF EpollIInv

LEMMA PollLoopStepOK ==
  ASSUME EpollIInv, loop_type = "POLL", loop_type' = loop_type, ppc' = "next",
         UNCHANGED <<fd, registered, desire, event, used, refused, calledDead,
                     interest, doomed, deleted, passed_over>>
  PROVE  EpollIInv'
<1>0. Descriptors /\ InHand /\ Deletions /\ HandlersOnlyForOpen
  BY DEF EpollIInv
<1>1. EventEntries' /\ Order' /\ WatchedAreRegistered'
  BY WatchedAlone
<1>2. Descriptors' /\ Deletions'
  BY <1>0 DEF Descriptors, Deletions
<1>3. InHand'
  BY DEF InHand
<1>4. HandlersOnlyForOpen'
  BY <1>0 DEF HandlersOnlyForOpen
<1>. QED
  BY <1>1, <1>2, <1>3, <1>4 DEF EpollIInv

-----------------------------------------------------------------------------
(* The theorems                                                            *)

LEMMA EpollInitOK == EpollInit => EpollIInv
<1>0. SUFFICES ASSUME EpollInit PROVE EpollIInv
  OBVIOUS
<1>1. /\ fd = [s \in Selectables |-> NoFd] /\ registered = {} /\ used = {} /\ refused = {}
      /\ desire = [s \in Selectables |-> {"Read", "Error"}]
      /\ ppc = "callbacks" /\ events = <<>> /\ event = NoEvent /\ ~calledDead
      /\ loop_type \in {"POLL", "EPOLL"}
      /\ doomed = {} /\ deleted = {} /\ passed_over = [f \in AllFds |-> 0]
  BY <1>0 DEF EpollInit, SelectorInit
<1>2. Descriptors
  BY <1>1 DEF Descriptors, Desires
<1>3. InHand
  <2>1. event.user = Null /\ Null \notin deleted
    BY <1>1 DEF NoEvent
  <2>2. events \in Seq(EventType) /\ Len(events) = 0 /\ MaxEventsPerStep \in Nat
    BY <1>1, FdNumbers
  <2>. QED
    BY <1>1, <2>1, <2>2 DEF InHand
<1>4. Deletions /\ HandlersOnlyForOpen
  BY <1>1 DEF Deletions, HandlersOnlyForOpen
<1>5. PICK e : e = EpollEntry(Null, {"POLLIN", "POLLRDHUP", "POLLERR"}, 1)
  OBVIOUS
<1>6. /\ Watched = {SignalFd} /\ interest[SignalFd] = e
  BY <1>0, <1>5 DEF EpollInit, Watched
<1>7. /\ e \in EntryRec /\ e.place = 1 /\ e.user = Null
      /\ e.events = {"POLLIN", "POLLRDHUP", "POLLERR"}
  BY <1>5 DEF EpollEntry, EntryRec, Happenings
<1>8. EventEntries
  BY <1>6, <1>7 DEF EventEntries, AllFds
<1>9. Order
  <2>1. UpTo(SignalFd) = {SignalFd}
    BY <1>6, <1>7 DEF UpTo
  <2>2. Cardinality({SignalFd}) = 1
    BY FS_Singleton
  <2>3. /\ passed_over \in [AllFds -> Nat] /\ \A f \in AllFds : passed_over[f] = 0
        /\ SignalFd \in AllFds
    BY <1>1 DEF AllFds
  <2>4. NobodyStarves
    BY <2>3, ZeroSteps DEF NobodyStarves
  <2>5. 1 + 0 * MaxEventsPerStep <= Cardinality(EpollFds) + 1
    BY FdNumbers, ZeroSteps
  <2>. QED
    BY <1>6, <1>7, <2>1, <2>2, <2>3, <2>4, <2>5 DEF Order
<1>10. WatchedAreRegistered
  <2>1. DesiresToEpollEvents({"Read", "Error"}) = {"POLLIN", "POLLRDHUP", "POLLERR"}
    <3>1. PICK g : g = [x \in Desires |-> CASE x = "Read"  -> {"POLLIN", "POLLRDHUP"}
                                             [] x = "Write" -> {"POLLOUT"}
                                             [] x = "Error" -> {"POLLERR"}]
      OBVIOUS
    <3>2. /\ g["Read"] = {"POLLIN", "POLLRDHUP"} /\ g["Error"] = {"POLLERR"}
      BY <3>1 DEF Desires
    <3>3. DesiresToEpollEvents({"Read", "Error"}) = UNION {g["Read"], g["Error"]}
      BY <3>2 DEF DesiresToEpollEvents
    <3>. QED
      BY <3>2, <3>3
  <2>. QED
    BY <1>1, <1>6, <1>7, <2>1 DEF WatchedAreRegistered
<1>. QED
  BY <1>2, <1>3, <1>4, <1>8, <1>9, <1>10 DEF EpollIInv

LEMMA EpollNextOK ==
  ASSUME EpollIInv, EpollNext
  PROVE  EpollIInv'
<1>1. loop_type = "EPOLL" /\ loop_type' = loop_type
  BY DEF EpollNext
<1>2. CASE \E s \in Selectables, f \in EpollFds : EpollRegister(s, f)
  BY <1>1, <1>2, RegisterOK
<1>3. CASE \E s \in Selectables : EpollClose(s)
  BY <1>1, <1>3, CloseOK
<1>4. CASE \E s \in Selectables, b \in BOOLEAN : EpollEnableWrite(s, b)
  BY <1>1, <1>4, EnableWriteOK
<1>5. CASE \E s \in Selectables : DeleteInSelectLoop(s)
  BY <1>5, DeleteInSelectLoopOK
<1>6. CASE \E s \in Selectables : RunDelete(s)
  BY <1>1, <1>6, RunDeleteOK
<1>7. CASE \E happened \in [AllFds -> ReadySets] : EpollLoopStep(happened)
  BY <1>1, <1>7, LoopStepOK
<1>8. CASE EpollLoopStepFails
  BY <1>1, <1>8, LoopStepFailsOK DEF EpollLoopStepFails
<1>9. CASE EpollLoopEnds
  BY <1>1, <1>9, LoopEndsOK
<1>10. CASE Dispatch
  BY <1>1, <1>10, DispatchOK DEF Dispatch
<1>. QED
  BY <1>2, <1>3, <1>4, <1>5, <1>6, <1>7, <1>8, <1>9, <1>10 DEF EpollNext

LEMMA PollNextOK ==
  ASSUME EpollIInv, PollNext, UNCHANGED <<interest, doomed, deleted, passed_over>>
  PROVE  EpollIInv'
<1>1. loop_type = "POLL" /\ loop_type' = loop_type
  BY DEF PollNext
<1>2. CASE \E s \in Selectables, f \in Fds : Register(s, f)
  BY <1>1, <1>2, PollRegisterOK
<1>3. CASE \E s \in Selectables : Close(s)
  <2>1. PICK s \in Selectables : Close(s)
    BY <1>3
  <2>2. {s} \in SUBSET registered /\ CloseAll({s}) /\ ppc' = ppc /\ ppc \in {"handler", "callbacks"}
    BY <2>1 DEF Close, UserCodeRuns
  <2>. QED
    BY <1>1, <2>2, PollCloseOK
<1>4. CASE \E s \in Selectables, b \in BOOLEAN : EnableWriteCallback(s, b)
  BY <1>1, <1>4, PollEnableWriteOK
<1>5. CASE \E revents \in [0 .. Compact.size - 1 -> ReadySets] : LoopStep(revents)
  <2>1. PICK revents : LoopStep(revents)
    BY <1>5
  <2>2. /\ ppc' = "next"
        /\ UNCHANGED <<fd, registered, desire, event, used, refused, calledDead>>
    BY <2>1 DEF LoopStep
  <2>. QED
    BY <1>1, <2>2, PollLoopStepOK
<1>6. CASE LoopStepFails
  BY <1>1, <1>6, LoopStepFailsOK DEF LoopStepFails
<1>7. CASE LoopEnds
  <2>1. registered \in SUBSET registered /\ CloseAll(registered) /\ ppc' = "ended"
    BY <1>7 DEF LoopEnds
  <2>. QED
    BY <1>1, <2>1, PollCloseOK
<1>8. CASE TakeEvent \/ EventsDone \/ CallHandler \/ \E keep \in BOOLEAN : HandlerReturns(keep)
  BY <1>1, <1>8, DispatchOK
<1>. QED
  BY <1>2, <1>3, <1>4, <1>5, <1>6, <1>7, <1>8 DEF PollNext

LEMMA EpollStutters ==
  ASSUME EpollIInv, UNCHANGED epollVars
  PROVE  EpollIInv'
<1>1. /\ interest' = interest /\ doomed' = doomed /\ deleted' = deleted
      /\ passed_over' = passed_over
      /\ loop_type' = loop_type /\ fd' = fd /\ registered' = registered /\ desire' = desire
      /\ ppc' = ppc /\ events' = events /\ event' = event /\ used' = used /\ refused' = refused
      /\ calledDead' = calledDead
  BY DEF epollVars, pollVars, past
<1>2. EventEntries' /\ Order' /\ WatchedAreRegistered'
  BY <1>1, WatchedAlone
<1>3. Descriptors' /\ Deletions'
  BY <1>1 DEF EpollIInv, Descriptors, Deletions
<1>4. InHand'
  BY <1>1 DEF EpollIInv, InHand
<1>5. HandlersOnlyForOpen'
  BY <1>1 DEF EpollIInv, HandlersOnlyForOpen
<1>. QED
  BY <1>2, <1>3, <1>4, <1>5 DEF EpollIInv

(* Every step of a Selector over either loop keeps the inductive           *)
(* invariant: Register, Close, changes of desire, deletions in the loop,   *)
(* epoll_wait with its order of service, and the dispatch of events.       *)
THEOREM EpollInvariance == SelectorSpec => []EpollIInv
<1>1. EpollIInv /\ [SelectorNext]_epollVars => EpollIInv'
  <2>1. SUFFICES ASSUME EpollIInv, [SelectorNext]_epollVars PROVE EpollIInv'
    OBVIOUS
  <2>2. CASE EpollNext
    BY <2>1, <2>2, EpollNextOK
  <2>3. CASE PollNext /\ UNCHANGED <<interest, doomed, deleted, passed_over>>
    BY <2>1, <2>3, PollNextOK
  <2>4. CASE UNCHANGED epollVars
    BY <2>1, <2>4, EpollStutters
  <2>. QED
    BY <2>1, <2>2, <2>3, <2>4 DEF SelectorNext
<1>. QED
  BY <1>1, EpollInitOK, PTL DEF SelectorSpec

(* EpollSelectorLoop: the kernel watches exactly the descriptors of the    *)
(* registered Selectables that epoll_ctl took, with the Selectable and the *)
(* events it desires now, however descriptors are closed and given out     *)
(* again; a step takes max_events_per_step events at most.                 *)
THEOREM EpollInvHolds == SelectorSpec => []EpollInv
<1>1. EpollIInv => EpollInv
  <2>1. SUFFICES ASSUME EpollIInv PROVE EpollTypeOK
    BY DEF EpollIInv, EpollInv
  <2>2. EventEntries /\ Order /\ Deletions /\ InHand
    BY <2>1 DEF EpollIInv
  <2>3. /\ Cardinality(Watched) \in Nat
        /\ \A f \in Watched : /\ interest[f].place \in Nat /\ interest[f].place >= 1
                              /\ interest[f].place <= Cardinality(Watched)
    BY <2>2, PlaceBounds
  <2>4. ASSUME NEW f \in Watched
        PROVE  interest[f] \in [user : Selectables \cup {Null}, events : SUBSET Happenings,
                                place : 1 .. Cardinality(Watched)]
    <3>1. PICK e : e = interest[f]
      OBVIOUS
    <3>2. e \in EntryRec /\ e.place \in 1 .. Cardinality(Watched)
      BY <2>2, <2>3, <3>1 DEF EventEntries
    <3>. QED
      BY <3>1, <3>2 DEF EntryRec
  <2>. QED
    BY <2>2, <2>4 DEF EpollTypeOK, EventEntries, Order, Deletions, InHand
<1>. QED
  BY <1>1, EpollInvariance, PTL

(* Selector::Loop calls the handlers of open Selectables only, over either *)
(* loop, and touches none of those that DeleteInSelectLoop deleted since   *)
(* LoopStep returned the events, whatever the handlers did in between.     *)
THEOREM StaleEventsHarmlessHolds == SelectorSpec => []StaleEventsHarmless
<1>1. EpollIInv => StaleEventsHarmless
  <2>1. SUFFICES ASSUME EpollIInv PROVE DeletedUntouched
    BY DEF EpollIInv, StaleEventsHarmless
  <2>2. Descriptors /\ Deletions /\ InHand
    BY <2>1 DEF EpollIInv
  <2>3. CASE loop_type = "POLL"
    BY <2>2, <2>3 DEF Deletions, DeletedUntouched
  <2>4. CASE loop_type = "EPOLL"
    <3>1. /\ events \in Seq(EventType)
          /\ ppc # "callbacks" => event.user \notin deleted
          /\ \A i \in 1 .. Len(events) : events[i].user \notin deleted
      BY <2>2, <2>4 DEF InHand
    <3>2. DOMAIN events = 1 .. Len(events)
      BY <3>1, LenProperties
    <3>. QED
      BY <3>1, <3>2 DEF DeletedUntouched
  <2>. QED
    BY <2>2, <2>3, <2>4 DEF Descriptors
<1>. QED
  BY <1>1, EpollInvariance, PTL

(* max_events_per_step starves nobody: a descriptor that stays ready is    *)
(* left out of at most |EpollFds| / max_events_per_step steps in a row,    *)
(* whatever is registered, closed or changed in between.                   *)
THEOREM NobodyStarvesHolds == SelectorSpec => []NobodyStarves
<1>1. EpollIInv => NobodyStarves
  BY DEF EpollIInv, Order
<1>. QED
  BY <1>1, EpollInvariance, PTL

-----------------------------------------------------------------------------
(* Alarms: the inductive invariant                                         *)

USE TimesAssumption

\* entries of the heap whose alarm was registered
HeapEntries == [time : 0 .. MaxTime, id : 0 .. alarm_id - 1]

(* Every entry carries the deadline of its own alarm, though the alarm may *)
(* have run or been unregistered since.                                    *)
HeapKept ==
    /\ alarm_timeouts \in Seq(HeapEntries)
    /\ \A i \in 1 .. Len(alarm_timeouts) :
         deadlines[alarm_timeouts[i].id] = alarm_timeouts[i].time

(* What LoopAlarms took was due when it read the clock.                    *)
TakenDue ==
    /\ end_alarms <= clock
    /\ to_run \in Seq(0 .. alarm_id - 1)
    /\ \A i \in 1 .. Len(to_run) : deadlines[to_run[i]] <= clock

(* An id is unused, registered, taken once, or done with.                  *)
OneUse ==
    /\ alarms \subseteq 0 .. alarm_id - 1
    /\ \A a \in Ids : a >= alarm_id => ran[a] = 0
    /\ \A a \in alarms : ran[a] = 0
    /\ \A i \in 1 .. Len(to_run) :
         /\ ran[to_run[i]] = 0 /\ to_run[i] \notin alarms
         /\ \A j \in 1 .. Len(to_run) : to_run[i] = to_run[j] => i = j

AlarmsIInv == AlarmsInv /\ HeapKept /\ TakenDue /\ OneUse

-----------------------------------------------------------------------------
(* Lemmas on the operators                                                 *)

(* push_heap and pop_heap leave the entries they are given, each once.     *)
LEMMA HeapIsSeq ==
  ASSUME NEW S, IsFiniteSet(S), NEW h \in Heaps(S)
  PROVE  h \in Seq(S) /\ Len(h) = Cardinality(S)
<1>1. Cardinality(S) \in Nat
  BY FS_CardinalityType
<1>2. h \in [1 .. Cardinality(S) -> S]
  BY DEF Heaps, SetToSeqs
<1>3. QED
  BY <1>1, <1>2

(* There are finitely many entries.                                        *)
LEMMA EntriesFinite ==
  ASSUME HeapKept
  PROVE  IsFiniteSet(Entries) /\ Entries \subseteq HeapEntries
<1>1. alarm_timeouts \in [1 .. Len(alarm_timeouts) -> HeapEntries] /\ Len(alarm_timeouts) \in Nat
  BY DEF HeapKept
<1>2. Entries = {alarm_timeouts[i] : i \in 1 .. Len(alarm_timeouts)}
  BY <1>1 DEF Entries
<1>3. alarm_timeouts \in Surjection(1 .. Len(alarm_timeouts), Entries)
  BY <1>1, <1>2 DEF Surjection
<1>4. IsFiniteSet(1 .. Len(alarm_timeouts))
  BY <1>1, FS_Interval
<1>5. QED
  BY <1>1, <1>2, <1>3, <1>4, FS_Surjection

(* num_registered_alarms_ never exceeds the number of alarms.              *)
LEMMA CountInRange ==
  ASSUME NEW A, A \subseteq Ids
  PROVE  Cardinality(A) \in 0 .. MaxAlarms
<1>1. IsFiniteSet(Ids) /\ Cardinality(Ids) = MaxAlarms
  BY FS_Interval DEF Ids
<1>2. IsFiniteSet(A) /\ Cardinality(A) <= MaxAlarms
  BY <1>1, FS_Subset
<1>3. Cardinality(A) \in Nat
  BY <1>2, FS_CardinalityType
<1>4. QED
  BY <1>2, <1>3

-----------------------------------------------------------------------------
(* The invariant is inductive                                              *)

LEMMA AlarmsInitIInv == AlarmsInit => AlarmsIInv
<1> SUFFICES ASSUME AlarmsInit PROVE AlarmsIInv
  OBVIOUS
<1> USE DEF AlarmsInit
<1>1. AlarmsTypeOK
  BY DEF AlarmsTypeOK, NoTime, InfiniteFuture, InfinitePast, Ids
<1>2. NeverEarly /\ RunsAtMostOnce
  BY DEF NeverEarly, RunsAtMostOnce
<1>3. HeapKept /\ TakenDue
  BY DEF HeapKept, TakenDue
<1>4. OneUse
  BY DEF OneUse
<1>5. QED
  BY <1>1, <1>2, <1>3, <1>4 DEF AlarmsIInv, AlarmsInv

(* A new alarm takes an id nobody holds, and its entry carries its         *)
(* deadline wherever the heap puts it.                                     *)
LEMMA RegisterKeeps ==
  ASSUME AlarmsIInv, NEW t \in Threads, RegisterAlarm(t)
  PROVE  AlarmsIInv'
<1> DEFINE e == [time |-> asked[t], id |-> alarm_id]
           S == Entries \cup {e}
<1> USE DEF AlarmsIInv, AlarmsInv, RegisterAlarm
<1>1. asked[t] \in 0 .. MaxTime /\ alarm_id \in Ids /\ alarm_id \in Nat /\ alarm_id + 1 \in 0 .. MaxAlarms
  BY DEF AlarmsTypeOK, Ids, NoTime
<1>2. e \in HeapEntries' /\ e.id = alarm_id /\ e.time = asked[t]
  BY <1>1 DEF HeapEntries
<1>3. HeapEntries \subseteq HeapEntries'
  BY <1>1 DEF HeapEntries
<1>4. S \subseteq HeapEntries' /\ IsFiniteSet(S) /\ S # {}
  BY <1>2, <1>3, EntriesFinite, FS_AddElement
<1> HIDE DEF e
<1>5. alarm_timeouts' \in Seq(S) /\ Len(alarm_timeouts') \in Nat \ {0}
  <2>1. alarm_timeouts' \in Heaps(S)
    BY DEF e
  <2>2. alarm_timeouts' \in Seq(S) /\ Len(alarm_timeouts') = Cardinality(S)
    BY <1>4, <2>1, HeapIsSeq
  <2>3. Cardinality(S) \in Nat /\ Cardinality(S) # 0
    BY <1>4, FS_CardinalityType, FS_EmptySet
  <2>4. QED
    BY <2>2, <2>3
<1>6. alarm_timeouts' \in Seq(HeapEntries')
  BY <1>4, <1>5
<1>7. \A a \in 0 .. alarm_id - 1 : deadlines'[a] = deadlines[a]
  BY <1>1 DEF AlarmsTypeOK, Ids
<1>8. deadlines'[alarm_id] = asked[t]
  BY <1>1 DEF AlarmsTypeOK
<1>9. \A x \in S : deadlines'[x.id] = x.time
  <2>1. ASSUME NEW x \in Entries PROVE deadlines'[x.id] = x.time
    <3>1. PICK i \in 1 .. Len(alarm_timeouts) : x = alarm_timeouts[i]
      BY DEF Entries, HeapKept
    <3>2. x.id \in 0 .. alarm_id - 1
      BY EntriesFinite DEF HeapEntries
    <3>3. deadlines[x.id] = x.time
      BY <3>1 DEF HeapKept
    <3>4. QED
      BY <1>7, <3>2, <3>3
  <2>2. QED
    BY <1>2, <1>8, <2>1
<1>10. HeapKept'
  <2>1. \A i \in 1 .. Len(alarm_timeouts') : alarm_timeouts'[i] \in S
    BY <1>5
  <2>2. QED
    BY <1>6, <1>9, <2>1 DEF HeapKept
<1>11. TakenDue'
  <2>1. to_run' \in Seq(0 .. alarm_id' - 1)
    BY <1>1 DEF TakenDue
  <2>2. \A i \in 1 .. Len(to_run) : to_run[i] \in 0 .. alarm_id - 1
    <3>1. to_run \in Seq(0 .. alarm_id - 1)
      BY DEF TakenDue
    <3>2. QED
      BY <3>1, ElementOfSeq
  <2>3. QED
    BY <1>7, <2>1, <2>2 DEF TakenDue
<1>12. OneUse'
  <2>1. alarms' \subseteq 0 .. alarm_id' - 1
    BY <1>1 DEF OneUse
  <2>2. \A a \in Ids : a >= alarm_id' => ran'[a] = 0
    BY <1>1 DEF OneUse, Ids
  <2>3. \A a \in alarms' : ran'[a] = 0
    BY <1>1 DEF OneUse
  <2>4. \A i \in 1 .. Len(to_run) : to_run[i] # alarm_id
    BY <1>1 DEF TakenDue
  <2>5. QED
    BY <2>1, <2>2, <2>3, <2>4 DEF OneUse
<1>13. AlarmsTypeOK'
  <2>1. alarms' \subseteq Ids
    BY <1>1 DEF AlarmsTypeOK
  <2>2. num_registered' \in 0 .. MaxAlarms
    BY <2>1, CountInRange
  <2>3. asked' \in [Threads -> 0 .. MaxTime \cup {NoTime}]
    BY DEF AlarmsTypeOK
  <2>4. deadlines' \in [Ids -> 0 .. MaxTime \cup {NoTime}]
    BY <1>1 DEF AlarmsTypeOK
  <2>5. \A i \in DOMAIN alarm_timeouts' :
          alarm_timeouts'[i] \in [time : 0 .. MaxTime, id : 0 .. alarm_id' - 1]
    <3>1. \A i \in DOMAIN alarm_timeouts' : alarm_timeouts'[i] \in HeapEntries'
      BY <1>6
    <3>2. QED
      BY <3>1, Zenon DEF HeapEntries
  <2>6. next_alarm_time' \in 0 .. MaxTime
    <3>1. alarm_timeouts'[Len(alarm_timeouts')] \in HeapEntries'
      BY <1>5, <1>6
    <3>2. QED
      BY <3>1 DEF HeapEntries
  <2>7. QED
    BY <1>1, <2>1, <2>2, <2>3, <2>4, <2>5, <2>6 DEF AlarmsTypeOK
<1>14. NeverEarly' /\ RunsAtMostOnce'
  BY DEF NeverEarly, RunsAtMostOnce
<1>15. QED
  BY <1>10, <1>11, <1>12, <1>13, <1>14

(* One turn of LoopAlarms removes one entry and looks at another: it takes *)
(* the alarm it looked at only while it is registered, and that alarm was  *)
(* due.                                                                    *)
LEMMA TakeKeeps ==
  ASSUME AlarmsIInv, TakeAlarm
  PROVE  AlarmsIInv'
<1> DEFINE S == Entries \ {alarm_timeouts[1]}
           b == Back.id
<1>1. /\ AlarmsTypeOK /\ NeverEarly /\ RunsAtMostOnce /\ HeapKept /\ TakenDue /\ OneUse
      /\ alarm_timeouts # <<>> /\ Back.time <= end_alarms
      /\ alarm_timeouts' \in Heaps(S) /\ alarms' = alarms \ {b}
      /\ to_run' = IF b \in alarms THEN Append(to_run, b) ELSE to_run
      /\ UNCHANGED <<clock, asked, alarm_id, next_alarm_time, num_registered, lpc, wait,
                     end_alarms, deadlines, early, ran>>
  BY DEF AlarmsIInv, AlarmsInv, TakeAlarm, Due
<1>2. /\ Back \in HeapEntries /\ b \in 0 .. alarm_id - 1 /\ deadlines[b] = Back.time
      /\ deadlines[b] <= clock
  <2>1. Len(alarm_timeouts) \in Nat /\ alarm_timeouts \in Seq(HeapEntries)
    BY <1>1 DEF HeapKept
  <2>2. Len(alarm_timeouts) \in 1 .. Len(alarm_timeouts)
    BY <1>1, <2>1
  <2>3. Back \in HeapEntries
    BY <2>1, <2>2, ElementOfSeq DEF Back
  <2>4. b \in 0 .. alarm_id - 1 /\ Back.time \in 0 .. MaxTime
    BY <2>3 DEF HeapEntries
  <2>5. deadlines[b] = Back.time
    BY <1>1, <2>2 DEF HeapKept, Back
  <2>6. end_alarms \in Int /\ clock \in Int /\ end_alarms <= clock
    BY <1>1 DEF AlarmsTypeOK, TakenDue
  <2>7. QED
    BY <1>1, <2>3, <2>4, <2>5, <2>6
<1>3. alarm_id \in Nat /\ alarm_id <= MaxAlarms /\ b \in Ids /\ HeapEntries' = HeapEntries
  BY <1>1, <1>2 DEF AlarmsTypeOK, Ids, HeapEntries
<1>4. IsFiniteSet(S) /\ S \subseteq HeapEntries
  BY <1>1, EntriesFinite, FS_Subset
<1>5. alarm_timeouts' \in Seq(S) /\ alarm_timeouts' \in Seq(HeapEntries)
  <2>1. alarm_timeouts' \in Seq(S)
    BY <1>1, <1>4, HeapIsSeq
  <2>2. QED
    BY <1>4, <2>1
<1> HIDE DEF S, b
<1>6. HeapKept'
  <2>1. ASSUME NEW i \in 1 .. Len(alarm_timeouts')
        PROVE  deadlines[alarm_timeouts'[i].id] = alarm_timeouts'[i].time
    <3>1. alarm_timeouts'[i] \in Entries
      BY <1>5, ElementOfSeq DEF S
    <3>2. PICK k \in 1 .. Len(alarm_timeouts) : alarm_timeouts'[i] = alarm_timeouts[k]
      BY <1>1, <3>1 DEF Entries, HeapKept
    <3>3. QED
      BY <1>1, <3>2 DEF HeapKept
  <2>2. QED
    BY <1>1, <1>3, <1>5, <2>1 DEF HeapKept
<1>7. /\ to_run \in Seq(0 .. alarm_id - 1) /\ Len(to_run) \in Nat
      /\ to_run' \in Seq(0 .. alarm_id - 1) /\ Len(to_run') \in Nat
      /\ \A i \in 1 .. Len(to_run') :
           \/ i \in 1 .. Len(to_run) /\ to_run'[i] = to_run[i]
           \/ i = Len(to_run) + 1 /\ b \in alarms /\ to_run'[i] = b
      /\ \A i \in 1 .. Len(to_run) : to_run[i] \notin alarms
  <2>1. to_run \in Seq(0 .. alarm_id - 1) /\ Len(to_run) \in Nat
        /\ \A i \in 1 .. Len(to_run) : to_run[i] \notin alarms
    BY <1>1 DEF TakenDue, OneUse
  <2>2. CASE b \in alarms
    <3>1. to_run' = Append(to_run, b)
      BY <1>1, <2>2
    <3>2. QED
      BY <1>2, <2>1, <2>2, <3>1 DEF b
  <2>3. CASE b \notin alarms
    BY <1>1, <2>1, <2>3
  <2>4. QED
    BY <2>2, <2>3
<1>8. TakenDue'
  <2>1. \A i \in 1 .. Len(to_run') : deadlines[to_run'[i]] <= clock
    BY <1>1, <1>2, <1>7 DEF TakenDue, b
  <2>2. QED
    BY <1>1, <1>7, <2>1 DEF TakenDue
<1>9. OneUse'
  <2>1. ASSUME NEW i \in 1 .. Len(to_run')
        PROVE  /\ ran[to_run'[i]] = 0 /\ to_run'[i] \notin alarms'
               /\ \A j \in 1 .. Len(to_run') : to_run'[i] = to_run'[j] => i = j
    <3>1. ran[to_run'[i]] = 0 /\ to_run'[i] \notin alarms'
      BY <1>1, <1>7 DEF OneUse
    <3>2. ASSUME NEW j \in 1 .. Len(to_run'), to_run'[i] = to_run'[j] PROVE i = j
      BY <1>1, <1>7, <3>2 DEF OneUse
    <3>3. QED
      BY <3>1, <3>2
  <2>2. QED
    BY <1>1, <2>1 DEF OneUse
<1>10. AlarmsTypeOK'
  <2>1. \A i \in DOMAIN alarm_timeouts' :
          alarm_timeouts'[i] \in [time : 0 .. MaxTime, id : 0 .. alarm_id - 1]
    <3>1. \A i \in DOMAIN alarm_timeouts' : alarm_timeouts'[i] \in HeapEntries
      BY <1>5
    <3>2. QED
      BY <3>1, Zenon DEF HeapEntries
  <2>2. \A i \in DOMAIN to_run' : to_run'[i] \in Ids
    <3>1. \A i \in DOMAIN to_run' : to_run'[i] \in 0 .. alarm_id - 1
      BY <1>7, LenProperties, ElementOfSeq
    <3>2. QED
      BY <1>3, <3>1 DEF Ids
  <2>3. alarms' \subseteq Ids
    BY <1>1 DEF AlarmsTypeOK
  <2>4. QED
    BY <1>1, <2>1, <2>2, <2>3 DEF AlarmsTypeOK
<1>11. NeverEarly' /\ RunsAtMostOnce'
  BY <1>1 DEF NeverEarly, RunsAtMostOnce
<1>12. QED
  BY <1>6, <1>8, <1>9, <1>10, <1>11 DEF AlarmsIInv, AlarmsInv

(* callback(): the alarm was taken once, and its deadline has passed.      *)
LEMMA RunKeeps ==
  ASSUME AlarmsIInv, RunAlarm
  PROVE  AlarmsIInv'
<1> DEFINE a == Head(to_run)
<1>1. /\ AlarmsTypeOK /\ NeverEarly /\ RunsAtMostOnce /\ HeapKept /\ TakenDue /\ OneUse
      /\ to_run # <<>> /\ to_run' = Tail(to_run)
      /\ ran' = [ran EXCEPT ![a] = @ + 1]
      /\ early' = IF clock < deadlines[a] THEN early \cup {a} ELSE early
      /\ UNCHANGED <<clock, asked, alarm_id, alarms, alarm_timeouts, next_alarm_time,
                     num_registered, lpc, wait, end_alarms, deadlines>>
  BY DEF AlarmsIInv, AlarmsInv, RunAlarm, shared
<1>2. /\ a = to_run[1] /\ a \in 0 .. alarm_id - 1 /\ Len(to_run) \in Nat \ {0}
      /\ to_run' \in Seq(0 .. alarm_id - 1) /\ Len(to_run') = Len(to_run) - 1
      /\ \A i \in 1 .. Len(to_run') : i + 1 \in 1 .. Len(to_run) /\ to_run'[i] = to_run[i + 1]
  <2>1. to_run \in Seq(0 .. alarm_id - 1) /\ to_run # <<>> /\ to_run' = Tail(to_run)
    BY <1>1 DEF TakenDue
  <2>2. /\ a \in 0 .. alarm_id - 1 /\ a = to_run[1] /\ Len(to_run) \in Nat \ {0}
        /\ to_run' \in Seq(0 .. alarm_id - 1) /\ Len(to_run') = Len(to_run) - 1
    <3>1. Len(to_run) \in Nat \ {0}
      BY <2>1
    <3>2. a = to_run[1]
      BY <2>1
    <3>3. QED
      BY <2>1, <3>1, <3>2, HeadTailProperties
  <2>3. \A i \in 1 .. Len(to_run') : i + 1 \in 1 .. Len(to_run) /\ to_run'[i] = to_run[i + 1]
    BY <2>1, <2>2
  <2>4. QED
    BY <2>2, <2>3
<1>3. /\ 1 \in 1 .. Len(to_run) /\ ran[a] = 0 /\ a \notin alarms /\ deadlines[a] <= clock
      /\ \A i \in 1 .. Len(to_run) : to_run[i] = a => i = 1
  BY <1>1, <1>2 DEF OneUse, TakenDue
<1> HIDE DEF a
<1>4. a \in Ids /\ alarm_id \in Nat /\ alarm_id <= MaxAlarms
  BY <1>1, <1>2 DEF AlarmsTypeOK, Ids
<1>5. ran' \in [Ids -> Nat] /\ ran'[a] = 1 /\ \A x \in Ids : x # a => ran'[x] = ran[x]
  BY <1>1, <1>3, <1>4 DEF AlarmsTypeOK
<1>6. early' = {}
  <2>1. deadlines[a] \in Int /\ clock \in Int
    BY <1>1, <1>4 DEF AlarmsTypeOK, NoTime
  <2>2. ~(clock < deadlines[a])
    BY <1>3, <2>1
  <2>3. QED
    BY <1>1, <2>2 DEF NeverEarly
<1>7. AlarmsTypeOK'
  <2>1. \A i \in DOMAIN to_run' : to_run'[i] \in Ids
    <3>1. \A i \in DOMAIN to_run' : to_run'[i] \in 0 .. alarm_id - 1
      BY <1>2, LenProperties, ElementOfSeq
    <3>2. QED
      BY <1>4, <3>1 DEF Ids
  <2>2. QED
    BY <1>1, <1>5, <1>6, <2>1 DEF AlarmsTypeOK
<1>8. NeverEarly' /\ RunsAtMostOnce'
  <2>1. RunsAtMostOnce'
    BY <1>1, <1>5 DEF RunsAtMostOnce
  <2>2. QED
    BY <1>6, <2>1 DEF NeverEarly
<1>9. HeapKept' /\ TakenDue'
  <2>1. HeapKept'
    BY <1>1 DEF HeapKept, HeapEntries
  <2>2. TakenDue'
    BY <1>1, <1>2 DEF TakenDue
  <2>3. QED
    BY <2>1, <2>2
<1>10. OneUse'
  <2>1. alarms' \subseteq 0 .. alarm_id' - 1 /\ alarms \subseteq Ids
    BY <1>1 DEF OneUse, AlarmsTypeOK
  <2>2. \A x \in Ids : x >= alarm_id' => ran'[x] = 0
    BY <1>1, <1>2, <1>4, <1>5 DEF OneUse, Ids
  <2>3. \A x \in alarms' : ran'[x] = 0
    BY <1>1, <1>3, <1>5, <2>1 DEF OneUse
  <2>4. ASSUME NEW i \in 1 .. Len(to_run')
        PROVE  /\ ran'[to_run'[i]] = 0 /\ to_run'[i] \notin alarms'
               /\ \A j \in 1 .. Len(to_run') : to_run'[i] = to_run'[j] => i = j
    <3>1. i + 1 \in 1 .. Len(to_run) /\ to_run'[i] = to_run[i + 1]
      BY <1>2
    <3>2. to_run[i + 1] # a /\ ran[to_run[i + 1]] = 0 /\ to_run[i + 1] \notin alarms
      BY <1>1, <1>3, <3>1 DEF OneUse
    <3>3. to_run'[i] \in Ids
      <4>1. to_run'[i] \in 0 .. alarm_id - 1
        BY <1>2, ElementOfSeq
      <4>2. QED
        BY <1>4, <4>1 DEF Ids
    <3>4. ASSUME NEW j \in 1 .. Len(to_run'), to_run'[i] = to_run'[j] PROVE i = j
      <4>1. j + 1 \in 1 .. Len(to_run) /\ to_run'[j] = to_run[j + 1]
        BY <1>2
      <4>2. i + 1 = j + 1
        BY <1>1, <3>1, <3>4, <4>1 DEF OneUse
      <4>3. QED
        BY <4>2
    <3>5. QED
      BY <1>1, <1>5, <3>1, <3>2, <3>3, <3>4
  <2>5. QED
    BY <2>1, <2>2, <2>3, <2>4 DEF OneUse
<1>11. QED
  BY <1>7, <1>8, <1>9, <1>10 DEF AlarmsIInv, AlarmsInv

(* The steps that leave the alarms and the functions taken alone.          *)
LEMMA OthersKeep ==
  ASSUME AlarmsIInv,
         \/ Tick \/ LoopTop \/ PollReturns \/ LoopAlarms \/ TakeDone \/ RunDone
         \/ \E t \in Threads, d \in Delays : AskAlarm(t, d)
         \/ \E a \in Ids : UnregisterAlarm(a)
         \/ UNCHANGED alarmsVars
  PROVE  AlarmsIInv'
<1>1. /\ AlarmsTypeOK /\ NeverEarly /\ RunsAtMostOnce /\ HeapKept /\ TakenDue /\ OneUse
  BY DEF AlarmsIInv, AlarmsInv
<1>2. /\ UNCHANGED <<alarm_id, alarm_timeouts, to_run, deadlines, early, ran>>
      /\ alarms' \subseteq alarms
  BY DEF Tick, LoopTop, PollReturns, LoopAlarms, TakeDone, RunDone, AskAlarm,
         UnregisterAlarm, alarmsVars, shared
<1>3. /\ clock' \in 0 .. MaxTime /\ clock <= clock' /\ clock \in Int
      /\ end_alarms' \in 0 .. MaxTime /\ end_alarms' <= clock'
  BY <1>1 DEF AlarmsTypeOK, TakenDue, Tick, LoopTop, PollReturns, LoopAlarms, TakeDone,
         RunDone, AskAlarm, UnregisterAlarm, alarmsVars, shared
<1>4. NeverEarly' /\ RunsAtMostOnce' /\ OneUse'
  BY <1>1, <1>2 DEF NeverEarly, RunsAtMostOnce, OneUse
<1>5. HeapKept'
  BY <1>1, <1>2 DEF HeapKept, HeapEntries
<1>6. TakenDue'
  <2>1. ASSUME NEW i \in 1 .. Len(to_run) PROVE deadlines[to_run[i]] <= clock'
    <3>1. to_run[i] \in 0 .. alarm_id - 1
      BY <1>1, ElementOfSeq DEF TakenDue
    <3>2. to_run[i] \in Ids
      BY <1>1, <3>1 DEF AlarmsTypeOK, Ids
    <3>3. deadlines[to_run[i]] \in Int
      BY <1>1, <3>2 DEF AlarmsTypeOK, NoTime
    <3>4. QED
      BY <1>1, <1>3, <3>3 DEF TakenDue
  <2>2. QED
    BY <1>1, <1>2, <1>3, <2>1 DEF TakenDue
<1>7. AlarmsTypeOK'
  <2>1. alarms' \subseteq Ids /\ alarms \subseteq Ids
    BY <1>1, <1>2 DEF AlarmsTypeOK
  <2>2. num_registered' \in 0 .. MaxAlarms
    <3>1. Cardinality(alarms') \in 0 .. MaxAlarms /\ Cardinality(alarms) \in 0 .. MaxAlarms
      BY <2>1, CountInRange
    <3>2. num_registered' \in {num_registered, Cardinality(alarms), Cardinality(alarms')}
      BY DEF Tick, LoopTop, PollReturns, LoopAlarms, TakeDone, RunDone, AskAlarm,
         UnregisterAlarm, alarmsVars, shared
    <3>3. QED
      BY <1>1, <3>1, <3>2 DEF AlarmsTypeOK
  <2>3. asked' \in [Threads -> 0 .. MaxTime \cup {NoTime}]
    <3>1. ASSUME NEW t \in Threads, NEW d \in Delays, AskAlarm(t, d)
          PROVE  asked' \in [Threads -> 0 .. MaxTime \cup {NoTime}]
      <4>1. clock + d \in 0 .. MaxTime
        BY <1>1, <3>1 DEF AskAlarm, AlarmsTypeOK
      <4>2. QED
        BY <1>1, <3>1, <4>1 DEF AskAlarm, AlarmsTypeOK
    <3>2. CASE asked' = asked
      BY <1>1, <3>2 DEF AlarmsTypeOK
    <3>3. QED
      BY <3>1, <3>2 DEF Tick, LoopTop, PollReturns, LoopAlarms, TakeDone, RunDone,
         UnregisterAlarm, alarmsVars, shared
  <2>4. next_alarm_time' \in 0 .. MaxTime \cup {InfinitePast, InfiniteFuture}
    <3>1. CASE next_alarm_time' = next_alarm_time
      BY <1>1, <3>1 DEF AlarmsTypeOK
    <3>2. CASE TakeDone
      <4>1. CASE alarm_timeouts = <<>>
        BY <3>2, <4>1 DEF TakeDone
      <4>2. CASE alarm_timeouts # <<>>
        <5>1. alarm_timeouts \in Seq(HeapEntries)
          BY <1>1 DEF HeapKept
        <5>2. Len(alarm_timeouts) \in 1 .. Len(alarm_timeouts)
          BY <4>2, <5>1
        <5>3. Back \in HeapEntries
          BY <5>1, <5>2, ElementOfSeq DEF Back
        <5>4. QED
          BY <3>2, <4>2, <5>3 DEF TakeDone, HeapEntries
      <4>3. QED
        BY <4>1, <4>2
    <3>3. QED
      BY <3>1, <3>2 DEF Tick, LoopTop, PollReturns, LoopAlarms, RunDone, AskAlarm,
         UnregisterAlarm, alarmsVars, shared
  <2>5. wait' \in 0 .. DefaultTimeout
    <3>1. wait' \in {wait, 0, LoopTimeout} \/ (wait > 0 /\ wait' = wait - 1)
      BY DEF Tick, LoopTop, PollReturns, LoopAlarms, TakeDone, RunDone, AskAlarm,
         UnregisterAlarm, alarmsVars, shared
    <3>2. next_alarm_time \in Int /\ clock \in Int
      BY <1>1 DEF AlarmsTypeOK, InfinitePast, InfiniteFuture
    <3>3. LoopTimeout \in 0 .. DefaultTimeout
      BY <3>2 DEF LoopTimeout
    <3>4. QED
      BY <1>1, <3>1, <3>3 DEF AlarmsTypeOK
  <2>6. lpc' \in {"top", "poll", "alarms", "take", "run"}
    BY <1>1 DEF AlarmsTypeOK, Tick, LoopTop, PollReturns, LoopAlarms, TakeDone, RunDone,
         AskAlarm, UnregisterAlarm, alarmsVars, shared
  <2>7. QED
    BY <1>1, <1>2, <1>3, <2>1, <2>2, <2>3, <2>4, <2>5, <2>6 DEF AlarmsTypeOK
<1>8. QED
  BY <1>4, <1>5, <1>6, <1>7 DEF AlarmsIInv, AlarmsInv

(* One step of the clock, of a thread or of the loop.                      *)
LEMMA AlarmsNextIInv == AlarmsIInv /\ [AlarmsNext]_alarmsVars => AlarmsIInv'
  BY RegisterKeeps, TakeKeeps, RunKeeps, OthersKeep DEF AlarmsNext, LoopNext

-----------------------------------------------------------------------------
(* The theorems                                                            *)

(* The inductive invariant holds in every state of the alarms.             *)
THEOREM AlarmsInvariance == AlarmsSpec => []AlarmsIInv
  BY AlarmsInitIInv, AlarmsNextIInv, PTL DEF AlarmsSpec

(* No alarm runs before its deadline or twice, in whatever order the heap  *)
(* gives the alarms out and whenever they are unregistered.                *)
THEOREM AlarmsInvHolds == AlarmsSpec => []AlarmsInv
<1>1. AlarmsIInv => AlarmsInv
  BY DEF AlarmsIInv
<1>2. QED
  BY <1>1, AlarmsInvariance, PTL

(* Selector's alarms implement AlarmService: a step that looks at an entry *)
(* whose alarm is gone is a stutter, and no other step takes an alarm.     *)
THEOREM AlarmsRefineService == AlarmsSpec => ImplementsService
<1>1. AlarmsInit => Service!AlarmInit
  BY DEF AlarmsInit, Service!AlarmInit
<1>2. [AlarmsNext]_alarmsVars => [Service!AlarmNext]_Service!alarmVars
  <2> SUFFICES ASSUME [AlarmsNext]_alarmsVars
               PROVE  [Service!AlarmNext]_Service!alarmVars
    OBVIOUS
  <2> USE DEF Service!alarmVars, shared
  <2>1. ASSUME NEW t \in Threads, RegisterAlarm(t) PROVE Service!AlarmNext
    BY <2>1 DEF RegisterAlarm, Service!RegisterAlarm, Service!AlarmNext
  <2>2. ASSUME NEW a \in Ids, UnregisterAlarm(a) PROVE Service!AlarmNext
    <3>1. Service!UnregisterAlarm({a})
      BY <2>2 DEF UnregisterAlarm, Service!UnregisterAlarm
    <3>2. QED
      BY <3>1 DEF Service!AlarmNext, Ids
  <2>3. ASSUME TakeAlarm PROVE [Service!AlarmNext]_Service!alarmVars
    <3>1. CASE Back.id \in alarms
      <4>1. Service!TakeAlarm(Back.id)
        BY <2>3, <3>1 DEF TakeAlarm, Service!TakeAlarm
      <4>2. QED
        BY <3>1, <4>1 DEF Service!AlarmNext
    <3>2. CASE Back.id \notin alarms
      BY <2>3, <3>2 DEF TakeAlarm
    <3>3. QED
      BY <3>1, <3>2
  <2>4. ASSUME RunAlarm PROVE Service!AlarmNext
    BY <2>4 DEF RunAlarm, Service!RunAlarm, Service!AlarmNext
  <2>5. ASSUME \/ Tick \/ LoopTop \/ PollReturns \/ LoopAlarms \/ TakeDone \/ RunDone
               \/ \E t \in Threads, d \in Delays : AskAlarm(t, d)
               \/ UNCHANGED alarmsVars
        PROVE  UNCHANGED Service!alarmVars
    BY <2>5 DEF Tick, LoopTop, PollReturns, LoopAlarms, TakeDone, RunDone, AskAlarm,
       alarmsVars
  <2>6. QED
    BY <2>1, <2>2, <2>3, <2>4, <2>5 DEF AlarmsNext, LoopNext
<1>3. QED
  BY <1>1, <1>2, PTL DEF AlarmsSpec, ImplementsService, Service!AlarmSpec

=============================================================================
