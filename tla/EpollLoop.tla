------------------------------- MODULE EpollLoop -------------------------------
(***************************************************************************)
(* The Selector of SelectorPoll with an EpollSelectorLoop underneath       *)
(* (whisperlib/net/selector_loop.cc): the kernel keeps the descriptors and *)
(* hands out at most max_events_per_step events in a step.  The dispatch   *)
(* of events is the one of SelectorPoll.  Selectables are also deleted     *)
(* here, by functions queued with Selector::DeleteInSelectLoop, as         *)
(* SslAcceptor and Acceptor::CallAcceptHandler do.                         *)
(***************************************************************************)
EXTENDS SelectorPoll

CONSTANTS
    EpollFds,          \* those of Fds that the kernel hands out here
    MaxEventsPerStep,  \* max_events_per_step
    MaxUsed            \* bound on the Selectables that are ever registered

ASSUME EpollAssumption ==
    /\ EpollFds \subseteq Fds /\ IsFiniteSet(EpollFds)
    /\ MaxEventsPerStep \in Nat \ {0} /\ MaxUsed \in Nat

VARIABLES
    interest,    \* what epfd_ watches: descriptor -> user data, events, and its
                 \* place in the order in which epoll_wait looks at them
    doomed,      \* Selectables whose deletion is queued in to_run_
    deleted,     \* Selectables that are gone
    passed_over  \* history: steps in a row that left out a ready descriptor

epollVars == <<pollVars, interest, doomed, deleted, passed_over>>
unused    == <<table, compactions>>     \* the table of the other loop

AllFds     == EpollFds \cup {SignalFd}
EpollEntry(s, e, p) == [user |-> s, events |-> e, place |-> p]
Watched == DOMAIN interest

\* no descriptor that is ready waits for more steps than it takes to report all
\* the others
TooLong(steps) == steps * MaxEventsPerStep > Cardinality(EpollFds)

EpollTypeOK ==
    /\ Watched \subseteq AllFds
    /\ \A f \in Watched :
         interest[f] \in [user : Selectables \cup {Null}, events : SUBSET Happenings,
                         place : 1 .. Cardinality(Watched)]
    /\ \A f, g \in Watched : interest[f].place = interest[g].place => f = g
    /\ deleted \subseteq used /\ doomed \subseteq used /\ doomed \cap deleted = {}
    /\ loop_type = "EPOLL" => Len(events) <= MaxEventsPerStep
    /\ passed_over \in [AllFds -> Nat]

\* Initialize() has added the signal descriptor
EpollInit ==
    /\ SelectorInit /\ loop_type \in {"POLL", "EPOLL"}
    /\ interest = [f \in {SignalFd} |-> EpollEntry(Null, {"POLLIN", "POLLRDHUP", "POLLERR"}, 1)]
    /\ doomed = {} /\ deleted = {}
    /\ passed_over = [f \in AllFds |-> 0]

\* DesiresToEpollEvents; EPOLLHUP goes with EPOLLERR, the names are those of poll
DesiresToEpollEvents(d) ==
    UNION {CASE x = "Read"  -> {"POLLIN", "POLLRDHUP"}
             [] x = "Write" -> {"POLLOUT"}
             [] x = "Error" -> {"POLLERR"} : x \in d}

\* the desires that LoopStep reports for what happened
EpollEventsToDesires(happened) ==
    {d \in Desires :
        \/ d = "Error" /\ happened \cap {"POLLERR", "POLLRDHUP"} # {}
        \/ d = "Read" /\ "POLLIN" \in happened
        \/ d = "Write" /\ "POLLOUT" \in happened}

-----------------------------------------------------------------------------
(* Handlers and queued functions                                           *)

\* the descriptors in fs, in the order of turn
InOrder(fs, turn) ==
    [f \in fs |-> [interest[f] EXCEPT !.place = Cardinality({g \in fs : turn[g] <= turn[f]})]]
Places == [f \in Watched |-> interest[f].place]

\* epoll_ctl(EPOLL_CTL_ADD): the last one; it may fail for lack of memory
EpollAdd(f, s, d) ==
    \/ /\ f \notin Watched
       /\ interest' = [g \in Watched \cup {f} |->
                         IF g = f THEN EpollEntry(s, DesiresToEpollEvents(d), Cardinality(Watched) + 1)
                                  ELSE interest[g]]
       /\ UNCHANGED refused
    \/ /\ refused' = refused \cup {s}
       /\ UNCHANGED interest

\* Register(s): s stays in registered_ when EpollAdd fails
EpollRegister(s, f) ==
    /\ UserCodeRuns
    /\ s \notin used /\ Cardinality(used) < MaxUsed /\ f \notin OpenFds
    /\ fd' = [fd EXCEPT ![s] = f]
    /\ used' = used \cup {s}
    /\ registered' = registered \cup {s}
    /\ EpollAdd(f, s, desire[s])
    /\ passed_over' = [passed_over EXCEPT ![f] = 0]
    /\ UNCHANGED <<desire, unused, ppc, events, event, calledDead, doomed, deleted>>

\* faulty variant: the descriptor is left to the kernel
EpollDeleteNot(gone) == UNCHANGED interest

\* epoll_ctl(EPOLL_CTL_DEL): nothing happens to those that are not watched
EpollDelete(gone) == interest' = InOrder(Watched \ gone, Places)

\* Unregister() and close() of the Selectables in S
EpollCloseAll(S) ==
    /\ registered' = registered \ S
    /\ EpollDelete({fd[s] : s \in S})
    /\ fd' = [s \in Selectables |-> IF s \in S THEN NoFd ELSE fd[s]]
    /\ passed_over' = [f \in AllFds |-> IF \E s \in S : fd[s] = f THEN 0 ELSE passed_over[f]]
    /\ UNCHANGED <<desire, events, event, unused, used, refused, calledDead>>

EpollClose(s) ==
    /\ UserCodeRuns
    /\ s \in registered
    /\ EpollCloseAll({s})
    /\ UNCHANGED <<ppc, doomed, deleted>>

\* faulty variant: the descriptor is taken out and added again
EpollUpdateByAdding(s, d) ==
    LET turn == [f \in Watched |-> IF f = fd[s] THEN Cardinality(Watched) + 1 ELSE interest[f].place]
        moved == InOrder(Watched, turn)
    IN interest' = [f \in Watched |->
                      IF f = fd[s] THEN EpollEntry(s, DesiresToEpollEvents(d), moved[f].place)
                                   ELSE moved[f]]

\* epoll_ctl(EPOLL_CTL_MOD): it fails for a descriptor that is not watched
EpollUpdate(s, d) ==
    interest' = [f \in Watched |->
                   IF f = fd[s] THEN EpollEntry(s, DesiresToEpollEvents(d), interest[f].place)
                                ELSE interest[f]]

\* UpdateDesire(s, enable, Write)
EpollEnableWrite(s, enable) ==
    /\ UserCodeRuns
    /\ s \in registered
    /\ ("Write" \in desire[s]) # enable
    /\ desire' = [desire EXCEPT ![s] = IF enable THEN @ \cup {"Write"} ELSE @ \ {"Write"}]
    /\ EpollUpdate(s, desire'[s])
    /\ UNCHANGED <<fd, registered, unused, ppc, events, event, used, refused, calledDead,
                   doomed, deleted, passed_over>>

\* DeleteInSelectLoop(s), for a closed Selectable or one that the function closes
DeleteInSelectLoop(s) ==
    /\ UserCodeRuns
    /\ s \in used \ (doomed \cup deleted)
    /\ doomed' = doomed \cup {s}
    /\ UNCHANGED <<pollVars, interest, deleted, passed_over>>

\* faulty variant: the function is run at once in the thread of the loop
RunDeleteAtOnce(s) ==
    /\ UserCodeRuns
    /\ s \in doomed
    /\ doomed' = doomed \ {s} /\ deleted' = deleted \cup {s}
    /\ EpollCloseAll({s} \cap registered)
    /\ UNCHANGED ppc

\* LoopCallbacks() gets to the function: ForceClose(), delete
RunDelete(s) ==
    /\ ppc = "callbacks"
    /\ s \in doomed
    /\ doomed' = doomed \ {s} /\ deleted' = deleted \cup {s}
    /\ EpollCloseAll({s} \cap registered)
    /\ UNCHANGED ppc

-----------------------------------------------------------------------------
(* The loop                                                                *)

\* what epoll_wait finds on an entry when `happened' happened
Found(entry, happened) == happened \cap (entry.events \cup {"POLLERR"})

ReadyFds(happened) == {f \in Watched : Found(interest[f], happened[f]) # {}}

\* epoll_wait() reports the first ones of those that are ready
Count(ready) ==
    IF Cardinality(ready) < MaxEventsPerStep THEN Cardinality(ready) ELSE MaxEventsPerStep
Served(reported) == {reported[i] : i \in DOMAIN reported}
Reports(ready, reported) ==
    /\ \A i, j \in DOMAIN reported :
         i < j => interest[reported[i]].place < interest[reported[j]].place
    /\ \A i \in DOMAIN reported, f \in ready \ Served(reported) :
         interest[reported[i]].place < interest[f].place

\* those that are ready and left out come first in the next step, then the ones
\* that were reported
NextTurn(ready, served) ==
    [f \in Watched |->
       interest[f].place + IF f \in ready \ served THEN 0
                           ELSE IF f \in served THEN Cardinality(Watched)
                           ELSE 2 * Cardinality(Watched)]

EpollEventOf(entry, happened) ==
    [user |-> entry.user, revents |-> Found(entry, happened),
     desires |-> EpollEventsToDesires(Found(entry, happened))]

EpollWait(happened, ready, reported) ==
    /\ Reports(ready, reported)
    /\ interest' = InOrder(Watched, NextTurn(ready, Served(reported)))
    /\ events' = [i \in DOMAIN reported |->
                    EpollEventOf(interest[reported[i]], happened[reported[i]])]
    /\ passed_over' = [f \in AllFds |-> IF f \notin ready \ Served(reported) THEN 0
                                        ELSE IF TooLong(passed_over[f]) THEN passed_over[f]
                                        ELSE passed_over[f] + 1]

\* LoopStep()
EpollLoopStep(happened) ==
    /\ ppc = "callbacks" /\ ppc' = "next"
    /\ \E reported \in [1 .. Count(ReadyFds(happened)) -> ReadyFds(happened)] :
         EpollWait(happened, ReadyFds(happened), reported)
    /\ UNCHANGED <<fd, registered, desire, event, unused, used, refused, calledDead, doomed,
                   deleted>>

\* epoll_wait() fails: Loop() returns the error, or, after a signal, the -1 passes
\* the test and events.reserve(-1) throws out of Loop()
EpollLoopStepFails ==
    /\ ppc = "callbacks"
    /\ ppc' = "ended"
    /\ UNCHANGED <<fd, registered, desire, events, event, unused, used, refused, calledDead,
                   interest, doomed, deleted, passed_over>>

\* should_end_ was set: CleanAndCloseAll()
EpollLoopEnds ==
    /\ ppc = "callbacks"
    /\ ppc' = "ended"
    /\ EpollCloseAll(registered)
    /\ UNCHANGED <<doomed, deleted>>

\* Selector::Loop, whatever the loop underneath
Dispatch ==
    /\ \/ TakeEvent
       \/ EventsDone
       \/ CallHandler
       \/ \E keep \in BOOLEAN : HandlerReturns(keep)
    /\ UNCHANGED <<interest, doomed, deleted, passed_over>>

EpollNext ==
    /\ loop_type = "EPOLL" /\ UNCHANGED loop_type
    /\ \/ \E s \in Selectables, f \in EpollFds : EpollRegister(s, f)
       \/ \E s \in Selectables : EpollClose(s)
       \/ \E s \in Selectables, b \in BOOLEAN : EpollEnableWrite(s, b)
       \/ \E s \in Selectables : DeleteInSelectLoop(s)
       \/ \E s \in Selectables : RunDelete(s)
       \/ \E happened \in [AllFds -> ReadySets] : EpollLoopStep(happened)
       \/ EpollLoopStepFails
       \/ EpollLoopEnds
       \/ Dispatch

\* a Selector over either loop
SelectorNext ==
    \/ EpollNext
    \/ PollNext /\ UNCHANGED <<interest, doomed, deleted, passed_over>>

SelectorSpec == EpollInit /\ [][SelectorNext]_epollVars

-----------------------------------------------------------------------------
(* Properties                                                              *)

(* The kernel watches exactly the descriptors of the registered            *)
(* Selectables that epoll_ctl took, for the events they desire, and the    *)
(* signal descriptor: no descriptor is watched for a Selectable that was   *)
(* closed or deleted, though the kernel gives the same number out again.   *)
WatchedAreRegistered ==
    loop_type = "EPOLL" =>
      /\ Watched = {fd[s] : s \in registered \ refused} \cup {SignalFd}
      /\ \A s \in registered \ refused :
           interest[fd[s]].user = s /\ interest[fd[s]].events = DesiresToEpollEvents(desire[s])
      /\ /\ interest[SignalFd].user = Null
         /\ interest[SignalFd].events = DesiresToEpollEvents({"Read", "Error"})

(* Selector::Loop reads selector() of the Selectable of every event that   *)
(* LoopStep returned.  None of them was deleted in the meantime, whatever  *)
(* the handlers of the earlier events of the step did.                     *)
DeletedUntouched ==
    ppc # "callbacks" =>
        /\ event.user \notin deleted
        /\ \A i \in DOMAIN events : events[i].user \notin deleted

(* max_events_per_step starves nobody: a descriptor that stays ready is    *)
(* left out of at most as many steps as the other descriptors fill,        *)
(* however its own or another's desires are changed in between.            *)
NobodyStarves == \A f \in AllFds : ~TooLong(passed_over[f])

(* EpollSelectorLoop: what the kernel watches is what is registered, and a *)
(* step takes max_events_per_step events at most.                          *)
EpollInv == EpollTypeOK /\ WatchedAreRegistered

(* The events of a step are those of an earlier moment: Selector::Loop     *)
(* calls handlers of open Selectables only, and reads none that was        *)
(* deleted since.                                                          *)
StaleEventsHarmless == HandlersOnlyForOpen /\ DeletedUntouched
=============================================================================
