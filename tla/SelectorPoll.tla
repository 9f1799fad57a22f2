----------------------------- MODULE SelectorPoll -----------------------------
(***************************************************************************)
(* Descriptors in a Selector: Register, Unregister, the changes of desire  *)
(* and the dispatch of events (whisperlib/net/selector.cc) on top of the   *)
(* table of PollSelectorLoop (whisperlib/net/selector_loop.cc), which is   *)
(* the default loop.  All of it happens in the thread of the loop; what    *)
(* interleaves is what handlers and queued functions do to the table while *)
(* the events of a step are being handed out.                              *)
(***************************************************************************)
EXTENDS Integers, Sequences, FiniteSets, TLC, SequencesExt

CONSTANTS
    Selectables,  \* objects with a descriptor, closed as TcpConnection closes
    Fds,          \* descriptors the kernel hands out, natural numbers above 0
    MaxFds,       \* kMaxFds
    ReadySets,    \* what poll() may find on a descriptor: sets of Happenings
    Null,         \* nullptr, the user data of the signal descriptor
    MaxDeletes    \* bound on the indices waiting in indices_to_compact_

SignalFd    == 0                  \* output_signal_fd_
NoFd        == -1                 \* kInvalidFdValue
Desires     == {"Read", "Write", "Error"}
Happenings  == {"POLLIN", "POLLRDHUP", "POLLOUT", "POLLERR"}

ASSUME SelectablesAssumption == Null \notin Selectables
ASSUME FdsAssumption == Fds \subseteq Nat \ {0} /\ MaxFds \in Nat \ {0}
ASSUME ReadyAssumption == ReadySets \subseteq SUBSET Happenings /\ MaxDeletes \in Nat

VARIABLES
    loop_type,   \* params_.loop_type, the SelectorLoop underneath
    fd,          \* GetFd() of every Selectable
    registered,  \* registered_; selector() is this for its members
    desire,      \* desire_ of every Selectable
    fds,         \* fds_
    fds_size,    \* fds_size_
    fd_data,     \* fd_data_: from descriptors to index and user data
    to_compact,  \* indices_to_compact_
    ppc,         \* where Loop() is
    events,      \* what LoopStep returned and was not yet looked at
    event,       \* the event being handled: its Selectable, the desires left
    used,        \* history: the Selectables that were ever registered
    refused,     \* history: the Selectables whose Add() failed
    compactions, \* history: calls of Compact() that had something to do, up to 2
    calledDead   \* history: a handler was called without a descriptor

table == <<fds, fds_size, fd_data, to_compact>>
past  == <<used, refused, compactions, calledDead>>
pollVars  == <<loop_type, fd, registered, desire, table, ppc, events, event, past>>

Entry(f, e) == [fd |-> f, events |-> e]
NoEvent     == [user |-> Null, desires |-> {}, revents |-> {}]

\* DesiresToPollEvents; POLLHUP goes with POLLERR
DesiresToPollEvents(d) ==
    (IF "Read" \in d THEN {"POLLIN", "POLLRDHUP"} ELSE {})
    \cup (IF "Write" \in d THEN {"POLLOUT"} ELSE {})
    \cup (IF "Error" \in d THEN {"POLLERR"} ELSE {})

\* the desires that LoopStep reports for an entry: the test of POLLOUT looks at
\* what was asked for, not at what happened
PollEventsToDesires(asked, revents) ==
    (IF revents \cap {"POLLERR", "POLLRDHUP"} # {} THEN {"Error"} ELSE {})
    \cup (IF "POLLIN" \in revents THEN {"Read"} ELSE {})
    \cup (IF "POLLOUT" \in asked THEN {"Write"} ELSE {})

EventType == [user : Selectables \cup {Null}, desires : SUBSET Desires,
              revents : SUBSET Happenings]

PollTypeOK ==
    /\ loop_type \in {"POLL", "EPOLL"}
    /\ fd \in [Selectables -> Fds \cup {NoFd}]
    /\ registered \subseteq used /\ used \subseteq Selectables
    /\ desire \in [Selectables -> SUBSET Desires]
    /\ fds \in [0 .. MaxFds - 1 -> [fd : Fds \cup {SignalFd, NoFd}, events : SUBSET Happenings]]
    /\ fds_size \in 0 .. MaxFds
    /\ DOMAIN fd_data \subseteq Fds \cup {SignalFd}
    /\ \A f \in DOMAIN fd_data :
         fd_data[f] \in [index : 0 .. MaxFds - 1, user : Selectables \cup {Null}]
    /\ \A i \in DOMAIN to_compact : to_compact[i] \in 0 .. MaxFds - 1
    /\ ppc \in {"callbacks", "next", "call", "handler", "ended"}
    /\ event \in EventType /\ \A i \in DOMAIN events : events[i] \in EventType
    /\ refused \subseteq Selectables /\ compactions \in 0 .. 2 /\ calledDead \in BOOLEAN

\* Initialize() has added the signal descriptor; Loop() has not started
SelectorInit ==
    /\ fd = [s \in Selectables |-> NoFd]
    /\ registered = {} /\ used = {} /\ refused = {}
    /\ desire = [s \in Selectables |-> {"Read", "Error"}]
    /\ fds = [i \in 0 .. MaxFds - 1 |->
                IF i = 0 THEN Entry(SignalFd, DesiresToPollEvents({"Read", "Error"}))
                         ELSE Entry(NoFd, {})]
    /\ fds_size = 1
    /\ fd_data = [f \in {SignalFd} |-> [index |-> 0, user |-> Null]]
    /\ to_compact = <<>>
    /\ ppc = "callbacks" /\ events = <<>> /\ event = NoEvent
    /\ compactions = 0 /\ calledDead = FALSE

PollInit == SelectorInit /\ loop_type = "POLL"

-----------------------------------------------------------------------------
(* What handlers and queued functions do to the table                      *)

\* the code of a Selectable, or a queued function or alarm, is running
UserCodeRuns == ppc \in {"handler", "callbacks"}

\* the kernel gives out any descriptor that is not open
OpenFds == {fd[s] : s \in Selectables} \ {NoFd}

\* Add(fd, s, desires): emplace() leaves an entry that is already there
Add(f, s, d) ==
    IF fds_size >= MaxFds
    THEN /\ refused' = refused \cup {s}
         /\ UNCHANGED <<fds, fds_size, fd_data>>
    ELSE /\ fds' = [fds EXCEPT ![fds_size] = Entry(f, DesiresToPollEvents(d))]
         /\ fd_data' = [g \in DOMAIN fd_data \cup {f} |->
                          IF g \in DOMAIN fd_data THEN fd_data[g]
                          ELSE [index |-> fds_size, user |-> s]]
         /\ fds_size' = fds_size + 1
         /\ UNCHANGED refused

\* Register(s), by a Selectable with a new descriptor f; it is done once, as a
\* closed Selectable has no selector to ask again
Register(s, f) ==
    /\ UserCodeRuns
    /\ s \notin used /\ f \notin OpenFds
    /\ fd' = [fd EXCEPT ![s] = f]
    /\ used' = used \cup {s}
    /\ registered' = registered \cup {s}
    /\ Add(f, s, desire[s])
    /\ UNCHANGED <<desire, to_compact, ppc, events, event, compactions, calledDead>>

\* Delete(): of the descriptors in gone, those that are in the table
Delete(gone) ==
    LET found == gone \cap DOMAIN fd_data
        holes == {fd_data[f].index : f \in found}
    IN /\ to_compact' = to_compact \o SetToSeq(holes)
       /\ fds' = [i \in DOMAIN fds |->
                    IF i \in holes THEN [fds[i] EXCEPT !.fd = NoFd] ELSE fds[i]]
       /\ fd_data' = [g \in DOMAIN fd_data \ found |-> fd_data[g]]
       /\ UNCHANGED fds_size

\* Close() of all Selectables in S: Unregister(s), then close(fd); each keeps its
\* descriptor until Unregister() returned
CloseAll(S) ==
    /\ registered' = registered \ S
    /\ Delete({fd[s] : s \in S})
    /\ fd' = [s \in Selectables |-> IF s \in S THEN NoFd ELSE fd[s]]
    /\ UNCHANGED <<desire, events, event, past>>

Close(s) ==
    /\ UserCodeRuns
    /\ s \in registered
    /\ Len(to_compact) < MaxDeletes
    /\ CloseAll({s})
    /\ UNCHANGED ppc

\* UpdateDesire(s, enable, Write); Update() fails when fd is not in the table
EnableWriteCallback(s, enable) ==
    /\ UserCodeRuns
    /\ s \in registered
    /\ ("Write" \in desire[s]) # enable
    /\ desire' = [desire EXCEPT ![s] = IF enable THEN @ \cup {"Write"}
                                                 ELSE @ \ {"Write"}]
    /\ IF fd[s] \in DOMAIN fd_data
       THEN /\ fds' = [fds EXCEPT ![fd_data[fd[s]].index].events =
                                    DesiresToPollEvents(desire'[s])]
            /\ fd_data' = [fd_data EXCEPT ![fd[s]].user = s]
       ELSE UNCHANGED <<fds, fd_data>>
    /\ UNCHANGED <<fd, registered, fds_size, to_compact, ppc, events, event, past>>

-----------------------------------------------------------------------------
(* The loop                                                                *)

\* faulty variant: fd_data_ is not told of the move
CompactOneKeepsIndex(index, t) ==
    IF t.size = 0 THEN t
    ELSE LET n    == t.size - 1
             last == t.fds[n].fd
         IN IF n = 0 \/ index = n \/ last \notin DOMAIN t.data
            THEN [t EXCEPT !.size = n]
            ELSE [size |-> n,
                  fds  |-> [t.fds EXCEPT ![index] = t.fds[n]],
                  data |-> t.data]

\* one turn of the loop in Compact(): the last entry moves into the hole
CompactOne(index, t) ==
    IF t.size = 0 THEN t
    ELSE LET n    == t.size - 1
             last == t.fds[n].fd
         IN IF n = 0 \/ index = n \/ last \notin DOMAIN t.data
            THEN [t EXCEPT !.size = n]
            ELSE [size |-> n,
                  fds  |-> [t.fds EXCEPT ![index] = t.fds[n]],
                  data |-> [t.data EXCEPT ![last].index = index]]

\* Compact(), from the largest index down
Compact ==
    FoldRight(CompactOne, SortSeq(to_compact, <),
              [size |-> fds_size, fds |-> fds, data |-> fd_data])

\* Compact() does not clear indices_to_compact_
LeftToCompact == SortSeq(to_compact, <)

CompactTable ==
    /\ LET t == Compact IN fds' = t.fds /\ fds_size' = t.size /\ fd_data' = t.data
    /\ to_compact' = LeftToCompact
    /\ compactions' = IF to_compact # <<>> /\ compactions < 2 THEN compactions + 1
                                                              ELSE compactions

\* what LoopStep builds from the entries in which something happened
EventOf(t, revents, i) ==
    [user |-> t.data[t.fds[i].fd].user,
     desires |-> PollEventsToDesires(t.fds[i].events, revents[i]),
     revents |-> revents[i]]

\* poll() reports what was asked for, and errors; nothing for a hole
MayHappen(entry, revents) ==
    revents \subseteq IF entry.fd = NoFd THEN {} ELSE entry.events \cup {"POLLERR"}

\* LoopStep(): Compact(), poll(), and the list of events
LoopStep(revents) ==
    LET t == Compact
        happened == {i \in DOMAIN revents : revents[i] # {} /\ t.fds[i].fd \in DOMAIN t.data}
        order == SetToSortSeq(happened, <)
    IN /\ ppc = "callbacks"
       /\ DOMAIN revents = 0 .. t.size - 1
       /\ \A i \in DOMAIN revents : MayHappen(t.fds[i], revents[i])
       /\ CompactTable
       /\ events' = [k \in DOMAIN order |-> EventOf(t, revents, order[k])]
       /\ ppc' = "next"
       /\ UNCHANGED <<fd, registered, desire, event, used, refused, calledDead>>

\* poll() fails and Loop() returns the error, with what is registered left alone
LoopStepFails ==
    /\ ppc = "callbacks"
    /\ CompactTable
    /\ ppc' = "ended"
    /\ UNCHANGED <<fd, registered, desire, events, event, used, refused, calledDead>>

\* should_end_ was set: CleanAndCloseAll()
LoopEnds ==
    /\ ppc = "callbacks"
    /\ ppc' = "ended"
    /\ CloseAll(registered)

\* the Selectable of an event may have been unregistered since poll() returned
TakeEvent ==
    /\ ppc = "next" /\ events # <<>>
    /\ events' = Tail(events)
    /\ IF Head(events).user \in registered /\ Head(events).desires # {}
       THEN event' = Head(events) /\ ppc' = "call"
       ELSE UNCHANGED <<event, ppc>>
    /\ UNCHANGED <<fd, registered, desire, table, past>>

EventsDone ==
    /\ ppc = "next" /\ events = <<>>
    /\ ppc' = "callbacks" /\ event' = NoEvent
    /\ UNCHANGED <<fd, registered, desire, table, events, past>>

\* HandleErrorEvent, HandleReadEvent, HandleWriteEvent in this order
NextDesire(ds) == IF "Error" \in ds THEN "Error" ELSE IF "Read" \in ds THEN "Read" ELSE "Write"

CallHandler ==
    /\ ppc = "call"
    /\ event' = [event EXCEPT !.desires = @ \ {NextDesire(@)}]
    /\ calledDead' = (calledDead \/ fd[event.user] = NoFd)
    /\ ppc' = "handler"
    /\ UNCHANGED <<fd, registered, desire, table, events, used, refused, compactions>>

\* keep_processing: what the handler returned, and it has left a descriptor
HandlerReturns(keep) ==
    /\ ppc = "handler"
    /\ ppc' = IF keep /\ fd[event.user] # NoFd /\ event.desires # {} THEN "call" ELSE "next"
    /\ UNCHANGED <<fd, registered, desire, table, events, event, past>>

PollNext ==
    /\ loop_type = "POLL" /\ UNCHANGED loop_type
    /\ \/ \E s \in Selectables, f \in Fds : Register(s, f)
       \/ \E s \in Selectables : Close(s)
       \/ \E s \in Selectables, b \in BOOLEAN : EnableWriteCallback(s, b)
       \/ \E revents \in [0 .. Compact.size - 1 -> ReadySets] : LoopStep(revents)
       \/ LoopStepFails
       \/ LoopEnds
       \/ TakeEvent
       \/ EventsDone
       \/ CallHandler
       \/ \E keep \in BOOLEAN : HandlerReturns(keep)

PollSpec == PollInit /\ [][PollNext]_pollVars

-----------------------------------------------------------------------------
(* Properties                                                              *)

Polled == {fds[i].fd : i \in 0 .. fds_size - 1}

\* the entry of a Selectable is where fd_data_ says, with its own desires
WellPolled(s) ==
    /\ fd[s] \in DOMAIN fd_data
    /\ LET d == fd_data[fd[s]]
       IN /\ d.user = s
          /\ d.index < fds_size
          /\ fds[d.index] = Entry(fd[s], DesiresToPollEvents(desire[s]))

(* Whatever Selectables were closed, opened on reused descriptors and      *)
(* moved within the table (PollSelectorLoop Add, Delete, Compact), every   *)
(* registered one that Add() did not refuse has its own entry with the     *)
(* events it asked for, and nothing but these and the signal descriptor is *)
(* polled.  It is limited to the first Compact() that has something to do, *)
(* see RegisteredIsPolled.                                                 *)
TableConsistent ==
    loop_type = "POLL" /\ compactions < 2 =>
        /\ \A s \in registered \ refused : WellPolled(s)
        /\ fd_data[SignalFd] = [index |-> 0, user |-> Null]
        /\ Polled \ {NoFd} = {fd[s] : s \in registered \ refused} \cup {SignalFd}

(* Selector::Loop never calls a handler of a Selectable without            *)
(* descriptor: handlers may close themselves and each other between        *)
(* poll() and the call.                                                    *)
HandlersOnlyForOpen == ~calledDead

(* selector_loop.h: indices_to_compact_ are the "indices that we need to   *)
(* compact at the end of the step".  Every registered Selectable stays     *)
(* polled.  Compact() meets the same indices again in each later step.     *)
RegisteredIsPolled == \A s \in registered \ refused : fd[s] \in Polled

(* The table of PollSelectorLoop stays within its bounds and consistent    *)
(* with the registered Selectables.                                        *)
PollInv == PollTypeOK /\ TableConsistent
=============================================================================
