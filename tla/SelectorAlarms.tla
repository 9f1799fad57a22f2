---------------------------- MODULE SelectorAlarms ----------------------------
(***************************************************************************)
(* The alarms of a Selector (whisperlib/net/selector.cc): a map from ids   *)
(* to functions, a heap of deadlines, and the time of the next alarm that  *)
(* limits the wait in poll().  Threads register and unregister alarms      *)
(* under alarm_mutex_ while the loop takes the ones that are due.          *)
(***************************************************************************)
EXTENDS Integers, Sequences, FiniteSets, SequencesExt

CONSTANTS
    Threads,         \* threads that register and unregister alarms
    Delays,          \* the timeouts they ask for
    DefaultTimeout,  \* default_loop_timeout, in ticks
    MaxTime,         \* bound on the clock: it stays there
    MaxAlarms,       \* bound on the alarms ever registered
    MaxHeap          \* bound on the entries of the heap at any time

ASSUME TimesAssumption ==
    /\ DefaultTimeout \in Nat \ {0} /\ MaxTime \in Nat /\ Delays \subseteq Nat
    /\ MaxAlarms \in Nat /\ MaxHeap \in Nat

NoTime         == -1             \* the thread is not in RegisterAlarm
InfinitePast   == -1
InfiniteFuture == MaxTime + DefaultTimeout + 1
Ids            == 0 .. MaxAlarms - 1

VARIABLES
    clock,           \* absl::Now()
    asked,           \* deadline computed by a thread that has yet to lock
    alarm_id,        \* alarm_id_
    alarms,          \* the ids in alarms_
    alarm_timeouts,  \* the heap, a sequence of records
    next_alarm_time, \* next_alarm_time_
    num_registered,  \* num_registered_alarms_
    lpc,             \* where Loop() is; in "take" it holds alarm_mutex_
    wait,            \* ticks left in poll()
    end_alarms,      \* end_alarms in LoopAlarms
    to_run,          \* to_run in LoopAlarms, what is left of it
    deadlines,       \* history: the deadline of every alarm
    early,           \* history: alarms that ran before their deadline
    ran              \* history: how often every alarm ran

shared == <<alarm_id, alarms, alarm_timeouts, next_alarm_time, num_registered>>
alarmsVars   == <<clock, asked, shared, lpc, wait, end_alarms, to_run, deadlines, early, ran>>

Entries == {alarm_timeouts[i] : i \in DOMAIN alarm_timeouts}
Back    == alarm_timeouts[Len(alarm_timeouts)]

\* the orders in which push_heap and pop_heap with CompareAlarms may leave a set
\* of entries: no entry is due before its parent
Heaps(S) ==
    {h \in SetToSeqs(S) : \A i \in 2 .. Len(h) : h[i \div 2].time <= h[i].time}

AlarmsTypeOK ==
    /\ clock \in 0 .. MaxTime
    /\ asked \in [Threads -> 0 .. MaxTime \cup {NoTime}]
    /\ alarm_id \in 0 .. MaxAlarms
    /\ alarms \subseteq Ids /\ num_registered \in 0 .. MaxAlarms
    /\ \A i \in DOMAIN alarm_timeouts :
         alarm_timeouts[i] \in [time : 0 .. MaxTime, id : 0 .. alarm_id - 1]
    /\ next_alarm_time \in 0 .. MaxTime \cup {InfinitePast, InfiniteFuture}
    /\ lpc \in {"top", "poll", "alarms", "take", "run"}
    /\ wait \in 0 .. DefaultTimeout /\ end_alarms \in 0 .. MaxTime
    /\ \A i \in DOMAIN to_run : to_run[i] \in Ids
    /\ deadlines \in [Ids -> 0 .. MaxTime \cup {NoTime}]
    /\ early \subseteq Ids /\ ran \in [Ids -> Nat]

AlarmsInit ==
    /\ clock = 0 /\ asked = [t \in Threads |-> NoTime]
    /\ alarm_id = 0 /\ alarms = {} /\ alarm_timeouts = <<>>
    /\ next_alarm_time = InfiniteFuture /\ num_registered = 0
    /\ lpc = "top" /\ wait = 0 /\ end_alarms = 0 /\ to_run = <<>>
    /\ deadlines = [a \in Ids |-> NoTime] /\ early = {} /\ ran = [a \in Ids |-> 0]

-----------------------------------------------------------------------------
(* Time, and the threads                                                   *)

\* poll() counts down; at MaxTime every alarm is due
Tick ==
    /\ clock < MaxTime \/ (lpc = "poll" /\ wait > 0)
    /\ clock' = IF clock < MaxTime THEN clock + 1 ELSE clock
    /\ wait' = IF lpc = "poll" /\ wait > 0 THEN wait - 1 ELSE wait
    /\ UNCHANGED <<asked, shared, lpc, end_alarms, to_run, deadlines, early, ran>>

\* RegisterAlarm: the deadline is computed before alarm_mutex_ is locked
AskAlarm(t, d) ==
    /\ asked[t] = NoTime /\ clock + d <= MaxTime
    /\ asked' = [asked EXCEPT ![t] = clock + d]
    /\ UNCHANGED <<clock, shared, lpc, wait, end_alarms, to_run, deadlines, early, ran>>

\* RegisterAlarm under alarm_mutex_; next_alarm_time_ is that of the last entry
RegisterAlarm(t) ==
    /\ asked[t] # NoTime /\ lpc # "take"
    /\ alarm_id < MaxAlarms /\ Len(alarm_timeouts) < MaxHeap
    /\ alarm_id' = alarm_id + 1
    /\ alarms' = alarms \cup {alarm_id}
    /\ alarm_timeouts' \in Heaps(Entries \cup {[time |-> asked[t], id |-> alarm_id]})
    /\ next_alarm_time' = alarm_timeouts'[Len(alarm_timeouts')].time
    /\ num_registered' = Cardinality(alarms')
    /\ asked' = [asked EXCEPT ![t] = NoTime]
    /\ deadlines' = [deadlines EXCEPT ![alarm_id] = asked[t]]
    /\ UNCHANGED <<clock, lpc, wait, end_alarms, to_run, early, ran>>

\* UnregisterAlarm leaves the entry in the heap
UnregisterAlarm(a) ==
    /\ a < alarm_id /\ lpc # "take"
    /\ alarms' = alarms \ {a}
    /\ num_registered' = Cardinality(alarms')
    /\ UNCHANGED <<clock, asked, alarm_id, alarm_timeouts, next_alarm_time, lpc, wait,
                   end_alarms, to_run, deadlines, early, ran>>

-----------------------------------------------------------------------------
(* The loop                                                                *)

\* the wait for poll() when no function is queued
LoopTimeout ==
    LET delta == next_alarm_time - clock
    IN IF delta < 0 THEN 0 ELSE IF delta < DefaultTimeout THEN delta ELSE DefaultTimeout

LoopTop ==
    /\ lpc = "top"
    /\ lpc' = "poll" /\ wait' = LoopTimeout
    /\ UNCHANGED <<clock, asked, shared, end_alarms, to_run, deadlines, early, ran>>

\* poll() has timed out, or some descriptor was ready before
PollReturns ==
    /\ lpc = "poll"
    /\ lpc' = "alarms" /\ wait' = 0
    /\ UNCHANGED <<clock, asked, shared, end_alarms, to_run, deadlines, early, ran>>

PollTimesOut == wait = 0 /\ PollReturns

\* LoopAlarms: the check without the lock, then alarm_mutex_ is taken
LoopAlarms ==
    /\ lpc = "alarms"
    /\ IF num_registered = 0
       THEN lpc' = "top" /\ UNCHANGED end_alarms
       ELSE lpc' = "take" /\ end_alarms' = clock
    /\ UNCHANGED <<clock, asked, shared, wait, to_run, deadlines, early, ran>>

\* faulty variant: the time of one entry, the id of another
DueFront == alarm_timeouts # <<>> /\ alarm_timeouts[1].time <= end_alarms

Due == alarm_timeouts # <<>> /\ Back.time <= end_alarms

\* faulty variant: unregistered alarms run too
TakeAlarmUnchecked ==
    /\ lpc = "take" /\ Due
    /\ alarm_timeouts' \in Heaps(Entries \ {alarm_timeouts[1]})
    /\ alarms' = alarms \ {Back.id}
    /\ to_run' = Append(to_run, Back.id)
    /\ UNCHANGED <<clock, asked, alarm_id, next_alarm_time, num_registered, lpc, wait,
                   end_alarms, deadlines, early, ran>>

\* one turn of the loop: looks at the last entry, removes the first
TakeAlarm ==
    /\ lpc = "take" /\ Due
    /\ alarm_timeouts' \in Heaps(Entries \ {alarm_timeouts[1]})
    /\ alarms' = alarms \ {Back.id}
    /\ to_run' = IF Back.id \in alarms THEN Append(to_run, Back.id) ELSE to_run
    /\ UNCHANGED <<clock, asked, alarm_id, next_alarm_time, num_registered, lpc, wait,
                   end_alarms, deadlines, early, ran>>

\* the end of the loop, and alarm_mutex_ is released
TakeDone ==
    /\ lpc = "take" /\ ~Due
    /\ num_registered' = Cardinality(alarms)
    /\ next_alarm_time' = IF alarm_timeouts = <<>> THEN InfinitePast ELSE Back.time
    /\ lpc' = "run"
    /\ UNCHANGED <<clock, asked, alarm_id, alarms, alarm_timeouts, wait, end_alarms,
                   to_run, deadlines, early, ran>>

\* callback()
RunAlarm ==
    /\ lpc = "run" /\ to_run # <<>>
    /\ to_run' = Tail(to_run)
    /\ ran' = [ran EXCEPT ![Head(to_run)] = @ + 1]
    /\ early' = IF clock < deadlines[Head(to_run)] THEN early \cup {Head(to_run)} ELSE early
    /\ UNCHANGED <<clock, asked, shared, lpc, wait, end_alarms, deadlines>>

RunDone ==
    /\ lpc = "run" /\ to_run = <<>>
    /\ lpc' = "top"
    /\ UNCHANGED <<clock, asked, shared, wait, end_alarms, to_run, deadlines, early, ran>>

LoopNext == LoopTop \/ PollReturns \/ LoopAlarms \/ TakeAlarm \/ TakeDone \/ RunAlarm \/ RunDone

AlarmsNext ==
    \/ Tick
    \/ LoopNext
    \/ \E t \in Threads, d \in Delays : AskAlarm(t, d)
    \/ \E t \in Threads : RegisterAlarm(t)
    \/ \E a \in Ids : UnregisterAlarm(a)

AlarmsSpec == AlarmsInit /\ [][AlarmsNext]_alarmsVars

\* time passes, and a loop that is not waiting goes on
AlarmsFairness ==
    /\ WF_alarmsVars(Tick)
    /\ WF_alarmsVars(LoopTop \/ PollTimesOut \/ LoopAlarms \/ TakeAlarm \/ TakeDone \/ RunAlarm \/ RunDone)

AlarmsFairSpec == AlarmsSpec /\ AlarmsFairness

-----------------------------------------------------------------------------
(* Properties                                                              *)

(* Whatever the order of the heap and the moment of the unlock, no alarm   *)
(* runs before its deadline (LoopAlarms takes id and time from one entry). *)
NeverEarly == early = {}

(* An alarm runs at most once, though its entry may stay in the heap after *)
(* it ran (LoopAlarms removes another one).                                *)
RunsAtMostOnce == \A a \in Ids : ran[a] <= 1

\* what the loop extracted is taken, what is in alarms_ is pending
Service ==
    INSTANCE AlarmService WITH issued <- alarm_id, pending <- alarms, taken <- to_run

(* LoopAlarms runs alarms after their deadline and once, in whatever order *)
(* the heap gives them out.                                                *)
AlarmsInv == AlarmsTypeOK /\ NeverEarly /\ RunsAtMostOnce

(* Selector implements the promises of AlarmService: ids are used once,    *)
(* an alarm is taken only while registered, and those taken run in order.  *)
ImplementsService == Service!AlarmSpec

(* selector.h: RegisterAlarm "Runs the provided function after a timeout   *)
(* in the select loop."  Unless unregistered, an alarm is run.             *)
AlarmRuns == \A a \in Ids : a \in alarms ~> a \notin alarms \cup ToSet(to_run)
=============================================================================
