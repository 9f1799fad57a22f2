------------------------------ MODULE Timeouter -------------------------------
(***************************************************************************)
(* A Timeouter (whisperlib/net/timeouter.cc) on top of the alarms of a     *)
(* Selector, of which it uses what AlarmService promises.  Alarms go off   *)
(* at any time after they were registered: durations are left out.  The    *)
(* loop takes several alarms at once and runs them one after the other.    *)
(* An operation holds mutex_ from its first to its last access to          *)
(* timeouts_, so each is one step; ProcessTimeout calls the user without   *)
(* mutex_ and is two.                                                      *)
(***************************************************************************)
EXTENDS AlarmService, SequencesExt

CONSTANTS
    TimeoutIds,  \* the timeouts set by the user
    NoTimeout,   \* no callback of the user is running
    AnyThread    \* FALSE: timeouts are set and cleared only by handlers of
                 \* events, in the thread of the loop, as TcpConnection does

ASSUME TimeoutIdsAssumption == NoTimeout \notin TimeoutIds /\ AnyThread \in BOOLEAN

VARIABLES
    timeouts,   \* timeouts_: from timeout ids to alarm ids
    timeoutOf,  \* the timeout id in the function of every alarm
    calling,    \* the callback ProcessTimeout is about to call, or NoTimeout
    destroyed,  \* ~Timeouter has returned
    cleared,    \* history: ids reported as cleared, not set since
    called,     \* history: the callback just called, or NoTimeout
    dangling    \* history: ProcessTimeout was called on a destroyed Timeouter

timeouterVars == <<alarmVars, timeouts, timeoutOf, calling, destroyed, cleared, called, dangling>>

AlarmIds == 0 .. MaxAlarms - 1

TimeouterTypeOK ==
    /\ issued \in 0 .. MaxAlarms /\ pending \subseteq AlarmIds
    /\ \A i \in DOMAIN taken : taken[i] \in AlarmIds
    /\ DOMAIN timeouts \subseteq TimeoutIds
    /\ \A t \in DOMAIN timeouts : timeouts[t] \in 0 .. issued - 1
    /\ timeoutOf \in [AlarmIds -> TimeoutIds \cup {NoTimeout}]
    /\ {calling, called} \subseteq TimeoutIds \cup {NoTimeout}
    /\ destroyed \in BOOLEAN /\ dangling \in BOOLEAN
    /\ cleared \subseteq TimeoutIds

TimeouterInit ==
    /\ AlarmInit
    /\ timeouts = [t \in {} |-> 0]
    /\ timeoutOf = [a \in AlarmIds |-> NoTimeout]
    /\ calling = NoTimeout /\ called = NoTimeout
    /\ destroyed = FALSE /\ dangling = FALSE /\ cleared = {}

\* who may set and clear a timeout now
UserMayCall == ~destroyed /\ (AnyThread \/ (taken = <<>> /\ calling = NoTimeout))

\* faulty variant: the alarm replaced stays registered
SetTimeoutKeepsOld(t) ==
    /\ UserMayCall /\ issued < MaxAlarms
    /\ pending' = pending \cup {issued}
    /\ issued' = issued + 1
    /\ timeouts' = [u \in DOMAIN timeouts \cup {t} |-> IF u = t THEN issued ELSE timeouts[u]]
    /\ timeoutOf' = [timeoutOf EXCEPT ![issued] = t]
    /\ cleared' = cleared \ {t}
    /\ called' = NoTimeout
    /\ UNCHANGED <<taken, calling, destroyed, dangling>>

\* SetTimeout: an alarm of the same timeout is unregistered, a new one replaces it
SetTimeout(t) ==
    /\ UserMayCall /\ issued < MaxAlarms
    /\ pending' = (pending \ {timeouts[u] : u \in DOMAIN timeouts \cap {t}}) \cup {issued}
    /\ issued' = issued + 1
    /\ timeouts' = [u \in DOMAIN timeouts \cup {t} |-> IF u = t THEN issued ELSE timeouts[u]]
    /\ timeoutOf' = [timeoutOf EXCEPT ![issued] = t]
    /\ cleared' = cleared \ {t}
    /\ called' = NoTimeout
    /\ UNCHANGED <<taken, calling, destroyed, dangling>>

\* faulty variant: the alarm stays registered
ClearTimeoutKeepsAlarm(t) ==
    /\ UserMayCall
    /\ IF t \in DOMAIN timeouts
       THEN UNCHANGED alarmVars /\ cleared' = cleared \cup {t}
       ELSE UNCHANGED <<alarmVars, cleared>>
    /\ called' = NoTimeout
    /\ UNCHANGED <<timeouts, timeoutOf, calling, destroyed, dangling>>

\* ClearTimeout: the entry stays in timeouts_; it returns TRUE when it found one
ClearTimeout(t) ==
    /\ UserMayCall
    /\ IF t \in DOMAIN timeouts
       THEN UnregisterAlarm({timeouts[t]}) /\ cleared' = cleared \cup {t}
       ELSE UNCHANGED <<alarmVars, cleared>>
    /\ called' = NoTimeout
    /\ UNCHANGED <<timeouts, timeoutOf, calling, destroyed, dangling>>

\* ClearAllTimeouts may also be called by a callback, of this or another alarm
ClearAllTimeouts ==
    /\ ~destroyed /\ (AnyThread \/ calling = NoTimeout)
    /\ UnregisterAlarm({timeouts[t] : t \in DOMAIN timeouts})
    /\ timeouts' = [t \in {} |-> 0]
    /\ cleared' = cleared \cup DOMAIN timeouts
    /\ called' = NoTimeout
    /\ UNCHANGED <<timeoutOf, calling, destroyed, dangling>>

\* ~Timeouter, by a function that runs in the loop (DeleteInSelectLoop)
DestroyTimeouter ==
    /\ ~destroyed /\ taken = <<>> /\ calling = NoTimeout
    /\ UnregisterAlarm({timeouts[t] : t \in DOMAIN timeouts})
    /\ timeouts' = [t \in {} |-> 0]
    /\ cleared' = cleared \cup DOMAIN timeouts
    /\ destroyed' = TRUE /\ called' = NoTimeout
    /\ UNCHANGED <<timeoutOf, calling, dangling>>

\* the loop extracts an alarm that is due, before it runs the first of them
LoopTakes(a) ==
    /\ calling = NoTimeout
    /\ TakeAlarm(a)
    /\ called' = NoTimeout
    /\ UNCHANGED <<timeouts, timeoutOf, calling, destroyed, cleared, dangling>>

\* the function of an alarm runs: ProcessTimeout erases the entry of its id
ProcessTimeout ==
    /\ calling = NoTimeout
    /\ RunAlarm
    /\ LET t == timeoutOf[Head(taken)]
       IN /\ calling' = IF t \in DOMAIN timeouts THEN t ELSE NoTimeout
          /\ timeouts' = [u \in DOMAIN timeouts \ {t} |-> timeouts[u]]
    /\ dangling' = (dangling \/ destroyed)
    /\ called' = NoTimeout
    /\ UNCHANGED <<timeoutOf, destroyed, cleared>>

\* callback_, with mutex_ released
CallUser ==
    /\ calling # NoTimeout
    /\ called' = calling
    /\ calling' = NoTimeout
    /\ UNCHANGED <<alarmVars, timeouts, timeoutOf, destroyed, cleared, dangling>>

TimeouterNext ==
    \/ \E t \in TimeoutIds : SetTimeout(t) \/ ClearTimeout(t)
    \/ ClearAllTimeouts
    \/ DestroyTimeouter
    \/ \E a \in pending : LoopTakes(a)
    \/ ProcessTimeout
    \/ CallUser

TimeouterSpec == TimeouterInit /\ [][TimeouterNext]_timeouterVars

-----------------------------------------------------------------------------
(* Properties                                                              *)

(* timeouter.h: ClearTimeout "Clears a previously set timeout call" and    *)
(* "Returns true if indeed a timeout was cleared for provided              *)
(* timeout_id."  After it returned true the callback is not called until   *)
(* the timeout is set again.                                               *)
ClearedStaysQuiet == called \notin cleared

(* timeouter.h: SetTimeout "Registers (or re-registers) a timeout call in  *)
(* timeout_duration ms from this moment".  The callback of a timeout does  *)
(* not come while the alarm of its last SetTimeout is still registered.    *)
NotBeforeLastSet ==
    \A a \in pending : called = timeoutOf[a] => \E b \in AlarmIds : b > a /\ timeoutOf[b] = called

(* ~Timeouter unregisters what could still call it: no alarm calls         *)
(* ProcessTimeout on a destroyed Timeouter.                                *)
NoCallAfterDestroy == ~dangling

(* A timeout that was set and not cleared has an alarm that will call it:  *)
(* replacing alarms and erasing entries never strands one (SetTimeout,     *)
(* ProcessTimeout).                                                        *)
SetHasAlarm ==
    \A t \in DOMAIN timeouts \ cleared : timeouts[t] \in pending \cup ToSet(taken)

(* Timeouter and the alarms agree: a timeout that is set has an alarm, one *)
(* set again waits for its last alarm, and a destroyed Timeouter is not    *)
(* called.                                                                 *)
TimeouterInv ==
    TimeouterTypeOK /\ NotBeforeLastSet /\ NoCallAfterDestroy /\ SetHasAlarm
=============================================================================
