----------------------------- MODULE AlarmService -----------------------------
(***************************************************************************)
(* What the alarms of a Selector promise to their users, whenever they go  *)
(* off (RegisterAlarm and UnregisterAlarm in whisperlib/net/selector.h):   *)
(* every alarm has an id of its own; the loop takes an alarm that is still *)
(* registered, at most once, and later runs it.  An alarm that was taken   *)
(* can not be unregistered any more.                                       *)
(***************************************************************************)
EXTENDS Naturals, Sequences

CONSTANT MaxAlarms   \* bound on the alarms ever registered

ASSUME MaxAlarmsAssumption == MaxAlarms \in Nat

VARIABLES
    issued,   \* alarm_id_: the id of the next alarm
    pending,  \* ids of the alarms registered and not taken
    taken     \* ids of the alarms taken and not yet run, in order

alarmVars == <<issued, pending, taken>>

AlarmInit == issued = 0 /\ pending = {} /\ taken = <<>>

RegisterAlarm ==
    /\ issued < MaxAlarms
    /\ issued' = issued + 1
    /\ pending' = pending \cup {issued}
    /\ UNCHANGED taken

UnregisterAlarm(S) ==
    /\ pending' = pending \ S
    /\ UNCHANGED <<issued, taken>>

TakeAlarm(a) ==
    /\ a \in pending
    /\ pending' = pending \ {a}
    /\ taken' = Append(taken, a)
    /\ UNCHANGED issued

\* the first of the alarms taken runs
RunAlarm ==
    /\ taken # <<>>
    /\ taken' = Tail(taken)
    /\ UNCHANGED <<issued, pending>>

AlarmNext ==
    \/ RegisterAlarm
    \/ \E a \in 0 .. MaxAlarms - 1 : UnregisterAlarm({a})
    \/ \E a \in pending : TakeAlarm(a)
    \/ RunAlarm

AlarmSpec == AlarmInit /\ [][AlarmNext]_alarmVars
=============================================================================
