--------------------------- MODULE MCSelectorTables ---------------------------
(***************************************************************************)
(* The tables of a Selector on small instances, the descriptors over       *)
(* either loop or the alarms: `part' says what a behaviour is about.       *)
(***************************************************************************)
EXTENDS EpollLoop, MCSelectorPoll, SelectorAlarms

VARIABLE part

TablesInit == /\ EpollInit /\ AlarmsInit /\ part \in {"descriptors", "alarms"}
              /\ part = "alarms" => loop_type = "POLL"

TablesNext ==
    \/ part = "descriptors" /\ SelectorNext /\ UNCHANGED <<alarmsVars, part>>
    \/ part = "alarms" /\ AlarmsNext /\ UNCHANGED <<epollVars, part>>

TablesSpec == TablesInit /\ [][TablesNext]_<<epollVars, alarmsVars, part>>
=============================================================================
