---------------------------- MODULE MCSelectorPoll ----------------------------
(***************************************************************************)
(* SelectorPoll on small tables.                                           *)
(***************************************************************************)
EXTENDS SelectorPoll

CONSTANTS c1, c2, c3, c4

FourSelectables == {c1, c2, c3, c4}
TwoSelectables  == {c1, c2}

\* Selectables do the same things
Alike == Permutations(FourSelectables)

\* quiet, readable and writable, closed by the peer
Ready == {{}, {"POLLIN", "POLLOUT"}, {"POLLRDHUP"}}

\* something can be read or nothing happened
ReadyToRead == {{}, {"POLLIN"}}
=============================================================================
