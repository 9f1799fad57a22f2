------------------------- MODULE ProducerConsumerQueue -------------------------
(***************************************************************************)
(* ProducerConsumerQueue (whisperlib/sync/producer_consumer_queue.h): a    *)
(* bounded queue under one mutex, with waits for space and for data that   *)
(* may time out.  An operation is one step when it need not wait; when it  *)
(* waits, absl::Mutex runs it again once its condition holds.              *)
(***************************************************************************)
EXTENDS QueueData, SequencesExt

CONSTANTS
    Producers, Consumers,  \* threads
    Items,                 \* what is put, each item once
    None,                  \* no item
    max_size,              \* max_size_
    fifo_policy,           \* fifo_policy_
    AtFront                \* the values of at_front that PutAt is called with

ASSUME ItemsAssumption == None \notin Items
ASSUME SizeAssumption == max_size \in Nat /\ fifo_policy \in BOOLEAN /\ AtFront \subseteq BOOLEAN

VARIABLES
    data,       \* data_
    putting,    \* the item and end of a producer that waits for space
    getting,    \* "no", "Get" or "TryGet": the call in which a consumer waits
    accepted,   \* history: items in data_, in the order they were put there
    out,        \* history: items that left data_, in that order
    returned    \* history: items that Put gave back

pcqVars == <<data, putting, getting, accepted, out, returned>>

NoPut == [item |-> None, at_front |-> FALSE]

PcqTypeOK ==
    /\ data \in Seq(Items) /\ out \in Seq(Items) /\ accepted \in Seq(Items)
    /\ putting \in [Producers -> [item : Items \cup {None}, at_front : BOOLEAN]]
    /\ getting \in [Consumers -> {"no", "Get", "TryGet"}]
    /\ returned \subseteq Items

PcqInit ==
    /\ data = <<>> /\ accepted = <<>> /\ out = <<>> /\ returned = {}
    /\ putting = [p \in Producers |-> NoPut]
    /\ getting = [c \in Consumers |-> "no"]

\* items that a producer may still put
Unused == Items \ (ToSet(accepted) \cup returned \cup {putting[p].item : p \in Producers})

Place(i, at_front) ==
    /\ HasEmptySpace(data, max_size)
    /\ data' = PutAt(data, i, at_front)
    /\ accepted' = Append(accepted, i)

\* Put passes !fifo_policy_ for at_front
PutEnds == AtFront \cup {~fifo_policy}

\* PutAt with space, or it starts to wait
Put(p, i, at_front) ==
    /\ putting[p] = NoPut /\ i \in Unused
    /\ IF HasEmptySpace(data, max_size)
       THEN Place(i, at_front) /\ UNCHANGED putting
       ELSE /\ putting' = [putting EXCEPT ![p] = [item |-> i, at_front |-> at_front]]
            /\ UNCHANGED <<data, accepted>>
    /\ UNCHANGED <<getting, out, returned>>

PutWakes(p) ==
    /\ putting[p] # NoPut
    /\ Place(putting[p].item, putting[p].at_front)
    /\ putting' = [putting EXCEPT ![p] = NoPut]
    /\ UNCHANGED <<getting, out, returned>>

\* the wait ends after the timeout: c goes back when there is still no space
PutTimesOut(p) ==
    /\ putting[p] # NoPut /\ ~HasEmptySpace(data, max_size)
    /\ returned' = returned \cup {putting[p].item}
    /\ putting' = [putting EXCEPT ![p] = NoPut]
    /\ UNCHANGED <<data, getting, accepted, out>>

TakeFront == HasData(data) /\ data' = Tail(data) /\ out' = Append(out, Head(data))

\* Get and TryGet with data, or they start to wait
Get(c, call) ==
    /\ getting[c] = "no"
    /\ IF HasData(data)
       THEN TakeFront /\ UNCHANGED getting
       ELSE getting' = [getting EXCEPT ![c] = call] /\ UNCHANGED <<data, out>>
    /\ UNCHANGED <<putting, accepted, returned>>

GetWakes(c) ==
    /\ getting[c] # "no"
    /\ TakeFront
    /\ getting' = [getting EXCEPT ![c] = "no"]
    /\ UNCHANGED <<putting, accepted, returned>>

TryGetTimesOut(c) ==
    /\ getting[c] = "TryGet" /\ ~HasData(data)
    /\ getting' = [getting EXCEPT ![c] = "no"]
    /\ UNCHANGED <<data, putting, accepted, out, returned>>

\* faulty variant: data_ is not emptied
GetAllKeeps(c) ==
    /\ getting[c] = "no" /\ HasData(data)
    /\ data' = data /\ out' = out \o data
    /\ UNCHANGED <<putting, getting, accepted, returned>>

\* GetAll gives everything to the caller, Clear to nobody
GetAll(c) ==
    /\ getting[c] = "no" /\ HasData(data)
    /\ data' = <<>> /\ out' = out \o data
    /\ UNCHANGED <<putting, getting, accepted, returned>>

PcqNext ==
    \/ \E p \in Producers, i \in Items, f \in PutEnds : Put(p, i, f)
    \/ \E p \in Producers : PutWakes(p) \/ PutTimesOut(p)
    \/ \E c \in Consumers : \E call \in {"Get", "TryGet"} : Get(c, call)
    \/ \E c \in Consumers : GetWakes(c) \/ TryGetTimesOut(c) \/ GetAll(c)

PcqSpec == PcqInit /\ [][PcqNext]_pcqVars

-----------------------------------------------------------------------------
(* Properties                                                              *)

(* No item is lost, doubled or both given back and delivered, whatever     *)
(* waits and timeouts race (PutAt, Get, TryGet, GetAll).                   *)
Conserved ==
    /\ IsInjective(accepted) /\ IsInjective(out \o data)
    /\ ToSet(accepted) = ToSet(out \o data)
    /\ ToSet(accepted) \cap returned = {}

(* With the fifo policy and no PutAt at the front, items leave in the      *)
(* order in which they came in, those of waiting producers included.       *)
FifoOrder == PutEnds = {FALSE} => out \o data = accepted

(* The queue never holds more than max_size_ items, also when several      *)
(* producers that waited for space wake up.                                *)
NeverOverfull == max_size > 0 => Len(data) <= max_size

(* ProducerConsumerQueue delivers each item it took once and in order,     *)
(* gives back what timed out, and holds max_size_ items at most.           *)
PcqInv == PcqTypeOK /\ Conserved /\ FifoOrder /\ NeverOverfull
=============================================================================
