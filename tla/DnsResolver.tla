------------------------------ MODULE DnsResolver ------------------------------
(***************************************************************************)
(* The asynchronous part of DnsResolver (whisperlib/net/dns_resolve.cc):   *)
(* the constructor starts threads and builds their queues, ResolveAsync    *)
(* puts a request in the next queue with a timeout, the threads resolve    *)
(* and call back, the destructor ends them with an empty request.          *)
(***************************************************************************)
EXTENDS QueueData, SequencesExt

CONSTANTS
    Callers,      \* threads that call ResolveAsync
    Requests,     \* hostname and callback of a call, each used once
    num_threads,  \* options_.num_threads
    queue_size,   \* options_.queue_size
    End           \* the empty request of the destructor

ASSUME OptionsAssumption == num_threads \in Nat \ {0} /\ queue_size \in Nat \ {0}
ASSUME EndAssumption == End \notin Requests

ResolverThreads == 0 .. num_threads - 1

VARIABLES
    opc,            \* where the owner is: constructor, use, destructor
    built,          \* queues in resolves_; in the destructor, those without an end yet
    queues,         \* resolves_
    resolve_index,  \* resolve_index_
    cpc,            \* where a caller is in ResolveAsync
    creq, cqueue,   \* its request and its queue
    wpc,            \* where a thread is in RunResolve
    wreq,           \* the request it works on
    asked,          \* history: requests of calls to ResolveAsync
    acceptedRequests,       \* history: requests that Put took
    calls,          \* history: what the callback of every request was called with
    crashed         \* a thread has used a queue that is not there

dnsVars == <<opc, built, queues, resolve_index, cpc, creq, cqueue, wpc, wreq, asked,
          acceptedRequests, calls, crashed>>
caller == <<resolve_index, cpc, creq, cqueue, asked, acceptedRequests>>

DnsTypeOK ==
    /\ opc \in {"start", "build", "use", "end", "join", "gone"}
    /\ built \in 0 .. num_threads
    /\ \A w \in ResolverThreads : ToSet(queues[w]) \subseteq Requests \cup {End}
    /\ resolve_index \in Nat
    /\ cpc \in [Callers -> {"idle", "put", "check"}]
    /\ creq \in [Callers -> Requests \cup {End}] /\ cqueue \in [Callers -> ResolverThreads]
    /\ wpc \in [ResolverThreads -> {"none", "first", "get", "resolve", "done"}]
    /\ wreq \in [ResolverThreads -> Requests \cup {End}]
    /\ acceptedRequests \subseteq asked /\ asked \subseteq Requests
    /\ \A r \in Requests : ToSet(calls[r]) \subseteq {"full", "result"}
    /\ crashed \in BOOLEAN

\* nothing has happened yet, the owner is at `where'
DnsStarts(where) ==
    /\ opc = where /\ built = 0
    /\ queues = [w \in ResolverThreads |-> <<>>]
    /\ resolve_index = 0
    /\ cpc = [c \in Callers |-> "idle"]
    /\ creq = [c \in Callers |-> End] /\ cqueue = [c \in Callers |-> 0]
    /\ wpc = [w \in ResolverThreads |-> "none"] /\ wreq = [w \in ResolverThreads |-> End]
    /\ asked = {} /\ acceptedRequests = {} /\ calls = [r \in Requests |-> <<>>]
    /\ crashed = FALSE

DnsInit == DnsStarts("start")

-----------------------------------------------------------------------------
(* The owner                                                               *)

\* the constructor starts a thread, then builds its queue
StartThread ==
    /\ opc = "start" /\ ~crashed
    /\ wpc' = [wpc EXCEPT ![built] = "first"]
    /\ opc' = "build"
    /\ UNCHANGED <<built, queues, caller, wreq, calls, crashed>>

BuildQueue ==
    /\ opc = "build" /\ ~crashed
    /\ built' = built + 1
    /\ opc' = IF built' = num_threads THEN "use" ELSE "start"
    /\ UNCHANGED <<queues, caller, wpc, wreq, calls, crashed>>

\* the destructor, after all calls have returned; built counts the queues to end
Destroy ==
    /\ opc = "use" /\ ~crashed
    /\ \A c \in Callers : cpc[c] = "idle"
    /\ opc' = "end"
    /\ UNCHANGED <<built, queues, caller, wpc, wreq, calls, crashed>>

\* faulty variant: the end overtakes requests
PutEndInFront ==
    LET w == num_threads - built
    IN /\ opc = "end" /\ ~crashed
       /\ HasEmptySpace(queues[w], queue_size)
       /\ queues' = [queues EXCEPT ![w] = PutAt(@, End, TRUE)]
       /\ built' = built - 1
       /\ opc' = IF built' = 0 THEN "join" ELSE "end"
       /\ UNCHANGED <<caller, wpc, wreq, calls, crashed>>

\* faulty variant: all ends go to one queue
PutEndFirstQueue ==
    LET w == 0
    IN /\ opc = "end" /\ ~crashed
       /\ HasEmptySpace(queues[w], queue_size)
       /\ queues' = [queues EXCEPT ![w] = PutAt(@, End, FALSE)]
       /\ built' = built - 1
       /\ opc' = IF built' = 0 THEN "join" ELSE "end"
       /\ UNCHANGED <<caller, wpc, wreq, calls, crashed>>

\* Put without timeout, queue by queue
PutEnd ==
    LET w == num_threads - built
    IN /\ opc = "end" /\ ~crashed
       /\ HasEmptySpace(queues[w], queue_size)
       /\ queues' = [queues EXCEPT ![w] = PutAt(@, End, FALSE)]
       /\ built' = built - 1
       /\ opc' = IF built' = 0 THEN "join" ELSE "end"
       /\ UNCHANGED <<caller, wpc, wreq, calls, crashed>>

Join ==
    /\ opc = "join" /\ ~crashed
    /\ \A w \in ResolverThreads : wpc[w] = "done"
    /\ opc' = "gone"
    /\ UNCHANGED <<built, queues, caller, wpc, wreq, calls, crashed>>

-----------------------------------------------------------------------------
(* ResolveAsync                                                            *)

ResolveAsync(c, r) ==
    /\ opc = "use" /\ ~crashed
    /\ cpc[c] = "idle" /\ r \notin asked
    /\ asked' = asked \cup {r}
    /\ creq' = [creq EXCEPT ![c] = r]
    /\ cqueue' = [cqueue EXCEPT ![c] = resolve_index % num_threads]
    /\ resolve_index' = resolve_index + 1
    /\ cpc' = [cpc EXCEPT ![c] = "put"]
    /\ UNCHANGED <<opc, built, queues, wpc, wreq, acceptedRequests, calls, crashed>>

\* Put has taken the request and returns an empty optional
PutTakes(c) ==
    /\ cpc[c] = "put" /\ ~crashed
    /\ HasEmptySpace(queues[cqueue[c]], queue_size)
    /\ queues' = [queues EXCEPT ![cqueue[c]] = PutAt(@, creq[c], FALSE)]
    /\ acceptedRequests' = acceptedRequests \cup {creq[c]}
    /\ cpc' = [cpc EXCEPT ![c] = "check"]
    /\ UNCHANGED <<opc, built, resolve_index, creq, cqueue, asked, wpc, wreq, calls, crashed>>

\* Put has timed out and returns the request
RequestTimesOut(c) ==
    /\ cpc[c] = "put" /\ ~crashed
    /\ ~HasEmptySpace(queues[cqueue[c]], queue_size)
    /\ cpc' = [cpc EXCEPT ![c] = "check"]
    /\ UNCHANGED <<opc, built, queues, resolve_index, creq, cqueue, asked, acceptedRequests,
                   wpc, wreq, calls, crashed>>

\* !Put(...) holds for an empty optional: for a request that was taken
CallsBack(r) == r \in acceptedRequests

CheckPut(c) ==
    /\ cpc[c] = "check" /\ ~crashed
    /\ calls' = IF CallsBack(creq[c]) THEN [calls EXCEPT ![creq[c]] = Append(@, "full")]
                                      ELSE calls
    /\ cpc' = [cpc EXCEPT ![c] = "idle"]
    /\ UNCHANGED <<opc, built, queues, resolve_index, creq, cqueue, asked, acceptedRequests,
                   wpc, wreq, crashed>>

-----------------------------------------------------------------------------
(* RunResolve                                                              *)

\* the first use of resolves_[index]: it may not be there yet
FirstUse(w) ==
    /\ wpc[w] = "first" /\ ~crashed
    /\ IF opc \in {"start", "build"} /\ w >= built
       THEN crashed' = TRUE /\ UNCHANGED wpc
       ELSE wpc' = [wpc EXCEPT ![w] = "get"] /\ UNCHANGED crashed
    /\ UNCHANGED <<opc, built, queues, caller, wreq, calls>>

GetRequest(w) ==
    /\ wpc[w] = "get" /\ ~crashed
    /\ HasData(queues[w])
    /\ queues' = [queues EXCEPT ![w] = Tail(@)]
    /\ wreq' = [wreq EXCEPT ![w] = Head(queues[w])]
    /\ wpc' = [wpc EXCEPT ![w] = IF Head(queues[w]) = End THEN "done" ELSE "resolve"]
    /\ UNCHANGED <<opc, built, caller, calls, crashed>>

\* Resolve() returns, with an address or an error, and the callback is called
Resolve(w) ==
    /\ wpc[w] = "resolve" /\ ~crashed
    /\ calls' = [calls EXCEPT ![wreq[w]] = Append(@, "result")]
    /\ wpc' = [wpc EXCEPT ![w] = "get"]
    /\ UNCHANGED <<opc, built, queues, caller, wreq, crashed>>

Owner  == StartThread \/ BuildQueue \/ PutEnd \/ Join
Caller(c) == PutTakes(c) \/ RequestTimesOut(c) \/ CheckPut(c)
Worker(w) == FirstUse(w) \/ GetRequest(w) \/ Resolve(w)

DnsNext ==
    \/ Owner
    \/ Destroy
    \/ \E c \in Callers, r \in Requests : ResolveAsync(c, r)
    \/ \E c \in Callers : Caller(c)
    \/ \E w \in ResolverThreads : Worker(w)

DnsSpec == DnsInit /\ [][DnsNext]_dnsVars

\* every thread goes on; nobody has to call ResolveAsync or the destructor
DnsFairness ==
    /\ WF_dnsVars(Owner)
    /\ \A c \in Callers : WF_dnsVars(Caller(c))
    /\ \A w \in ResolverThreads : WF_dnsVars(Worker(w))

DnsFairSpec == DnsSpec /\ DnsFairness

-----------------------------------------------------------------------------
(* Properties                                                              *)

ResultsOf(r) == Cardinality({i \in DOMAIN calls[r] : calls[r][i] = "result"})

(* A request is resolved at most once, and only if a queue took it.        *)
ResolvedOnce == \A r \in Requests : ResultsOf(r) <= IF r \in acceptedRequests THEN 1 ELSE 0

(* When the destructor has returned, every request that a queue took was   *)
(* resolved: the empty request ends a thread only after all before it.     *)
DestructorDrains == opc = "gone" => \A r \in acceptedRequests : ResultsOf(r) = 1

(* A request that a queue took is resolved, unless a thread crashed on     *)
(* its missing queue.                                                      *)
AcceptedIsResolved == []<>((\A r \in acceptedRequests : ResultsOf(r) = 1) \/ crashed)

(* The destructor returns, also when queues are full (Put without timeout, *)
(* then join), unless a thread crashed.                                    *)
DestructorReturns == []<>(opc \in {"end", "join"} => crashed)

(* dns_resolve.h: ResolveAsync "Resolves a host name asynchronously, and   *)
(* calls the provided callback upon completion": once.                     *)
CalledOnce == \A r \in Requests : Len(calls[r]) <= 1

(* A request that was taken is resolved once, at the latest when the       *)
(* destructor has returned; one that was refused never is.                 *)
DnsInv == DnsTypeOK /\ ResolvedOnce /\ DestructorDrains

(* With fair threads DnsResolver resolves what its queues took, and its    *)
(* destructor returns.                                                     *)
ResolverAnswers == AcceptedIsResolved /\ DestructorReturns
=============================================================================
