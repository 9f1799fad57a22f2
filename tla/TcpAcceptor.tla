---------------------------- MODULE TcpAcceptor ----------------------------
(***************************************************************************)
(* TcpAcceptor (net/connection.cc): the listening socket in its selector,   *)
(* the client descriptors it accepts, and the client threads that turn them *)
(* into connections with Wrap().  The connections are those of              *)
(* TcpConnection, of which WrapResult and ForceClose are used.              *)
(***************************************************************************)
EXTENDS TcpConnection, FiniteSets

CONSTANTS
  MaxClients,    \* clients that connect
  ClientThreads  \* client_threads_

ASSUME AcceptorAssumption == MaxClients \in Nat /\ ClientThreads \in Nat \ {0}

VARIABLES
  acc,       \* the members of the acceptor; next is next_client_thread_
  client,    \* where the descriptor of each client is
  todo,      \* the functions queued at each thread: <<what, client>>
  stats,     \* Statistics
  given      \* connections handed to each thread so far

accVars == <<acc, client, todo, stats, given>>

Clients == 1..MaxClients
MaxSocketErrors == 2   \* bound on the error events of the listening socket
ClientThreadIds == 0..(ClientThreads - 1)
ClientPlaces == {"none", "backlog", "scheduled", "delivered", "dropping", "closed",
                 "dangling"}

AccInit ==
  /\ \E hasHandler \in BOOLEAN :
       acc = [state |-> "DISCONNECTED", fd |-> FALSE, selector |-> TRUE,
              registered |-> FALSE, polled |-> FALSE, closing |-> 0,
              hasHandler |-> hasHandler, next |-> 0, abort |-> ""]
  /\ client = [c \in Clients |-> "none"]
  /\ todo = [t \in ClientThreadIds |-> <<>>]
  /\ stats = [hangUps |-> 0, errors |-> 0, parse |-> 0, filtered |-> 0, scheduled |-> 0,
              accepted |-> 0, wrapErrors |-> 0, initialized |-> 0]
  /\ given = [t \in ClientThreadIds |-> 0]

AccRunning == acc.abort = ""

\* `failed' is the step that fails: one before Register(), Register() itself
\* or one after it, or none.  The descriptor is closed on the way out; what
\* Register() did is not undone.
Listen(failed) ==
  /\ AccRunning /\ ~acc.fd /\ acc.state = "DISCONNECTED" /\ acc.selector /\ ~acc.registered
  /\ acc' = IF ~SocketTestsWork \/ failed = "socket" THEN acc
            ELSE IF failed # "ok"
            THEN [acc EXCEPT !.registered = TRUE, !.polled = failed = "connect"]
            ELSE [acc EXCEPT !.fd = TRUE, !.registered = TRUE, !.polled = TRUE,
                                      !.state = "LISTENING"]
  /\ UNCHANGED <<client, todo, stats, given>>

\* fd_ is exchanged before Unregister(), which then asks the loop to delete
\* the descriptor -1: the entry of the table stays.
AccInternalClose(a) ==
  IF a.fd THEN [a EXCEPT !.fd = FALSE, !.registered = FALSE, !.selector = FALSE,
                         !.state = "DISCONNECTED"]
  ELSE IF a.state = "DISCONNECTED" THEN a ELSE [a EXCEPT !.abort = "CHECK: acceptor state"]

\* Close() of another thread moves to the select thread.
CloseFromThread ==
  /\ AccRunning /\ acc.state = "LISTENING" /\ acc.closing < MaxCalls
  /\ acc' = [acc EXCEPT !.closing = @ + 1]
  /\ UNCHANGED <<client, todo, stats, given>>
RunClose ==
  /\ AccRunning /\ acc.closing > 0
  /\ acc' = IF acc.selector THEN AccInternalClose([acc EXCEPT !.closing = @ - 1])
            ELSE [acc EXCEPT !.abort = "null selector: close"]
  /\ UNCHANGED <<client, todo, stats, given>>

ClientArrives(c) ==
  /\ AccRunning /\ acc.state = "LISTENING" /\ client[c] = "none"
  /\ client' = [client EXCEPT ![c] = "backlog"]
  /\ UNCHANGED <<acc, todo, stats, given>>

\* AcceptorThreads: each call takes the next thread.
GetNextSelector == acc.next % ClientThreads

\* The client went away before ::accept, or its address cannot be parsed, or
\* the filter refuses it, or its descriptor goes to the next thread.
AccHandleReadEvent(c, outcome) ==
  /\ AccRunning /\ acc.selector /\ acc.fd /\ client[c] = "backlog"
  /\ \/ /\ outcome \in {"gone", "parse", "filtered"}
        /\ client' = [client EXCEPT ![c] = "closed"]
        /\ stats' = IF outcome = "gone" THEN stats ELSE [stats EXCEPT ![outcome] = @ + 1]
        /\ UNCHANGED <<acc, todo, given>>
     \/ /\ outcome = "ok"
        /\ client' = [client EXCEPT ![c] = "scheduled"]
        /\ stats' = [stats EXCEPT !.scheduled = @ + 1]
        /\ todo' = [todo EXCEPT ![GetNextSelector] = Append(@, <<"initialize", c>>)]
        /\ given' = [given EXCEPT ![GetNextSelector] = @ + 1]
        /\ acc' = [acc EXCEPT !.next = @ + 1]

\* A hang up is counted; an error closes the acceptor.
AccHandleErrorEvent(hangUp) ==
  /\ AccRunning /\ acc.selector /\ acc.fd /\ stats.hangUps + stats.errors < MaxSocketErrors
  /\ stats' = IF hangUp THEN [stats EXCEPT !.hangUps = @ + 1] ELSE [stats EXCEPT !.errors = @ + 1]
  /\ acc' = IF hangUp THEN acc ELSE AccInternalClose(acc)
  /\ UNCHANGED <<client, todo, given>>

\* A wrapped connection goes to the accept handler, or without one to a
\* function that closes and deletes it.  A connection that could not be
\* wrapped is destroyed, and its descriptor closed, even when it is already
\* registered: "dangling".  (Faulty: the function stays queued.)
StickyInitialize(t, outcome) ==
  /\ AccRunning /\ todo[t] # <<>> /\ Head(todo[t])[1] = "initialize"
  /\ stats' = [stats EXCEPT !.accepted = @ + 1, !.initialized = @ + 1]
  /\ UNCHANGED <<acc, client, todo, given>>
InitializeAcceptedConnection(t, outcome) ==
  /\ AccRunning /\ todo[t] # <<>> /\ Head(todo[t])[1] = "initialize"
  /\ LET c == Head(todo[t])[2]
         wrapped == WrapResult(NewConnection("none"), outcome)
         place == CASE wrapped.fd /\ acc.hasHandler -> "delivered"
                    [] wrapped.fd /\ ~acc.hasHandler -> "dropping"
                    [] ~wrapped.fd /\ wrapped.registered -> "dangling"
                    [] OTHER -> "closed"
     IN  /\ client' = [client EXCEPT ![c] = place]
         /\ todo' = [todo EXCEPT ![t] = Tail(@) \o IF place = "dropping" THEN <<<<"drop", c>>>> ELSE <<>>]
         /\ stats' = [stats EXCEPT !.accepted = @ + 1,
                                   !.wrapErrors = @ + (IF wrapped.fd THEN 0 ELSE 1),
                                   !.initialized = @ + (IF wrapped.fd THEN 1 ELSE 0)]
  /\ UNCHANGED <<acc, given>>

\* ForceClose() and delete.  Without a close handler the close ends in
\* FlushAndClose(), which has no selector any more.
DropConnection(t) ==
  /\ AccRunning /\ todo[t] # <<>> /\ Head(todo[t])[1] = "drop"
  /\ LET closed == ForceClose(WrapResult(NewConnection("none"), "ok"))
     IN  acc' = [acc EXCEPT !.abort = closed.abort]
  /\ client' = [client EXCEPT ![Head(todo[t])[2]] = "closed"]
  /\ todo' = [todo EXCEPT ![t] = Tail(@)]
  /\ UNCHANGED <<stats, given>>

AccNext ==
  \/ \E outcome \in Outcomes :
       Listen(outcome) \/ \E t \in ClientThreadIds : InitializeAcceptedConnection(t, outcome)
  \/ CloseFromThread \/ RunClose
  \/ \E c \in Clients :
       ClientArrives(c) \/ \E o \in {"gone", "parse", "filtered", "ok"} : AccHandleReadEvent(c, o)
  \/ \E hangUp \in BOOLEAN : AccHandleErrorEvent(hangUp)
  \/ \E t \in ClientThreadIds : DropConnection(t)

AccSpec == AccInit /\ [][AccNext]_accVars

---------------------------------------------------------------------------
\* Every variable has its type.
AccTypeOK ==
  /\ acc.state \in {"DISCONNECTED", "LISTENING"} /\ acc.closing \in 0..MaxCalls
  /\ client \in [Clients -> ClientPlaces]
  /\ \A t \in ClientThreadIds : Len(todo[t]) <= MaxClients
  /\ \A s \in DOMAIN stats : stats[s] \in 0..(MaxClients + MaxSocketErrors)

\* The counters of Statistics account for every descriptor that was accepted:
\* what was scheduled is still queued or was taken up, what was taken up was
\* delivered, is being dropped, or failed, and none is in two places.
AcceptedAccountedFor ==
  LET In(places) == Cardinality({c \in Clients : client[c] \in places})
      Queued == {at \in ClientThreadIds \X (1..MaxClients) :
                   at[2] <= Len(todo[at[1]]) /\ todo[at[1]][at[2]][1] = "initialize"}
  IN  /\ Cardinality(Queued) = In({"scheduled"})
      /\ stats.scheduled = In({"scheduled"}) + stats.accepted
      /\ stats.accepted = stats.initialized + stats.wrapErrors
      /\ stats.initialized >= In({"delivered", "dropping"})

\* "This can be at most 1, as the acceptor is closed upon errors"
\* (Statistics::errors_handled); a closed acceptor does not listen again.
ErrorsAtMostOne ==
  stats.errors <= 1 /\ (stats.errors = 1 => acc.state = "DISCONNECTED" /\ ~acc.fd)

\* The work is shared: no client thread is ever given two connections more
\* than another (AcceptorThreads::GetNextSelector).
SharedEvenly == \A s, t \in ClientThreadIds : given[s] <= given[t] + 1

\* TcpAcceptor loses no client between its thread and those of the clients,
\* shares them evenly and closes at its first error.
AccInv == AccTypeOK /\ AcceptedAccountedFor /\ ErrorsAtMostOne /\ SharedEvenly
=============================================================================
