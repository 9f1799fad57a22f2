--------------------------- MODULE TcpConnection ---------------------------
(***************************************************************************)
(* One TcpConnection (net/connection.cc) with the select thread that runs   *)
(* its handlers, its socket, its peer, the resolver, and the other threads  *)
(* that close it.  The members of the object are the record conn; each      *)
(* method is an operator from a value of conn to the next one, so that the  *)
(* nested calls of a handler (the application's handlers included) compose  *)
(* in the order of the code.  conn.abort names the place where the process  *)
(* dies: a failed CHECK, or selector() being null.                          *)
(***************************************************************************)
EXTENDS Integers, Sequences, SequencesExt, FiniteSets

CONSTANTS
  SocketTestsWork, \* FALSE: the tests of lines 671, 1045 and 1127 as written;
                   \* TRUE: as they were meant (the socket, not the member ...)
  ChunkSize,       \* bytes of one chunk of a Cord
  MaxWrites,       \* chunks the application writes
  MaxIn,           \* bytes the peer sends
  ReadLimit,       \* params_.read_limit; 0 when it is not set
  MaxCalls         \* calls the application makes from other threads

ASSUME TcpAssumption ==
  /\ SocketTestsWork \in BOOLEAN
  /\ ChunkSize \in Nat \ {0} /\ MaxWrites \in Nat /\ MaxIn \in Nat
  /\ ReadLimit \in Nat /\ MaxCalls \in Nat

VARIABLES
  conn,    \* the members of the connection
  sock,    \* the kernel's side of fd_, and the peer
  ev,      \* the event Selector::Loop is handling
  posted,  \* functions given to RunInSelectLoop, in order
  dns,     \* the request at the resolver: "none", "asked" or "answered"
  net      \* what can be seen outside: bytes accepted by ::write, and so on

tcpVars == <<conn, sock, ev, posted, dns, net>>

States == {"DISCONNECTED", "RESOLVING", "CONNECTING", "CONNECTED", "FLUSHING"}
CloseHandlers == {"none", "flush", "ignore"}
Reactions == {"nothing", "write", "flush", "force", "error"}
\* The members as the constructor leaves them, with the close handler.
NewConnection(handler) ==
  [state |-> "DISCONNECTED", fd |-> FALSE, selector |-> TRUE, registered |-> FALSE,
   desire |-> {"read", "error"}, readClosed |-> FALSE, writeClosed |-> FALSE,
   timer |-> FALSE, closeOnResolve |-> FALSE, out |-> <<>>, writes |-> 0,
   closes |-> <<>>, handler |-> handler, abort |-> ""]
NoEvent == [flags |-> {}, todo |-> <<>>]
NoSocket == [est |-> FALSE, in |-> 0, fin |-> FALSE, err |-> FALSE, shut |-> FALSE, full |-> FALSE]

---------------------------------------------------------------------------
(* Methods.  c is a value of conn.                                          *)

\* The process dies at `why'; nothing that follows matters.
Abort(c, why) == [c EXCEPT !.abort = IF @ = "" THEN why ELSE @]

\* RequestReadEvents, RequestWriteEvents: selector() is null once Unregister
\* has run.
RequestEvents(c, desire, enable) ==
  IF ~c.selector THEN Abort(c, "null selector: request events")
  ELSE [c EXCEPT !.desire = IF enable THEN @ \cup {desire} ELSE @ \ {desire}]

\* Only a CONNECTED connection whose writing is not closed starts to flush.
CloseCommunication(c) ==
  CASE ~c.fd /\ c.state = "DISCONNECTED" -> c
    [] ~c.fd /\ c.state # "DISCONNECTED" -> Abort(c, "CHECK: close while resolving")
    [] c.fd /\ (c.writeClosed \/ c.state # "CONNECTED") -> c
    [] OTHER -> RequestEvents([c EXCEPT !.state = "FLUSHING"], "write", TRUE)

FlushAndClose(c) ==
  IF c.selector THEN CloseCommunication(c) ELSE Abort(c, "null selector: close")

\* Without a handler the connection closes itself; the handler "flush" does
\* so when the peer stops sending.
ConnectionCallCloseHandler(c, directive) ==
  IF c.handler = "none" \/ (c.handler = "flush" /\ directive = "CLOSE_READ")
  THEN FlushAndClose(c) ELSE c

CallCloseHandler(c, directive) ==
  IF ~c.readClosed \/ (directive = "CLOSE_READ_WRITE" /\ ~c.writeClosed)
  THEN Abort(c, "CHECK: close flags")
  ELSE ConnectionCallCloseHandler([c EXCEPT !.closes = Append(@, directive)], directive)

\* (Faulty: a close that keeps the descriptor.)
KeepFdInternalClose(c) ==
  CASE c.state = "DISCONNECTED" -> IF c.fd THEN Abort(c, "CHECK: fd left") ELSE c
    [] c.state = "RESOLVING" -> [c EXCEPT !.closeOnResolve = TRUE]
    [] OTHER -> CallCloseHandler(
         [c EXCEPT !.state = "DISCONNECTED", !.readClosed = TRUE,
                   !.writeClosed = TRUE, !.timer = FALSE, !.out = <<>>],
         "CLOSE_READ_WRITE")

InternalClose(c) ==
  CASE c.state = "DISCONNECTED" -> IF c.fd THEN Abort(c, "CHECK: fd left") ELSE c
    [] c.state = "RESOLVING" -> [c EXCEPT !.closeOnResolve = TRUE]
    [] OTHER -> CallCloseHandler(
         [c EXCEPT !.fd = FALSE, !.registered = FALSE, !.selector = FALSE,
                   !.state = "DISCONNECTED", !.readClosed = TRUE,
                   !.writeClosed = TRUE, !.timer = FALSE, !.out = <<>>],
         "CLOSE_READ_WRITE")

ForceClose(c) ==
  IF c.selector THEN InternalClose(c) ELSE Abort(c, "null selector: close")

\* Bytes are numbered in the order the application writes them.
Written(c) == c.writes * ChunkSize
Write(c) ==
  IF c.writes = MaxWrites THEN c
  ELSE RequestEvents(
         [c EXCEPT !.writes = @ + 1,
                   !.out = Append(@, [i \in 1..ChunkSize |-> Written(c) + i])],
         "write", TRUE)

\* What one of the application's handlers does; "error" is its status.
React(c, reaction) ==
  CASE reaction = "write" -> Write(c)
    [] reaction = "flush" -> FlushAndClose(c)
    [] reaction = "force" -> ForceClose(c)
    [] reaction = "error" -> InternalClose(c)
    [] OTHER -> c

\* The connect handler has no status to return.
PerformConnectOnFirstOperation(c, reaction) ==
  React([c EXCEPT !.state = "CONNECTED"], IF reaction = "error" THEN "nothing" ELSE reaction)

\* FIONREAD limited by read_limit.  (Faulty: one byte at a time.)
OnePerformRead(s) == IF s.in > 0 THEN 1 ELSE 0
PerformRead(s) == IF ReadLimit > 0 /\ s.in > ReadLimit THEN ReadLimit ELSE s.in

\* Nothing to read is returned as a StatusOr made from an OK status, which is
\* an error.  stale: errno holds the error of some earlier call.
ReadAll(c, reaction, stale) ==
  LET read == React(c, reaction)
      done == IF read.writeClosed \/ read.state = "FLUSHING" \/ stale
              THEN [read EXCEPT !.readClosed = TRUE] ELSE read
      told == IF done.readClosed THEN CallCloseHandler(done, "CLOSE_READ") ELSE done
  IN  IF reaction = "error" THEN read
      ELSE IF done.readClosed /\ told.fd THEN RequestEvents(told, "read", FALSE)
      ELSE told

HandleReadEvent(c, s, reaction, stale) ==
  IF c.state \in {"DISCONNECTED", "RESOLVING"} THEN Abort(c, "CHECK: event state")
  ELSE IF c.state = "CONNECTING" THEN PerformConnectOnFirstOperation(c, reaction)
  ELSE IF s.err \/ s.in = 0 THEN InternalClose(c)
  ELSE ReadAll(c, reaction, stale)

\* The loop over the chunks goes on after a chunk that was written in part;
\* k[i] is what ::write takes of the i-th chunk.
WriteCord(out, k) ==
  LET sent[i \in 0..Len(out)] ==
        CASE i = 0 -> <<>>
          [] i > 1 /\ sent[i - 1] = <<>> -> <<>>
          [] OTHER -> sent[i - 1] \o SelectSeq(out[i], LAMBDA b : b < out[i][1] + k[i])
  IN  sent[Len(out)]

\* Cord::RemovePrefix.
RemovePrefix(out, n) ==
  LET before[i \in 1..Len(out)] == IF i = 1 THEN 0 ELSE before[i - 1] + Len(out[i - 1])
      Rest(i) == SubSeq(out[i], 1 + (IF n > before[i] THEN n - before[i] ELSE 0), Len(out[i]))
  IN  SelectSeq([i \in 1..Len(out) |-> Rest(i)], LAMBDA chunk : chunk # <<>>)

\* shutdown(SHUT_WR) and the linger alarm, once everything is flushed.  (Faulty:
\* no alarm.)
NoLingerShutdownWrite(c) == [c EXCEPT !.writeClosed = TRUE]
ShutdownWrite(c) == [c EXCEPT !.writeClosed = TRUE, !.timer = TRUE]

AfterWrite(c, s, reaction) ==
  LET called == IF c.state # "FLUSHING" THEN React(c, reaction) ELSE c
      idle == RequestEvents(called, "write", FALSE)
  IN  IF (c.state # "FLUSHING" /\ reaction = "error") \/ called.out # <<>> THEN called
      ELSE IF idle.abort # "" \/ idle.state # "FLUSHING" THEN idle
      ELSE IF s.err THEN InternalClose(idle)
      ELSE ShutdownWrite(idle)

HandleWriteEvent(c, s, k, reaction) ==
  IF c.state \in {"DISCONNECTED", "RESOLVING"} THEN Abort(c, "CHECK: event state")
  ELSE IF c.state = "CONNECTING" THEN PerformConnectOnFirstOperation(c, reaction)
  ELSE IF c.out # <<>> /\ (s.err \/ s.shut) THEN InternalClose(c)
  ELSE AfterWrite([c EXCEPT !.out = RemovePrefix(@, Len(WriteCord(@, k)))], s, reaction)

\* HUP and RDHUP wait for the pending input when poll() reports any.
HandleErrorEvent(c, flags) ==
  LET input == "IN" \in flags
      wc == [c EXCEPT !.writeClosed = TRUE]
      flushing == [c EXCEPT !.state = "FLUSHING"]
  IN  IF c.state = "DISCONNECTED" THEN Abort(c, "CHECK: event state")
      ELSE IF "ERR" \in flags THEN InternalClose(c)
      ELSE IF "HUP" \in flags
           THEN IF input /\ c.state # "CONNECTING" THEN wc ELSE InternalClose(wc)
      ELSE IF "RDHUP" \in flags THEN IF input THEN flushing ELSE InternalClose(flushing)
      ELSE c

\* Connect() to an address that is resolved; `outcome' is the first system
\* call that fails.  socket() is tested through the member fd_, still -1, so
\* that without SocketTestsWork every call ends there.
ConnectSocket(c, outcome) ==
  LET open == [c EXCEPT !.fd = TRUE, !.registered = TRUE, !.state = "CONNECTING",
                        !.readClosed = FALSE, !.writeClosed = FALSE]
  IN  IF ~SocketTestsWork \/ outcome = "socket" THEN c
      ELSE IF outcome = "register" THEN [c EXCEPT !.registered = TRUE]
      ELSE IF outcome = "connect" THEN open
      ELSE [open EXCEPT !.desire = @ \cup {"read", "write"}]
ConnectFails(outcome) == ~SocketTestsWork \/ outcome # "ok"

\* close_on_resolve_, a failed resolve and a failed connect all call
\* InternalClose in the state RESOLVING.
HandleDnsResult(c, resolved, outcome) ==
  IF c.state # "RESOLVING" THEN Abort(c, "CHECK: dns state")
  ELSE IF c.closeOnResolve \/ ~resolved THEN InternalClose(c)
  ELSE IF ConnectFails(outcome) THEN InternalClose(ConnectSocket(c, outcome))
  ELSE ConnectSocket(c, outcome)

\* Wrap(): the acceptor's way to a connection; `outcome' as in ConnectSocket.
\* A failure after Register leaves the object registered.
WrapResult(c, outcome) ==
  IF outcome = "socket" THEN c
  ELSE IF outcome # "ok" \/ ~SocketTestsWork THEN [c EXCEPT !.registered = TRUE]
  ELSE [c EXCEPT !.fd = TRUE, !.registered = TRUE, !.state = "CONNECTED",
                 !.readClosed = FALSE, !.writeClosed = FALSE, !.desire = @ \cup {"read"}]

---------------------------------------------------------------------------
TcpInit ==
  /\ conn \in {NewConnection(handler) : handler \in CloseHandlers}
  /\ sock = NoSocket /\ ev = NoEvent /\ posted = <<>> /\ dns = "none"
  /\ net = [sent |-> <<>>, received |-> 0, flushed |-> FALSE, calls |-> 0]

Running == conn.abort = ""
\* The select thread is between two events: it runs functions and alarms.
Idle == Running /\ ev = NoEvent

\* A handler ends with the value c: closing fd_ ends the socket.
Becomes(c) ==
  /\ conn' = c
  /\ sock' = IF c.fd THEN sock ELSE NoSocket

\* Selector::Loop: the handlers of one event run in this order, as long as
\* they return true and fd_ is valid.
Proceed(c, goesOn) ==
  ev' = IF goesOn /\ c.fd /\ Len(ev.todo) > 1 THEN [ev EXCEPT !.todo = Tail(@)] ELSE NoEvent

\* -- the application ------------------------------------------------------

StartConnect(resolved, outcome) ==
  /\ Idle /\ conn.state = "DISCONNECTED" /\ conn.selector /\ conn.closes = <<>>
  /\ ~conn.registered
  /\ IF resolved
     THEN /\ conn' = ConnectSocket(conn, outcome)
          /\ sock' = [NoSocket EXCEPT !.err = conn'.fd /\ outcome = "connect"]
          /\ UNCHANGED dns
     ELSE /\ conn' = [conn EXCEPT !.state = "RESOLVING"]
          /\ dns' = "asked" /\ UNCHANGED sock
  /\ UNCHANGED <<ev, posted, net>>

Wrap(outcome) ==
  /\ Idle /\ conn.state = "DISCONNECTED" /\ conn.selector /\ conn.closes = <<>>
  /\ ~conn.registered
  /\ conn' = WrapResult(conn, outcome)
  /\ sock' = IF conn'.fd THEN [NoSocket EXCEPT !.est = TRUE] ELSE NoSocket
  /\ UNCHANGED <<ev, posted, dns, net>>

\* Another thread calls FlushAndClose() or ForceClose(): the call moves to
\* the select thread.
CallFromThread(call) ==
  /\ Running /\ net.calls < MaxCalls /\ conn.state # "DISCONNECTED"
  /\ posted' = Append(posted, call)
  /\ net' = [net EXCEPT !.calls = @ + 1]
  /\ UNCHANGED <<conn, sock, ev, dns>>

\* The application writes, in the select thread, to an open connection.
AppWrite ==
  /\ Idle /\ conn.state \in {"CONNECTED", "FLUSHING"} /\ conn.writes < MaxWrites
  /\ conn' = Write(conn)
  /\ UNCHANGED <<sock, ev, posted, dns, net>>

\* -- the select thread ----------------------------------------------------

RunPosted ==
  /\ Idle /\ posted # <<>>
  /\ LET c == IF Head(posted) = "flush" THEN FlushAndClose(conn) ELSE ForceClose(conn)
     IN  /\ Becomes(c)
         /\ net' = [net EXCEPT !.flushed = @ \/ (conn.state = "CONNECTED" /\ c.state = "FLUSHING")]
  /\ posted' = Tail(posted)
  /\ UNCHANGED <<ev, dns>>

DnsAnswer(resolved, outcome) ==
  /\ Idle /\ dns = "asked"
  /\ dns' = "answered"
  /\ Becomes(HandleDnsResult(conn, resolved, outcome))
  /\ UNCHANGED <<ev, posted, net>>

\* The alarm of shutdown_linger_timeout.
HandleTimeoutEvent ==
  /\ Idle /\ conn.timer
  /\ Becomes(InternalClose(conn))
  /\ UNCHANGED <<ev, posted, dns, net>>

\* CleanAndCloseAll when the loop ends: it calls Close() until nothing is
\* registered, and Close() of a disconnected object unregisters nothing.
CloseAll ==
  /\ Idle /\ conn.registered
  /\ Becomes(IF conn.fd THEN InternalClose(conn) ELSE Abort(conn, "hang: CleanAndCloseAll"))
  /\ UNCHANGED <<ev, posted, dns, net>>

\* What poll() reports: IN and RDHUP while reading is wanted, OUT while
\* writing is and there is room in the send buffer (or no more sending),
\* HUP and ERR always.
Revents ==
  {f \in {"IN", "RDHUP", "OUT", "HUP", "ERR"} :
     \/ f = "IN" /\ "read" \in conn.desire /\ sock.est /\ (sock.in > 0 \/ sock.fin)
     \/ f = "RDHUP" /\ "read" \in conn.desire /\ sock.fin
     \/ f = "OUT" /\ "write" \in conn.desire /\ sock.est /\ (~sock.full \/ sock.shut \/ sock.err)
     \/ f = "HUP" /\ (sock.err \/ (sock.fin /\ sock.shut))
     \/ f = "ERR" /\ sock.err}

TcpLoopStep ==
  /\ Idle /\ conn.registered /\ conn.fd /\ Revents # {}
  /\ ev' = [flags |-> Revents,
            todo |-> SelectSeq(<<"error", "read", "write">>,
                       LAMBDA t : \/ t = "error" /\ Revents \cap {"ERR", "HUP", "RDHUP"} # {}
                                  \/ t = "read" /\ "IN" \in Revents
                                  \/ t = "write" /\ "OUT" \in Revents)]
  /\ UNCHANGED <<conn, sock, posted, dns, net>>

ErrorEvent ==
  /\ Running /\ ev # NoEvent /\ Head(ev.todo) = "error"
  /\ Becomes(HandleErrorEvent(conn, ev.flags))
  /\ Proceed(conn', conn'.state # "DISCONNECTED")
  /\ UNCHANGED <<posted, dns, net>>

ReadEvent(reaction, stale) ==
  /\ Running /\ ev # NoEvent /\ Head(ev.todo) = "read"
  /\ LET c == HandleReadEvent(conn, sock, reaction, stale)
         n == IF conn.state = "CONNECTING" \/ sock.err THEN 0 ELSE PerformRead(sock)
     IN  /\ conn' = c
         /\ sock' = IF c.fd THEN [sock EXCEPT !.in = @ - n] ELSE NoSocket
         /\ net' = [net EXCEPT !.received = @ + n]
         /\ Proceed(c, conn.state # "CONNECTING" \/ c.state = "CONNECTED")
  /\ UNCHANGED <<posted, dns>>

WriteEvent(k, reaction) ==
  /\ Running /\ ev # NoEvent /\ Head(ev.todo) = "write"
  /\ LET c == HandleWriteEvent(conn, sock, k, reaction)
         sent == IF conn.state = "CONNECTING" \/ sock.err \/ sock.shut THEN <<>>
                 ELSE WriteCord(conn.out, k)
     IN  /\ conn' = c
         /\ \E full \in IF sent # <<>> THEN BOOLEAN ELSE {sock.full} :
              sock' = IF c.fd THEN [sock EXCEPT !.shut = @ \/ (c.writeClosed /\ ~conn.writeClosed),
                                                !.full = full]
                      ELSE NoSocket
         /\ net' = [net EXCEPT !.sent = @ \o sent]
         /\ Proceed(c, TRUE)
  /\ UNCHANGED <<posted, dns>>

\* -- the peer and the network ---------------------------------------------

Established == sock.est \/ sock.err
PeerConnects ==
  /\ Running /\ conn.fd /\ ~Established
  /\ sock' \in {[sock EXCEPT !.est = TRUE], [sock EXCEPT !.err = TRUE]}
  /\ UNCHANGED <<conn, ev, posted, dns, net>>

PeerSends ==
  /\ Running /\ conn.fd /\ sock.est /\ ~sock.fin /\ ~sock.err
  /\ net.received + sock.in < MaxIn
  /\ sock' = [sock EXCEPT !.in = @ + 1]
  /\ UNCHANGED <<conn, ev, posted, dns, net>>

PeerCloses ==
  /\ Running /\ conn.fd /\ sock.est /\ ~sock.fin /\ ~sock.err
  /\ sock' \in {[sock EXCEPT !.fin = TRUE], [sock EXCEPT !.err = TRUE]}
  /\ UNCHANGED <<conn, ev, posted, dns, net>>

\* The peer reads what it was sent: there is room in the send buffer again.
PeerReads ==
  /\ Running /\ conn.fd /\ sock.est /\ sock.full /\ ~sock.err
  /\ sock' = [sock EXCEPT !.full = FALSE]
  /\ UNCHANGED <<conn, ev, posted, dns, net>>

\* What ::write takes of each chunk; of the first at least a byte, when poll()
\* has reported that there is room.
Takes == {k \in [DOMAIN conn.out -> 0..ChunkSize] : conn.out # <<>> => k[1] > 0}
Outcomes == {"socket", "register", "connect", "ok"}

\* The select thread on its way through the events of poll().
EventStep ==
  \/ TcpLoopStep \/ ErrorEvent
  \/ \E reaction \in Reactions :
       \/ \E stale \in BOOLEAN : ReadEvent(reaction, stale)
       \/ \E k \in Takes : WriteEvent(k, reaction)

TcpNext ==
  \/ \E outcome \in Outcomes :
       \/ \E resolved \in BOOLEAN : StartConnect(resolved, outcome) \/ DnsAnswer(resolved, outcome)
       \/ Wrap(outcome)
  \/ \E call \in {"flush", "force"} : CallFromThread(call)
  \/ AppWrite \/ RunPosted \/ HandleTimeoutEvent \/ CloseAll \/ EventStep
  \/ PeerConnects \/ PeerSends \/ PeerReads \/ PeerCloses

\* The select thread keeps running, and comes to its functions and alarms
\* between two events.  The peer need not do anything.
TcpFairness == WF_tcpVars(EventStep) /\ SF_tcpVars(RunPosted \/ HandleTimeoutEvent)

TcpSpec == TcpInit /\ [][TcpNext]_tcpVars /\ TcpFairness

---------------------------------------------------------------------------
\* Every variable has its type.
TcpTypeOK ==
  /\ conn.state \in States /\ conn.desire \subseteq {"read", "write", "error"}
  /\ conn.handler \in CloseHandlers /\ conn.writes \in 0..MaxWrites
  /\ sock \in [est : BOOLEAN, in : 0..MaxIn, fin : BOOLEAN, err : BOOLEAN, shut : BOOLEAN,
              full : BOOLEAN]
  /\ dns \in {"none", "asked", "answered"} /\ Len(posted) <= MaxCalls
  /\ net.received \in 0..MaxIn /\ net.calls \in 0..MaxCalls

\* Whatever the application does in its handlers and whenever the peer closes,
\* none of the CHECKs of HandleReadEvent, HandleWriteEvent, HandleErrorEvent,
\* CallCloseHandler, InternalClose and HandleDnsResult fails.  The CHECK of
\* CloseCommunication, that a connection without a descriptor is DISCONNECTED,
\* does fail, but only for a FlushAndClose() while the name is being resolved.
TcpChecksHold ==
  /\ conn.abort \notin {"CHECK: event state", "CHECK: close flags", "CHECK: fd left",
                        "CHECK: dns state"}
  /\ conn.abort = "CHECK: close while resolving" => conn.state = "RESOLVING"

\* A descriptor is held exactly in the states of an open connection, and an
\* open connection is registered with its selector.
OpenIsRegistered ==
  /\ conn.fd <=> conn.state \in {"CONNECTING", "CONNECTED", "FLUSHING"}
  /\ conn.fd => conn.registered /\ conn.selector

\* The application is told at most once that the connection is gone
\* (CLOSE_READ_WRITE), and only once the descriptor is closed.
CloseReportedOnce ==
  LET gone == {i \in DOMAIN conn.closes : conn.closes[i] = "CLOSE_READ_WRITE"}
  IN  Cardinality(gone) <= 1 /\ (gone # {} => ~conn.fd)

\* While the connection is open, what ::write accepted followed by outbuf_ is
\* what the application wrote, in that order.
StreamInOrder ==
  /\ \A i \in DOMAIN net.sent : net.sent[i] = i
  /\ conn.fd => Len(net.sent) + Len(FlattenSeq(conn.out)) = Written(conn)

\* TcpConnection, whatever its handlers, its owner, the peer and the resolver
\* do: the CHECKs on its state hold but for the one that is named, an open
\* connection is registered, and its end is told once.
TcpInv == TcpTypeOK /\ TcpChecksHold /\ OpenIsRegistered /\ CloseReportedOnce

\* When the peer has finished sending, CLOSE_READ is reported only after all
\* it sent was read ("wait until recv() returns 0, then set read_closed_").
ReadBeforeCloseRead ==
  [][ Len(conn'.closes) = Len(conn.closes) + 1 /\ Last(conn'.closes) = "CLOSE_READ"
      /\ sock.fin /\ conn'.fd => sock'.in = 0 ]_tcpVars

\* FlushAndClose() of a connected connection ends in the connection being
\* closed: everything is written, the write half is shut, and the peer's
\* close or the linger timeout does the rest.  The linger alarm is set only
\* when outbuf_ is empty: a peer that from some time on never reads keeps the
\* connection FLUSHING.
FlushCloses == <>[](sock.full) \/ []<>(net.flushed => ~conn.fd \/ ~Running)

\* A name that cannot be resolved, or a close asked for in the meantime, ends
\* the connection once the resolver has answered.
ResolvingEnds == dns = "answered" => conn.state # "RESOLVING"
=============================================================================
